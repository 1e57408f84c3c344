----------------------- MODULE IdleControllerProofs -----------------------
(* The controller's counters, its idle stop and its retry channel are right  *)
(* for any number of leases and schedulers and any idle interval.            *)
EXTENDS IdleController, TLAPS, FiniteSetTheorems

Foregrounds == Out({"foreground"})
Drains == Out({"drain", "child"})

(* A live timer or callback means that the daemon is started and unused; the *)
(* interval runs from the last request; an expiry is held up by work alone.  *)
GenerationsOK ==
    /\ callbacks \subseteq 1 .. generation /\ timer \in 0 .. generation
    /\ ~stopping /\ (generation \in callbacks \/ (timer # 0 /\ timer = generation))
          => started /\ foreground = 0

IntervalOK == ~stopping /\ started /\ foreground = 0 => quiet = Timeout - left

ExpiryOK ==
    /\ ~stopping /\ expired => started /\ foreground = 0 /\ drains > 0 /\ left = 0
    /\ ~stopping => idleCalls = 0

IInv == /\ TypeOK /\ CountersMatch /\ IdleStopJustified /\ WaitersWillBeWoken
        /\ GenerationsOK /\ IntervalOK /\ ExpiryOK

-----------------------------------------------------------------------------
(* What is out is finite, and nothing is out exactly when no lease of either *)
(* sort is.                                                                  *)
LEMMA OutFinite ==
    ASSUME TypeOK
    PROVE  /\ IsFiniteSet(Foregrounds) /\ IsFiniteSet(Drains)
           /\ Cardinality(Foregrounds) \in Nat /\ Cardinality(Drains) \in Nat
           /\ (Cardinality(Foregrounds) = 0 => Foregrounds = {})
           /\ (Cardinality(Drains) = 0 => Drains = {})
           /\ Out({"foreground", "drain", "child"}) = Foregrounds \cup Drains
<1>1. Foregrounds \subseteq Units /\ Drains \subseteq Units
  BY DEF Foregrounds, Drains, Out
<1>2. IsFiniteSet(Foregrounds) /\ IsFiniteSet(Drains)
  BY <1>1, FS_Subset, ParametersAssumption
<1>3. Out({"foreground", "drain", "child"}) = Foregrounds \cup Drains
  BY DEF Foregrounds, Drains, Out
<1> QED BY <1>2, <1>3, FS_CardinalityType, FS_EmptySet

(* An admission or a fork adds its lease to what is out, and nothing else.   *)
LEMMA AdmittedIsOut ==
    ASSUME TypeOK, NEW u \in Units, NEW kind \in {"foreground", "drain", "child"},
           Unheld(u), leases' = [leases EXCEPT ![u] = Lease(kind)]
    PROVE  /\ leases' \in [Units -> [kind : {"none", "foreground", "drain", "child"},
                                     released : BOOLEAN]]
           /\ Cardinality(Foregrounds') = Cardinality(Foregrounds)
                                          + (IF kind = "foreground" THEN 1 ELSE 0)
           /\ Cardinality(Drains') = Cardinality(Drains)
                                     + (IF kind = "foreground" THEN 0 ELSE 1)
<1>1. u \notin Foregrounds /\ u \notin Drains
  BY DEF Foregrounds, Drains, Out, Unheld
<1>t. leases' \in [Units -> [kind : {"none", "foreground", "drain", "child"},
                           released : BOOLEAN]]
  BY DEF TypeOK, Lease
<1>f. IsFiniteSet(Foregrounds) /\ IsFiniteSet(Drains)
      /\ Cardinality(Foregrounds) \in Nat /\ Cardinality(Drains) \in Nat
  BY OutFinite
<1>c. /\ Cardinality(Foregrounds \cup {u}) = Cardinality(Foregrounds) + 1
      /\ Cardinality(Drains \cup {u}) = Cardinality(Drains) + 1
  BY <1>1, <1>f, FS_AddElement
<1>2. CASE kind = "foreground"
  <2>1. Foregrounds' = Foregrounds \cup {u} /\ Drains' = Drains
    BY <1>2, <1>1 DEF Foregrounds, Drains, Out, Lease, TypeOK
  <2> QED BY <1>2, <1>c, <1>f, <1>t, <2>1
<1>3. CASE kind \in {"drain", "child"}
  <2>1. Foregrounds' = Foregrounds /\ Drains' = Drains \cup {u}
    BY <1>3, <1>1 DEF Foregrounds, Drains, Out, Lease, TypeOK
  <2> QED BY <1>3, <1>c, <1>f, <1>t, <2>1
<1> QED BY <1>2, <1>3

(* A release takes its lease out of what is out, and nothing else.           *)
LEMMA ReleasedIsNotOut ==
    ASSUME TypeOK, NEW u \in Units, Released(u),
           leases[u].kind # "none", ~leases[u].released
    PROVE  /\ leases' \in [Units -> [kind : {"none", "foreground", "drain", "child"},
                                     released : BOOLEAN]]
           /\ leases[u].kind = "foreground" =>
                 /\ Cardinality(Foregrounds) # 0
                 /\ Cardinality(Foregrounds') = Cardinality(Foregrounds) - 1
                 /\ Drains' = Drains
           /\ leases[u].kind # "foreground" =>
                 /\ Cardinality(Drains) # 0
                 /\ Cardinality(Drains') = Cardinality(Drains) - 1
                 /\ Foregrounds' = Foregrounds
                 /\ Cardinality(Drains') = 0 /\ Cardinality(Foregrounds) = 0
                       => Out({"foreground", "drain", "child"})' = {}
<1>t. leases' \in [Units -> [kind : {"none", "foreground", "drain", "child"},
                           released : BOOLEAN]]
  BY DEF TypeOK, Released
<1>f. IsFiniteSet(Foregrounds) /\ IsFiniteSet(Drains)
  BY OutFinite
<1>1. CASE leases[u].kind = "foreground"
  <2>1. Foregrounds' = Foregrounds \ {u} /\ Drains' = Drains /\ u \in Foregrounds
    BY <1>1 DEF Foregrounds, Drains, Out, Released, TypeOK
  <2>2. Cardinality(Foregrounds) # 0
    BY <2>1, OutFinite
  <2> QED BY <1>1, <2>1, <2>2, <1>f, <1>t, FS_RemoveElement
<1>2. CASE leases[u].kind \in {"drain", "child"}
  <2>1. Drains' = Drains \ {u} /\ Foregrounds' = Foregrounds /\ u \in Drains
    BY <1>2 DEF Foregrounds, Drains, Out, Released, TypeOK
  <2>2. Cardinality(Drains) # 0
    BY <2>1, OutFinite
  <2>3. /\ IsFiniteSet(Drains \ {u})
        /\ Cardinality(Drains \ {u}) = Cardinality(Drains) - 1
    BY <2>1, <1>f, FS_RemoveElement
  <2>4. Cardinality(Drains') = 0 => Drains' = {}
    BY <2>1, <2>3, FS_EmptySet
  <2>5. Cardinality(Foregrounds) = 0 => Foregrounds' = {}
    BY <2>1, OutFinite
  <2>6. Out({"foreground", "drain", "child"})' = Foregrounds' \cup Drains'
    BY DEF Foregrounds, Drains, Out
  <2> QED BY <1>2, <2>1, <2>2, <2>3, <2>4, <2>5, <2>6, <1>t
<1> QED BY <1>1, <1>2, <1>t DEF TypeOK

(* A step that leaves the leases alone leaves what is out alone.             *)
LEMMA OutUnchanged ==
    ASSUME leases' = leases
    PROVE  /\ Foregrounds' = Foregrounds /\ Drains' = Drains
           /\ Out({"foreground", "drain", "child"})' = Out({"foreground", "drain", "child"})
BY DEF Foregrounds, Drains, Out

-----------------------------------------------------------------------------
LEMMA InitInv == Init => IInv
<1> SUFFICES ASSUME Init PROVE IInv OBVIOUS
<1>t. leases \in [Units -> [kind : {"none", "foreground", "drain", "child"}, released : BOOLEAN]]
  BY DEF Init, None
<1>w. waiting \subseteq Schedulers /\ callbacks \subseteq Nat BY DEF Init
<1>b. started \in BOOLEAN /\ stopping \in BOOLEAN /\ expired \in BOOLEAN /\ retry \in BOOLEAN
  BY DEF Init
<1>n. /\ foreground \in Nat /\ drains \in Nat /\ generation \in Nat /\ timer \in Nat
      /\ left \in 0 .. Timeout /\ quiet \in 0 .. Timeout /\ idleCalls \in 0 .. 1
  BY ParametersAssumption DEF Init
<1>1. TypeOK BY <1>b, <1>n, <1>t, <1>w DEF TypeOK
<1>2. Foregrounds = {} /\ Drains = {} BY DEF Init, None, Foregrounds, Drains, Out
<1>3. CountersMatch
  BY <1>2, FS_EmptySet DEF Init, CountersMatch, Foregrounds, Drains
<1> QED BY <1>1, <1>3, ParametersAssumption
  DEF Init, IInv, IdleStopJustified, WaitersWillBeWoken, GenerationsOK, IntervalOK, ExpiryOK

(* An idle stop by an action that left the leases alone.                     *)
LEMMA NothingOut ==
    ASSUME IInv, foreground = 0, drains = 0, ~stopping
    PROVE  Out({"foreground", "drain", "child"}) = {}
BY OutFinite DEF IInv, CountersMatch, Foregrounds, Drains

-----------------------------------------------------------------------------
(* A request makes every timer and callback stale, and revives the daemon.  *)
LEMMA TryForegroundInv ==
    ASSUME IInv, NEW u \in Units, TryForeground(u)
    PROVE  IInv'
<1>1. /\ leases' \in [Units -> [kind : {"none", "foreground", "drain", "child"},
                                 released : BOOLEAN]]
      /\ Cardinality(Foregrounds') = Cardinality(Foregrounds) + 1
      /\ Cardinality(Drains') = Cardinality(Drains) + 0
  BY AdmittedIsOut DEF TryForeground, IInv
<1>f. Cardinality(Foregrounds) \in Nat /\ Cardinality(Drains) \in Nat
  BY OutFinite DEF IInv
<1>w. waiting' \subseteq Schedulers /\ callbacks' \subseteq Nat
  BY DEF TryForeground, Revive, Invalidate, Wake, channel, IInv, TypeOK
<1>b. (started \in BOOLEAN /\ stopping \in BOOLEAN /\ expired \in BOOLEAN /\ retry \in BOOLEAN)'
  BY DEF TryForeground, Revive, Invalidate, Wake, channel, IInv, TypeOK
<1>n. /\ (foreground \in Nat /\ drains \in Nat /\ generation \in Nat /\ timer \in Nat)'
      /\ (left \in 0 .. Timeout /\ quiet \in 0 .. Timeout /\ idleCalls \in 0 .. 1)'
  BY <1>1, <1>f, ParametersAssumption DEF TryForeground, Revive, Invalidate, Wake, channel, IInv, TypeOK, ExpiryOK, CountersMatch
<1>3. TypeOK'
  BY <1>w, <1>b, <1>n, <1>1 DEF TypeOK
<1>4. CountersMatch'
  BY <1>1, <1>f, ParametersAssumption DEF TryForeground, Revive, Invalidate, Wake, channel, IInv, TypeOK, CountersMatch, Foregrounds, Drains
<1>5. (WaitersWillBeWoken /\ GenerationsOK)'
  BY <1>1, <1>f, ParametersAssumption DEF TryForeground, Revive, Invalidate, Wake, channel, IInv, TypeOK, WaitersWillBeWoken, GenerationsOK, ExpiryOK
<1>6. (IdleStopJustified /\ IntervalOK /\ ExpiryOK)'
  BY <1>1, <1>f, ParametersAssumption DEF TryForeground, Revive, Invalidate, Wake, channel, IInv, TypeOK, IdleStopJustified, IntervalOK, ExpiryOK, GenerationsOK
<1> QED BY <1>3, <1>4, <1>5, <1>6 DEF IInv

(* Work is admitted before the deadline only.                               *)
LEMMA AdmitDrainInv ==
    ASSUME IInv, NEW u \in Units, AdmitDrain(u)
    PROVE  IInv'
<1>1. /\ leases' \in [Units -> [kind : {"none", "foreground", "drain", "child"},
                                 released : BOOLEAN]]
      /\ Cardinality(Foregrounds') = Cardinality(Foregrounds) + 0
      /\ Cardinality(Drains') = Cardinality(Drains) + 1
  BY AdmittedIsOut DEF AdmitDrain, IInv
<1>f. Cardinality(Foregrounds) \in Nat /\ Cardinality(Drains) \in Nat
  BY OutFinite DEF IInv
<1>w. waiting' \subseteq Schedulers /\ callbacks' \subseteq Nat
  BY DEF AdmitDrain, Admissible, controller, clock, channel, IInv, TypeOK
<1>b. (started \in BOOLEAN /\ stopping \in BOOLEAN /\ expired \in BOOLEAN /\ retry \in BOOLEAN)'
  BY DEF AdmitDrain, Admissible, controller, clock, channel, IInv, TypeOK
<1>n. /\ (foreground \in Nat /\ drains \in Nat /\ generation \in Nat /\ timer \in Nat)'
      /\ (left \in 0 .. Timeout /\ quiet \in 0 .. Timeout /\ idleCalls \in 0 .. 1)'
  BY <1>1, <1>f, ParametersAssumption DEF AdmitDrain, Admissible, controller, clock, channel, IInv, TypeOK, ExpiryOK, CountersMatch
<1>3. TypeOK'
  BY <1>w, <1>b, <1>n, <1>1 DEF TypeOK
<1>4. CountersMatch'
  BY <1>1, <1>f, ParametersAssumption DEF AdmitDrain, Admissible, controller, clock, channel, IInv, TypeOK, CountersMatch, Foregrounds, Drains
<1>5. (WaitersWillBeWoken /\ GenerationsOK)'
  BY <1>1, <1>f, ParametersAssumption DEF AdmitDrain, Admissible, controller, clock, channel, IInv, TypeOK, WaitersWillBeWoken, GenerationsOK, ExpiryOK
<1>6. (IdleStopJustified /\ IntervalOK /\ ExpiryOK)'
  BY <1>1, <1>f, ParametersAssumption DEF AdmitDrain, Admissible, controller, clock, channel, IInv, TypeOK, IdleStopJustified, IntervalOK, ExpiryOK, GenerationsOK
<1> QED BY <1>3, <1>4, <1>5, <1>6 DEF IInv

(* A fork adds to what holds an expiry up.                                  *)
LEMMA ForkInv ==
    ASSUME IInv, NEW u \in Units, NEW v \in Units, Fork(u, v)
    PROVE  IInv'
<1>1. /\ leases' \in [Units -> [kind : {"none", "foreground", "drain", "child"},
                                 released : BOOLEAN]]
      /\ Cardinality(Foregrounds') = Cardinality(Foregrounds) + 0
      /\ Cardinality(Drains') = Cardinality(Drains) + 1
  BY AdmittedIsOut DEF Fork, IInv
<1>f. Cardinality(Foregrounds) \in Nat /\ Cardinality(Drains) \in Nat
  BY OutFinite DEF IInv
<1>w. waiting' \subseteq Schedulers /\ callbacks' \subseteq Nat
  BY DEF Fork, controller, clock, channel, IInv, TypeOK
<1>b. (started \in BOOLEAN /\ stopping \in BOOLEAN /\ expired \in BOOLEAN /\ retry \in BOOLEAN)'
  BY DEF Fork, controller, clock, channel, IInv, TypeOK
<1>n. /\ (foreground \in Nat /\ drains \in Nat /\ generation \in Nat /\ timer \in Nat)'
      /\ (left \in 0 .. Timeout /\ quiet \in 0 .. Timeout /\ idleCalls \in 0 .. 1)'
  BY <1>1, <1>f, ParametersAssumption DEF Fork, controller, clock, channel, IInv, TypeOK, ExpiryOK, CountersMatch
<1>3. TypeOK'
  BY <1>w, <1>b, <1>n, <1>1 DEF TypeOK
<1>4. CountersMatch'
  BY <1>1, <1>f, ParametersAssumption DEF Fork, controller, clock, channel, IInv, TypeOK, CountersMatch, Foregrounds, Drains
<1>5. (WaitersWillBeWoken /\ GenerationsOK)'
  BY <1>1, <1>f, ParametersAssumption DEF Fork, controller, clock, channel, IInv, TypeOK, WaitersWillBeWoken, GenerationsOK, ExpiryOK
<1>6. (IdleStopJustified /\ IntervalOK /\ ExpiryOK)'
  BY <1>1, <1>f, ParametersAssumption DEF Fork, controller, clock, channel, IInv, TypeOK, IdleStopJustified, IntervalOK, ExpiryOK, GenerationsOK
<1> QED BY <1>3, <1>4, <1>5, <1>6 DEF IInv

(* A denied scheduler waits for work that is out.                           *)
LEMMA DenyDrainInv ==
    ASSUME IInv, NEW s \in Schedulers, DenyDrain(s)
    PROVE  IInv'
<1>1. Foregrounds' = Foregrounds /\ Drains' = Drains
      /\ Out({"foreground", "drain", "child"})' = Out({"foreground", "drain", "child"})
  BY OutUnchanged DEF DenyDrain
<1>2. drains = 0 /\ foreground = 0 /\ ~stopping => Out({"foreground", "drain", "child"}) = {}
  BY NothingOut
<1>w. waiting' \subseteq Schedulers /\ callbacks' \subseteq Nat
  BY DEF DenyDrain, Await, controller, clock, IInv, TypeOK
<1>b. (started \in BOOLEAN /\ stopping \in BOOLEAN /\ expired \in BOOLEAN /\ retry \in BOOLEAN)'
  BY DEF DenyDrain, Await, controller, clock, IInv, TypeOK
<1>n. /\ (foreground \in Nat /\ drains \in Nat /\ generation \in Nat /\ timer \in Nat)'
      /\ (left \in 0 .. Timeout /\ quiet \in 0 .. Timeout /\ idleCalls \in 0 .. 1)'
  BY <1>1, <1>2, ParametersAssumption DEF DenyDrain, Await, controller, clock, IInv, TypeOK, ExpiryOK, CountersMatch
<1>3. TypeOK'
  BY <1>w, <1>b, <1>n DEF TypeOK, DenyDrain, Await, controller, clock, IInv
<1>4. CountersMatch'
  BY <1>1, <1>2, ParametersAssumption DEF DenyDrain, Await, controller, clock, IInv, TypeOK, CountersMatch, Foregrounds, Drains
<1>5. (WaitersWillBeWoken /\ GenerationsOK)'
  BY <1>1, <1>2, ParametersAssumption DEF DenyDrain, Await, controller, clock, IInv, TypeOK, WaitersWillBeWoken, GenerationsOK, ExpiryOK
<1>6. (IdleStopJustified /\ IntervalOK /\ ExpiryOK)'
  BY <1>1, <1>2, ParametersAssumption DEF DenyDrain, Await, controller, clock, IInv, TypeOK, IdleStopJustified, IntervalOK, ExpiryOK, GenerationsOK
<1> QED BY <1>3, <1>4, <1>5, <1>6 DEF IInv

(* A scheduler that sees the deadline stops a daemon with nothing out.      *)
LEMMA ExpireAtDrainInv ==
    ASSUME IInv, NEW s \in Schedulers, ExpireAtDrain(s)
    PROVE  IInv'
<1>1. Foregrounds' = Foregrounds /\ Drains' = Drains
      /\ Out({"foreground", "drain", "child"})' = Out({"foreground", "drain", "child"})
  BY OutUnchanged DEF ExpireAtDrain
<1>2. drains = 0 /\ foreground = 0 /\ ~stopping => Out({"foreground", "drain", "child"}) = {}
  BY NothingOut
<1>w. waiting' \subseteq Schedulers /\ callbacks' \subseteq Nat
  BY DEF ExpireAtDrain, DeadlinePassed, StopIdle, Await, Wake, clock, channel, IInv, TypeOK
<1>b. (started \in BOOLEAN /\ stopping \in BOOLEAN /\ expired \in BOOLEAN /\ retry \in BOOLEAN)'
  BY DEF ExpireAtDrain, DeadlinePassed, StopIdle, Await, Wake, clock, channel, IInv, TypeOK
<1>n. /\ (foreground \in Nat /\ drains \in Nat /\ generation \in Nat /\ timer \in Nat)'
      /\ (left \in 0 .. Timeout /\ quiet \in 0 .. Timeout /\ idleCalls \in 0 .. 1)'
  BY <1>1, <1>2, ParametersAssumption DEF ExpireAtDrain, DeadlinePassed, StopIdle, Await, Wake, clock, channel, IInv, TypeOK, ExpiryOK, CountersMatch
<1>3. TypeOK'
  BY <1>w, <1>b, <1>n DEF TypeOK, ExpireAtDrain, DeadlinePassed, StopIdle, Await, Wake, clock, channel, IInv
<1>4. CountersMatch'
  BY <1>1, <1>2, ParametersAssumption DEF ExpireAtDrain, DeadlinePassed, StopIdle, Await, Wake, clock, channel, IInv, TypeOK, CountersMatch, Foregrounds, Drains
<1>5. (WaitersWillBeWoken /\ GenerationsOK)'
  BY <1>1, <1>2, ParametersAssumption DEF ExpireAtDrain, DeadlinePassed, StopIdle, Await, Wake, clock, channel, IInv, TypeOK, WaitersWillBeWoken, GenerationsOK, ExpiryOK
<1>6. (IdleStopJustified /\ IntervalOK /\ ExpiryOK)'
  BY <1>1, <1>2, ParametersAssumption DEF ExpireAtDrain, DeadlinePassed, StopIdle, Await, Wake, clock, channel, IInv, TypeOK, IdleStopJustified, IntervalOK, ExpiryOK, GenerationsOK
<1> QED BY <1>3, <1>4, <1>5, <1>6 DEF IInv

(* The first interval begins.                                               *)
LEMMA StartInv ==
    ASSUME IInv, Start
    PROVE  IInv'
<1>1. Foregrounds' = Foregrounds /\ Drains' = Drains
      /\ Out({"foreground", "drain", "child"})' = Out({"foreground", "drain", "child"})
  BY OutUnchanged DEF Start
<1>2. drains = 0 /\ foreground = 0 /\ ~stopping => Out({"foreground", "drain", "child"}) = {}
  BY NothingOut
<1>w. waiting' \subseteq Schedulers /\ callbacks' \subseteq Nat
  BY DEF Start, Arm, Revive, Wake, channel, IInv, TypeOK
<1>b. (started \in BOOLEAN /\ stopping \in BOOLEAN /\ expired \in BOOLEAN /\ retry \in BOOLEAN)'
  BY DEF Start, Arm, Revive, Wake, channel, IInv, TypeOK
<1>n. /\ (foreground \in Nat /\ drains \in Nat /\ generation \in Nat /\ timer \in Nat)'
      /\ (left \in 0 .. Timeout /\ quiet \in 0 .. Timeout /\ idleCalls \in 0 .. 1)'
  BY <1>1, <1>2, ParametersAssumption DEF Start, Arm, Revive, Wake, channel, IInv, TypeOK, ExpiryOK, CountersMatch
<1>3. TypeOK'
  BY <1>w, <1>b, <1>n DEF TypeOK, Start, Arm, Revive, Wake, channel, IInv
<1>4. CountersMatch'
  BY <1>1, <1>2, ParametersAssumption DEF Start, Arm, Revive, Wake, channel, IInv, TypeOK, CountersMatch, Foregrounds, Drains
<1>5. (WaitersWillBeWoken /\ GenerationsOK)'
  BY <1>1, <1>2, ParametersAssumption DEF Start, Arm, Revive, Wake, channel, IInv, TypeOK, WaitersWillBeWoken, GenerationsOK, ExpiryOK
<1>6. (IdleStopJustified /\ IntervalOK /\ ExpiryOK)'
  BY <1>1, <1>2, ParametersAssumption DEF Start, Arm, Revive, Wake, channel, IInv, TypeOK, IdleStopJustified, IntervalOK, ExpiryOK, GenerationsOK
<1> QED BY <1>3, <1>4, <1>5, <1>6 DEF IInv

(* Another source of the shutdown.                                          *)
LEMMA StopInv ==
    ASSUME IInv, Stop
    PROVE  IInv'
<1>1. Foregrounds' = Foregrounds /\ Drains' = Drains
      /\ Out({"foreground", "drain", "child"})' = Out({"foreground", "drain", "child"})
  BY OutUnchanged DEF Stop
<1>2. drains = 0 /\ foreground = 0 /\ ~stopping => Out({"foreground", "drain", "child"}) = {}
  BY NothingOut
<1>w. waiting' \subseteq Schedulers /\ callbacks' \subseteq Nat
  BY DEF Stop, Wake, IInv, TypeOK
<1>b. (started \in BOOLEAN /\ stopping \in BOOLEAN /\ expired \in BOOLEAN /\ retry \in BOOLEAN)'
  BY DEF Stop, Wake, IInv, TypeOK
<1>n. /\ (foreground \in Nat /\ drains \in Nat /\ generation \in Nat /\ timer \in Nat)'
      /\ (left \in 0 .. Timeout /\ quiet \in 0 .. Timeout /\ idleCalls \in 0 .. 1)'
  BY <1>1, <1>2, ParametersAssumption DEF Stop, Wake, IInv, TypeOK, ExpiryOK, CountersMatch
<1>3. TypeOK'
  BY <1>w, <1>b, <1>n DEF TypeOK, Stop, Wake, IInv
<1>4. CountersMatch'
  BY <1>1, <1>2, ParametersAssumption DEF Stop, Wake, IInv, TypeOK, CountersMatch, Foregrounds, Drains
<1>5. (WaitersWillBeWoken /\ GenerationsOK)'
  BY <1>1, <1>2, ParametersAssumption DEF Stop, Wake, IInv, TypeOK, WaitersWillBeWoken, GenerationsOK, ExpiryOK
<1>6. (IdleStopJustified /\ IntervalOK /\ ExpiryOK)'
  BY <1>1, <1>2, ParametersAssumption DEF Stop, Wake, IInv, TypeOK, IdleStopJustified, IntervalOK, ExpiryOK, GenerationsOK
<1> QED BY <1>3, <1>4, <1>5, <1>6 DEF IInv

(* The interval and what is left of it move together.                       *)
LEMMA TickInv ==
    ASSUME IInv, Tick
    PROVE  IInv'
<1>1. Foregrounds' = Foregrounds /\ Drains' = Drains
      /\ Out({"foreground", "drain", "child"})' = Out({"foreground", "drain", "child"})
  BY OutUnchanged DEF Tick
<1>2. drains = 0 /\ foreground = 0 /\ ~stopping => Out({"foreground", "drain", "child"}) = {}
  BY NothingOut
<1>w. waiting' \subseteq Schedulers /\ callbacks' \subseteq Nat
  BY DEF Tick, controller, channel, IInv, TypeOK
<1>b. (started \in BOOLEAN /\ stopping \in BOOLEAN /\ expired \in BOOLEAN /\ retry \in BOOLEAN)'
  BY DEF Tick, controller, channel, IInv, TypeOK
<1>n. /\ (foreground \in Nat /\ drains \in Nat /\ generation \in Nat /\ timer \in Nat)'
      /\ (left \in 0 .. Timeout /\ quiet \in 0 .. Timeout /\ idleCalls \in 0 .. 1)'
  BY <1>1, <1>2, ParametersAssumption DEF Tick, controller, channel, IInv, TypeOK, ExpiryOK, CountersMatch
<1>3. TypeOK'
  BY <1>w, <1>b, <1>n DEF TypeOK, Tick, controller, channel, IInv
<1>4. CountersMatch'
  BY <1>1, <1>2, ParametersAssumption DEF Tick, controller, channel, IInv, TypeOK, CountersMatch, Foregrounds, Drains
<1>5. (WaitersWillBeWoken /\ GenerationsOK)'
  BY <1>1, <1>2, ParametersAssumption DEF Tick, controller, channel, IInv, TypeOK, WaitersWillBeWoken, GenerationsOK, ExpiryOK
<1>6. (IdleStopJustified /\ IntervalOK /\ ExpiryOK)'
  BY <1>1, <1>2, ParametersAssumption DEF Tick, controller, channel, IInv, TypeOK, IdleStopJustified, IntervalOK, ExpiryOK, GenerationsOK
<1> QED BY <1>3, <1>4, <1>5, <1>6 DEF IInv

(* A callback inherits its timer's generation.                              *)
LEMMA FireInv ==
    ASSUME IInv, Fire
    PROVE  IInv'
<1>1. Foregrounds' = Foregrounds /\ Drains' = Drains
      /\ Out({"foreground", "drain", "child"})' = Out({"foreground", "drain", "child"})
  BY OutUnchanged DEF Fire
<1>2. drains = 0 /\ foreground = 0 /\ ~stopping => Out({"foreground", "drain", "child"}) = {}
  BY NothingOut
<1>w. waiting' \subseteq Schedulers /\ callbacks' \subseteq Nat
  BY DEF Fire, controller, channel, IInv, TypeOK
<1>b. (started \in BOOLEAN /\ stopping \in BOOLEAN /\ expired \in BOOLEAN /\ retry \in BOOLEAN)'
  BY DEF Fire, controller, channel, IInv, TypeOK
<1>n. /\ (foreground \in Nat /\ drains \in Nat /\ generation \in Nat /\ timer \in Nat)'
      /\ (left \in 0 .. Timeout /\ quiet \in 0 .. Timeout /\ idleCalls \in 0 .. 1)'
  BY <1>1, <1>2, ParametersAssumption DEF Fire, controller, channel, IInv, TypeOK, ExpiryOK, CountersMatch
<1>3. TypeOK'
  BY <1>w, <1>b, <1>n DEF TypeOK, Fire, controller, channel, IInv
<1>4. CountersMatch'
  BY <1>1, <1>2, ParametersAssumption DEF Fire, controller, channel, IInv, TypeOK, CountersMatch, Foregrounds, Drains
<1>5. (WaitersWillBeWoken /\ GenerationsOK)'
  BY <1>1, <1>2, ParametersAssumption DEF Fire, controller, channel, IInv, TypeOK, WaitersWillBeWoken, GenerationsOK, ExpiryOK
<1>6. (IdleStopJustified /\ IntervalOK /\ ExpiryOK)'
  BY <1>1, <1>2, ParametersAssumption DEF Fire, controller, channel, IInv, TypeOK, IdleStopJustified, IntervalOK, ExpiryOK, GenerationsOK
<1> QED BY <1>3, <1>4, <1>5, <1>6 DEF IInv

(* A stale callback does nothing.                                           *)
LEMMA StaleCallbackInv ==
    ASSUME IInv, NEW g \in callbacks, StaleCallback(g)
    PROVE  IInv'
<1>1. Foregrounds' = Foregrounds /\ Drains' = Drains
      /\ Out({"foreground", "drain", "child"})' = Out({"foreground", "drain", "child"})
  BY OutUnchanged DEF StaleCallback
<1>2. drains = 0 /\ foreground = 0 /\ ~stopping => Out({"foreground", "drain", "child"}) = {}
  BY NothingOut
<1>w. waiting' \subseteq Schedulers /\ callbacks' \subseteq Nat
  BY DEF StaleCallback, controller, channel, IInv, TypeOK
<1>b. (started \in BOOLEAN /\ stopping \in BOOLEAN /\ expired \in BOOLEAN /\ retry \in BOOLEAN)'
  BY DEF StaleCallback, controller, channel, IInv, TypeOK
<1>n. /\ (foreground \in Nat /\ drains \in Nat /\ generation \in Nat /\ timer \in Nat)'
      /\ (left \in 0 .. Timeout /\ quiet \in 0 .. Timeout /\ idleCalls \in 0 .. 1)'
  BY <1>1, <1>2, ParametersAssumption DEF StaleCallback, controller, channel, IInv, TypeOK, ExpiryOK, CountersMatch
<1>3. TypeOK'
  BY <1>w, <1>b, <1>n DEF TypeOK, StaleCallback, controller, channel, IInv
<1>4. CountersMatch'
  BY <1>1, <1>2, ParametersAssumption DEF StaleCallback, controller, channel, IInv, TypeOK, CountersMatch, Foregrounds, Drains
<1>5. (WaitersWillBeWoken /\ GenerationsOK)'
  BY <1>1, <1>2, ParametersAssumption DEF StaleCallback, controller, channel, IInv, TypeOK, WaitersWillBeWoken, GenerationsOK, ExpiryOK
<1>6. (IdleStopJustified /\ IntervalOK /\ ExpiryOK)'
  BY <1>1, <1>2, ParametersAssumption DEF StaleCallback, controller, channel, IInv, TypeOK, IdleStopJustified, IntervalOK, ExpiryOK, GenerationsOK
<1> QED BY <1>3, <1>4, <1>5, <1>6 DEF IInv

(* An early one arms the timer again, with the same deadline.               *)
LEMMA EarlyCallbackInv ==
    ASSUME IInv, NEW g \in callbacks, EarlyCallback(g)
    PROVE  IInv'
<1>1. Foregrounds' = Foregrounds /\ Drains' = Drains
      /\ Out({"foreground", "drain", "child"})' = Out({"foreground", "drain", "child"})
  BY OutUnchanged DEF EarlyCallback
<1>2. drains = 0 /\ foreground = 0 /\ ~stopping => Out({"foreground", "drain", "child"}) = {}
  BY NothingOut
<1>w. waiting' \subseteq Schedulers /\ callbacks' \subseteq Nat
  BY DEF EarlyCallback, Arm, Revive, Wake, channel, IInv, TypeOK
<1>b. (started \in BOOLEAN /\ stopping \in BOOLEAN /\ expired \in BOOLEAN /\ retry \in BOOLEAN)'
  BY DEF EarlyCallback, Arm, Revive, Wake, channel, IInv, TypeOK
<1>n. /\ (foreground \in Nat /\ drains \in Nat /\ generation \in Nat /\ timer \in Nat)'
      /\ (left \in 0 .. Timeout /\ quiet \in 0 .. Timeout /\ idleCalls \in 0 .. 1)'
  BY <1>1, <1>2, ParametersAssumption DEF EarlyCallback, Arm, Revive, Wake, channel, IInv, TypeOK, ExpiryOK, CountersMatch
<1>3. TypeOK'
  BY <1>w, <1>b, <1>n DEF TypeOK, EarlyCallback, Arm, Revive, Wake, channel, IInv
<1>4. CountersMatch'
  BY <1>1, <1>2, ParametersAssumption DEF EarlyCallback, Arm, Revive, Wake, channel, IInv, TypeOK, CountersMatch, Foregrounds, Drains
<1>5. (WaitersWillBeWoken /\ GenerationsOK)'
  BY <1>1, <1>2, ParametersAssumption DEF EarlyCallback, Arm, Revive, Wake, channel, IInv, TypeOK, WaitersWillBeWoken, GenerationsOK, ExpiryOK
<1>6. (IdleStopJustified /\ IntervalOK /\ ExpiryOK)'
  BY <1>1, <1>2, ParametersAssumption DEF EarlyCallback, Arm, Revive, Wake, channel, IInv, TypeOK, IdleStopJustified, IntervalOK, ExpiryOK, GenerationsOK
<1> QED BY <1>3, <1>4, <1>5, <1>6 DEF IInv

(* The deadline stops a daemon with nothing out, or waits for what is.      *)
LEMMA ExpireInv ==
    ASSUME IInv, NEW g \in callbacks, Expire(g)
    PROVE  IInv'
<1>1. Foregrounds' = Foregrounds /\ Drains' = Drains
      /\ Out({"foreground", "drain", "child"})' = Out({"foreground", "drain", "child"})
  BY OutUnchanged DEF Expire
<1>2. drains = 0 /\ foreground = 0 /\ ~stopping => Out({"foreground", "drain", "child"}) = {}
  BY NothingOut
<1>w. waiting' \subseteq Schedulers /\ callbacks' \subseteq Nat
  BY DEF Expire, StopIdle, Wake, channel, IInv, TypeOK
<1>b. (started \in BOOLEAN /\ stopping \in BOOLEAN /\ expired \in BOOLEAN /\ retry \in BOOLEAN)'
  BY DEF Expire, StopIdle, Wake, channel, IInv, TypeOK
<1>n. /\ (foreground \in Nat /\ drains \in Nat /\ generation \in Nat /\ timer \in Nat)'
      /\ (left \in 0 .. Timeout /\ quiet \in 0 .. Timeout /\ idleCalls \in 0 .. 1)'
  BY <1>1, <1>2, ParametersAssumption DEF Expire, StopIdle, Wake, channel, IInv, TypeOK, ExpiryOK, CountersMatch
<1>3. TypeOK'
  BY <1>w, <1>b, <1>n DEF TypeOK, Expire, StopIdle, Wake, channel, IInv
<1>4. CountersMatch'
  BY <1>1, <1>2, ParametersAssumption DEF Expire, StopIdle, Wake, channel, IInv, TypeOK, CountersMatch, Foregrounds, Drains
<1>5. (WaitersWillBeWoken /\ GenerationsOK)'
  BY <1>1, <1>2, ParametersAssumption DEF Expire, StopIdle, Wake, channel, IInv, TypeOK, WaitersWillBeWoken, GenerationsOK, ExpiryOK
<1>6. (IdleStopJustified /\ IntervalOK /\ ExpiryOK)'
  BY <1>1, <1>2, ParametersAssumption DEF Expire, StopIdle, Wake, channel, IInv, TypeOK, IdleStopJustified, IntervalOK, ExpiryOK, GenerationsOK
<1> QED BY <1>3, <1>4, <1>5, <1>6 DEF IInv

(* The last request to end begins a complete interval.                      *)
LEMMA ReleaseForegroundInv ==
    ASSUME IInv, NEW u \in Units, ReleaseForeground(u)
    PROVE  IInv'
<1>1. /\ leases' \in [Units -> [kind : {"none", "foreground", "drain", "child"},
                                 released : BOOLEAN]]
      /\ Cardinality(Foregrounds') = Cardinality(Foregrounds) - 1
      /\ Cardinality(Foregrounds) # 0
      /\ Cardinality(Drains') = Cardinality(Drains)
  BY ReleasedIsNotOut DEF ReleaseForeground, IInv, Lease
<1>f. Cardinality(Foregrounds) \in Nat /\ Cardinality(Drains) \in Nat
  BY OutFinite DEF IInv
<1>c. /\ foreground = Cardinality(Foregrounds) /\ drains = Cardinality(Drains) /\ idleCalls = 0
  BY DEF ReleaseForeground, IInv, CountersMatch, ExpiryOK, Foregrounds, Drains
<1>w. waiting' \subseteq Schedulers /\ callbacks' \subseteq Nat
  BY DEF ReleaseForeground, Arm, Revive, Wake, channel, IInv, TypeOK
<1>b. (started \in BOOLEAN /\ stopping \in BOOLEAN /\ expired \in BOOLEAN /\ retry \in BOOLEAN)'
  BY DEF ReleaseForeground, Arm, Revive, Wake, channel, IInv, TypeOK
<1>n. /\ (foreground \in Nat /\ drains \in Nat /\ generation \in Nat /\ timer \in Nat)'
      /\ (left \in 0 .. Timeout /\ quiet \in 0 .. Timeout /\ idleCalls \in 0 .. 1)'
  BY <1>1, <1>f, <1>c, ParametersAssumption DEF ReleaseForeground, Arm, Revive, Wake, channel, IInv, TypeOK, ExpiryOK, CountersMatch
<1>3. TypeOK'
  BY <1>w, <1>b, <1>n, <1>1 DEF TypeOK
<1>4. CountersMatch'
  BY <1>1, <1>f, <1>c, ParametersAssumption DEF ReleaseForeground, Arm, Revive, Wake, channel, IInv, TypeOK, CountersMatch, Foregrounds, Drains
<1>5. (WaitersWillBeWoken /\ GenerationsOK)'
  BY <1>1, <1>f, <1>c, ParametersAssumption DEF ReleaseForeground, Arm, Revive, Wake, channel, IInv, TypeOK, WaitersWillBeWoken, GenerationsOK, ExpiryOK
<1>6. (IdleStopJustified /\ IntervalOK /\ ExpiryOK)'
  BY <1>1, <1>f, <1>c, ParametersAssumption DEF ReleaseForeground, Arm, Revive, Wake, channel, IInv, TypeOK, IdleStopJustified, IntervalOK, ExpiryOK, GenerationsOK
<1> QED BY <1>3, <1>4, <1>5, <1>6 DEF IInv

(* The last work to end stops a daemon that has expired.                    *)
LEMMA ReleaseDrainInv ==
    ASSUME IInv, NEW u \in Units, ReleaseDrain(u)
    PROVE  IInv'
<1>1. /\ leases' \in [Units -> [kind : {"none", "foreground", "drain", "child"},
                                 released : BOOLEAN]]
      /\ Cardinality(Foregrounds') = Cardinality(Foregrounds)
      /\ Cardinality(Drains') = Cardinality(Drains) - 1
      /\ Cardinality(Drains) # 0
      /\ Cardinality(Drains') = 0 /\ Cardinality(Foregrounds) = 0
            => Out({"foreground", "drain", "child"})' = {}
  BY ReleasedIsNotOut DEF ReleaseDrain, IInv, Lease
<1>f. Cardinality(Foregrounds) \in Nat /\ Cardinality(Drains) \in Nat
  BY OutFinite DEF IInv
<1>c. /\ foreground = Cardinality(Foregrounds) /\ drains = Cardinality(Drains) /\ idleCalls = 0
  BY DEF ReleaseDrain, IInv, CountersMatch, ExpiryOK, Foregrounds, Drains
<1>w. waiting' \subseteq Schedulers /\ callbacks' \subseteq Nat
  BY DEF ReleaseDrain, StopIdle, Wake, clock, channel, IInv, TypeOK
<1>b. (started \in BOOLEAN /\ stopping \in BOOLEAN /\ expired \in BOOLEAN /\ retry \in BOOLEAN)'
  BY DEF ReleaseDrain, StopIdle, Wake, clock, channel, IInv, TypeOK
<1>n. /\ (foreground \in Nat /\ drains \in Nat /\ generation \in Nat /\ timer \in Nat)'
      /\ (left \in 0 .. Timeout /\ quiet \in 0 .. Timeout /\ idleCalls \in 0 .. 1)'
  BY <1>1, <1>f, <1>c, ParametersAssumption DEF ReleaseDrain, StopIdle, Wake, clock, channel, IInv, TypeOK, ExpiryOK, CountersMatch
<1>3. TypeOK'
  BY <1>w, <1>b, <1>n, <1>1 DEF TypeOK
<1>4. CountersMatch'
  BY <1>1, <1>f, <1>c, ParametersAssumption DEF ReleaseDrain, StopIdle, Wake, clock, channel, IInv, TypeOK, CountersMatch, Foregrounds, Drains
<1>5. (WaitersWillBeWoken /\ GenerationsOK)'
  BY <1>1, <1>f, <1>c, ParametersAssumption DEF ReleaseDrain, StopIdle, Wake, clock, channel, IInv, TypeOK, WaitersWillBeWoken, GenerationsOK, ExpiryOK
<1>6. (IdleStopJustified /\ IntervalOK /\ ExpiryOK)'
  BY <1>1, <1>f, <1>c, ParametersAssumption DEF ReleaseDrain, StopIdle, Wake, clock, channel, IInv, TypeOK, IdleStopJustified, IntervalOK, ExpiryOK, GenerationsOK
<1> QED BY <1>3, <1>4, <1>5, <1>6 DEF IInv

(* While the daemon stops only what is out changes, and it shrinks.         *)
LEMMA ReleaseLateInv ==
    ASSUME IInv, NEW u \in Units, ReleaseLate(u)
    PROVE  IInv'
<1>1. leases' \in [Units -> [kind : {"none", "foreground", "drain", "child"},
                           released : BOOLEAN]]
  BY DEF ReleaseLate, Released, None, IInv, TypeOK
<1>2. Out({"foreground", "drain", "child"})' \subseteq Out({"foreground", "drain", "child"})
  BY DEF ReleaseLate, Released, None, Out, IInv, TypeOK
<1>3. ~stopping => Foregrounds' = Foregrounds /\ Drains' = Drains
  BY DEF ReleaseLate, Foregrounds, Drains, Out, Released, None, IInv, TypeOK
<1>4. UNCHANGED <<controller, clock, channel, idleCalls>>
  BY DEF ReleaseLate
<1>5. TypeOK'
  BY <1>1, <1>4 DEF IInv, TypeOK, controller, clock, channel
<1>6. CountersMatch'
  BY <1>3, <1>4 DEF IInv, CountersMatch, Foregrounds, Drains, controller
<1>7. IdleStopJustified'
  BY <1>2, <1>4 DEF IInv, IdleStopJustified, clock
<1>8. (WaitersWillBeWoken /\ GenerationsOK /\ IntervalOK /\ ExpiryOK)'
  BY <1>4 DEF IInv, WaitersWillBeWoken, GenerationsOK, IntervalOK, ExpiryOK, controller, clock, channel
<1> QED BY <1>5, <1>6, <1>7, <1>8 DEF IInv

(* A step that changes nothing.                                              *)
LEMMA StutterInv ==
    ASSUME IInv, UNCHANGED vars
    PROVE  IInv'
<1>1. Foregrounds' = Foregrounds /\ Drains' = Drains
      /\ Out({"foreground", "drain", "child"})' = Out({"foreground", "drain", "child"})
  BY OutUnchanged DEF vars
<1>2. TypeOK' /\ CountersMatch' /\ IdleStopJustified'
  BY <1>1 DEF vars, controller, clock, channel, IInv, TypeOK, CountersMatch, IdleStopJustified,
              Foregrounds, Drains
<1>3. (WaitersWillBeWoken /\ GenerationsOK /\ IntervalOK /\ ExpiryOK)'
  BY DEF vars, controller, clock, channel, IInv, WaitersWillBeWoken, GenerationsOK, IntervalOK, ExpiryOK
<1> QED BY <1>2, <1>3 DEF IInv

-----------------------------------------------------------------------------
(* Every step preserves the invariant.                                       *)
LEMMA NextInv ==
    ASSUME IInv, [Next]_vars
    PROVE  IInv'
<1>1. ASSUME NEW u \in Units, TryForeground(u) PROVE IInv'
  BY <1>1, TryForegroundInv
<1>2. ASSUME NEW u \in Units, ReleaseForeground(u) PROVE IInv'
  BY <1>2, ReleaseForegroundInv
<1>3. ASSUME NEW u \in Units, ReleaseDrain(u) PROVE IInv'
  BY <1>3, ReleaseDrainInv
<1>4. ASSUME NEW u \in Units, ReleaseLate(u) PROVE IInv'
  BY <1>4, ReleaseLateInv
<1>5. ASSUME NEW u \in Units, ReleaseAgain(u) PROVE IInv'
  BY <1>5, StutterInv DEF ReleaseAgain
<1>6. ASSUME NEW u \in Units, AdmitDrain(u) PROVE IInv'
  BY <1>6, AdmitDrainInv
<1>7. ASSUME NEW s \in Schedulers, DenyDrain(s) PROVE IInv'
  BY <1>7, DenyDrainInv
<1>8. ASSUME NEW s \in Schedulers, ExpireAtDrain(s) PROVE IInv'
  BY <1>8, ExpireAtDrainInv
<1>9. ASSUME NEW u \in Units, NEW v \in Units, Fork(u, v) PROVE IInv'
  BY <1>9, ForkInv
<1>10. ASSUME NEW g \in callbacks, StaleCallback(g) PROVE IInv'
  BY <1>10, StaleCallbackInv
<1>11. ASSUME NEW g \in callbacks, EarlyCallback(g) PROVE IInv'
  BY <1>11, EarlyCallbackInv
<1>12. ASSUME NEW g \in callbacks, Expire(g) PROVE IInv'
  BY <1>12, ExpireInv
<1>13. CASE Start \/ Stop \/ Tick \/ Fire
  BY <1>13, StartInv, StopInv, TickInv, FireInv
<1>14. CASE UNCHANGED vars
  BY <1>14, StutterInv
<1> QED BY <1>1, <1>2, <1>3, <1>4, <1>5, <1>6, <1>7, <1>8, <1>9, <1>10, <1>11, <1>12, <1>13, <1>14
        DEF Next

(* The inductive invariant: a timer or callback of the current generation    *)
(* means an unused, started daemon (GenerationsOK), what is left and what    *)
(* has passed since the last request make up the interval (IntervalOK), and  *)
(* only work that is out holds an expiry up (ExpiryOK).                      *)
THEOREM Invariance == Spec => []IInv
<1>1. Init => IInv
  BY InitInv
<1>2. IInv /\ [Next]_vars => IInv'
  BY NextInv
<1> QED BY <1>1, <1>2, PTL DEF Spec

(* The fields keep their types, and onIdle is called once at most.           *)
THEOREM TypeCorrect == Spec => []TypeOK
<1>1. IInv => TypeOK BY DEF IInv
<1> QED BY <1>1, Invariance, PTL

(* The counters are the admitted work that is out.                           *)
THEOREM CountersRight == Spec => []CountersMatch
<1>1. IInv => CountersMatch BY DEF IInv
<1> QED BY <1>1, Invariance, PTL

(* Idle shutdown is decided only with nothing out, and a full interval after *)
(* the last request.                                                         *)
THEOREM StopsOnlyIdle == Spec => []IdleStopJustified
<1>1. IInv => IdleStopJustified BY DEF IInv
<1> QED BY <1>1, Invariance, PTL

(* Whoever waits on the retry channel waits for work that is out.            *)
THEOREM WaitersHaveHope == Spec => []WaitersWillBeWoken
<1>1. IInv => WaitersWillBeWoken BY DEF IInv
<1> QED BY <1>1, Invariance, PTL

=============================================================================
