------------------------ MODULE HookDispatcherProofs ------------------------
(* The dispatcher between controller and coordinator, for any number of      *)
(* producers, jobs and workers, any queue and any idle interval: the whole   *)
(* takes only steps the idle controller may take, a handoff is never denied, *)
(* and what is joined is at rest.                                            *)
EXTENDS HookDispatcher, IdleControllerProofs, SequenceTheorems

InSlot(j) == \E p \in Producers : slot[p] = j
OnTheWay(j) == InQueue(j) \/ AtWorker(j) \/ InSlot(j)

HooksTypeOK ==
    /\ producerDrain \in BOOLEAN /\ stopped \in BOOLEAN /\ done \in BOOLEAN
    /\ closed \in BOOLEAN /\ appender \in BOOLEAN /\ failed \in BOOLEAN
    /\ queue \in Seq(Jobs)
    /\ prod \in [Producers -> {"off", "active", "acquire", "send"}]
    /\ slot \in [Producers -> Jobs \cup {Nobody}]
    /\ work \in [Workers -> [at : {"idle", "popped", "running", "exited"},
                             job : Jobs \cup {Nobody}]]

(* A job is in one place: a producer's hand, the queue or a worker's hand.   *)
OnePlace ==
    /\ \A p \in Producers : prod[p] = "send" <=> slot[p] # Nobody
    /\ \A w \in Workers : work[w].at \in {"popped", "running"} <=> work[w].job # Nobody
    /\ \A i, k \in DOMAIN queue : queue[i] = queue[k] => i = k
    /\ \A p, q \in Producers : slot[p] = slot[q] /\ slot[p] # Nobody => p = q
    /\ \A w, v \in Workers : work[w].job = work[v].job /\ work[w].job # Nobody => w = v
    /\ \A j \in Jobs : /\ ~(InQueue(j) /\ AtWorker(j))
                       /\ ~(InQueue(j) /\ InSlot(j))
                       /\ ~(AtWorker(j) /\ InSlot(j))

(* Who works holds a lease, and so does a job on its way, unless it was      *)
(* accepted while producers drain; nobody else holds one.                    *)
ProducersHeld ==
    \A p \in Producers :
        IF prod[p] = "off" THEN Unheld(p)
        ELSE leases[p] = Lease(IF p \in Requests THEN "foreground" ELSE "drain")

JobsHeld ==
    \A j \in Jobs :
        IF OnTheWay(j) THEN j \in Out({"drain", "child"}) \/ (stopping /\ idleCalls = 0)
        ELSE Unheld(j)

(* How far the shutdown is, and what that closes.                            *)
GatesOK ==
    /\ stopping /\ idleCalls = 0 => producerDrain
    /\ coord \in {"drain", "sealed", "http", "joined"} => producerDrain
    /\ coord \in {"sealed", "http", "joined"} => stopping
    /\ coord \in {"closing", "draining", "done"} /\ ~failed => stopping
    /\ coord = "closing" => stopped
    /\ closed => stopped /\ coord \in {"draining", "done"}
    /\ coord = "draining" => closed
    /\ done => closed
    /\ \A p \in Producers : prod[p] \in {"acquire", "send"} => ~closed

(* What was joined is at rest.                                               *)
JoinedOK ==
    ~failed =>
        /\ coord \in {"http", "joined", "closing", "draining", "done"}
              => \A b \in Background : prod[b] = "off"
        /\ coord \in {"joined", "closing", "draining", "done"}
              => \A r \in Requests : prod[r] = "off"
        /\ coord = "done" => queue = <<>> /\ \A w \in Workers : work[w].at = "exited"

PoolOK ==
    /\ \A w \in Workers : work[w].at = "exited" => done \/ (closed /\ queue = <<>>)
    /\ ~appender => coord = "done" /\ \A w \in Workers : work[w].at = "exited"

HInv == /\ IInv /\ HooksTypeOK /\ OnePlace /\ ProducersHeld /\ JobsHeld
        /\ GatesOK /\ JoinedOK /\ PoolOK

-----------------------------------------------------------------------------
(* Every step is a step of the idle controller or leaves it alone.           *)
LEMMA UnitsOf ==
    /\ Requests \subseteq Units /\ Background \subseteq Units /\ Jobs \subseteq Units
    /\ Producers \subseteq Units /\ Schedulers = Background
  BY HooksAssumption DEF Producers

LEMMA ReleaseSteps ==
    ASSUME NEW u \in Units, Release(u)
    PROVE  Next
  BY DEF Release, Next

LEMMA ReleaseJobSteps ==
    ASSUME NEW j \in Units, ReleaseJob(j)
    PROVE  [Next]_vars
  BY ReleaseSteps DEF ReleaseJob

LEMMA StepSteps ==
    ASSUME HooksTypeOK, OnePlace, [HooksNext]_allVars
    PROVE  [Next]_vars
<1>u. Requests \subseteq Units /\ Background \subseteq Units /\ Jobs \subseteq Units
      /\ Producers \subseteq Units /\ Schedulers = Background
  BY UnitsOf
<1>1. ASSUME NEW r \in Requests, BeginRequest(r) PROVE Next
  BY <1>1, <1>u DEF BeginRequest, Next
<1>2. ASSUME NEW b \in Background, BeginWork(b) PROVE Next
  BY <1>2, <1>u DEF BeginWork, Next
<1>3. ASSUME NEW p \in Producers, Finish(p) \/ Enqueue(p) PROVE [Next]_vars
  BY <1>3, <1>u, ReleaseSteps DEF Finish, Enqueue
<1>4. ASSUME NEW p \in Producers, NEW j \in Jobs, Acquire(p, j) \/ AcquireDenied(p, j)
      PROVE [Next]_vars
  BY <1>4, <1>u DEF Acquire, AcquireDenied, Next
<1>5. ASSUME NEW p \in Producers, Send(p) PROVE [Next]_vars
  <2>1. slot[p] \in Jobs
    BY <1>5 DEF Send, HooksTypeOK, OnePlace
  <2> QED BY <2>1, <1>5, <1>u, ReleaseJobSteps DEF Send
<1>6. ASSUME NEW w \in Workers, Pool(w) PROVE [Next]_vars
  <2>1. CASE DropPopped(w) \/ EndRun(w)
    <3>1. work[w].job \in Jobs
      BY <2>1 DEF DropPopped, EndRun, HooksTypeOK, OnePlace
    <3> QED BY <2>1, <3>1, <1>u, ReleaseJobSteps DEF DropPopped, EndRun
  <2>2. CASE Pop(w) \/ Exit(w) \/ Run(w)
    BY <2>2 DEF Pop, Exit, Run
  <2> QED BY <1>6, <2>1, <2>2 DEF Pool
<1>7. CASE Supervise \/ StartupFails \/ TriggerDrain
  BY <1>7 DEF Supervise, StartupFails, TriggerDrain
<1>8. CASE Ready \/ TriggerSeal
  BY <1>8 DEF Ready, TriggerSeal, Next
<1>9. CASE ReleaseQueued
  <2>1. Head(queue) \in Jobs
    BY <1>9 DEF ReleaseQueued, HooksTypeOK
  <2> QED BY <2>1, <1>9, <1>u, ReleaseJobSteps DEF ReleaseQueued
<1>10. CASE \/ JoinWorkers \/ JoinHandlers \/ BeginClose \/ GiveUp \/ CloseQueue \/ Abort
            \/ FinishShutdown \/ ShutdownTimesOut \/ Exited
  BY <1>10 DEF JoinWorkers, JoinHandlers, Join, BeginClose, GiveUp, CloseQueue, Abort,
     FinishShutdown, ShutdownTimesOut, Exited, allVars
<1>11. CASE Idle
  BY <1>11, <1>u DEF Idle, Next
<1>12. CASE UNCHANGED allVars
  BY <1>12 DEF allVars
<1> QED
  BY <1>1, <1>2, <1>3, <1>4, <1>5, <1>6, <1>7, <1>8, <1>9, <1>10, <1>11, <1>12
     DEF HooksNext, Step, Handoff, Coordinate
-----------------------------------------------------------------------------
(* What a step of the controller may do to the leases, and to the decision   *)
(* to stop: it is final, and Stop apart it is the idle stop.                 *)
StopIsFinal == stopping => stopping' /\ idleCalls' = idleCalls
StopsByIdle == stopping' /\ ~stopping => idleCalls' = idleCalls + 1

LEMMA ReleaseEffect ==
    ASSUME NEW u \in Units, Release(u)
    PROVE  /\ Released(u) /\ leases[u].kind # "none" /\ ~leases[u].released
           /\ StopIsFinal /\ StopsByIdle
<1>1. CASE ReleaseForeground(u)
  BY <1>1 DEF ReleaseForeground, Lease, StopIsFinal, StopsByIdle
<1>2. CASE ReleaseDrain(u)
  BY <1>2 DEF ReleaseDrain, Lease, StopIdle, StopIsFinal, StopsByIdle
<1>3. CASE ReleaseLate(u)
  BY <1>3 DEF ReleaseLate, controller, StopIsFinal, StopsByIdle
<1> QED BY <1>1, <1>2, <1>3 DEF Release

LEMMA ReleaseJobEffect ==
    ASSUME NEW j \in Units, ReleaseJob(j)
    PROVE  /\ IF Unheld(j) THEN leases' = leases ELSE Released(j)
           /\ StopIsFinal /\ StopsByIdle
<1>1. CASE Unheld(j)
  BY <1>1 DEF ReleaseJob, vars, controller, StopIsFinal, StopsByIdle
<1>2. CASE ~Unheld(j)
  BY <1>2, ReleaseEffect DEF ReleaseJob
<1> QED BY <1>1, <1>2

LEMMA IdleEffect ==
    ASSUME Idle
    PROVE  /\ leases' = leases /\ UNCHANGED hookVars
           /\ StopIsFinal /\ StopsByIdle
<1>1. CASE \E s \in Schedulers : DenyDrain(s) \/ ExpireAtDrain(s)
  BY <1>1, Zenon DEF Idle, DenyDrain, ExpireAtDrain, controller, StopIdle, StopIsFinal, StopsByIdle
<1>2. CASE \E u \in Units : ReleaseAgain(u)
  BY <1>2 DEF Idle, ReleaseAgain, vars, controller, StopIsFinal, StopsByIdle
<1>3. CASE Tick \/ Fire
  BY <1>3 DEF Idle, Tick, Fire, controller, StopIsFinal, StopsByIdle
<1>4. CASE \E g \in callbacks : StaleCallback(g) \/ EarlyCallback(g) \/ Expire(g)
  BY <1>4 DEF Idle, StaleCallback, EarlyCallback, Expire, controller, StopIdle,
     StopIsFinal, StopsByIdle
<1> QED BY <1>1, <1>2, <1>3, <1>4 DEF Idle

LEMMA AdmitEffect ==
    ASSUME NEW u \in Units, TryForeground(u) \/ AdmitDrain(u) \/ \E v \in Units : Fork(v, u)
    PROVE  /\ ~stopping /\ Unheld(u)
           /\ \E kind \in {"foreground", "drain", "child"} :
                 leases' = [leases EXCEPT ![u] = Lease(kind)]
           /\ stopping' = stopping /\ idleCalls' = idleCalls
  BY DEF TryForeground, AdmitDrain, Admissible, Fork, controller

-----------------------------------------------------------------------------
(* A step that moves no job and no lease.                                    *)
LEMMA StillHeld ==
    ASSUME HInv, UNCHANGED <<leases, queue, slot, work, prod>>, StopIsFinal
    PROVE  (OnePlace /\ ProducersHeld /\ JobsHeld)'
<1>1. OnePlace'
  BY DEF HInv, OnePlace, InQueue, AtWorker, InSlot
<1>2. ProducersHeld'
  BY DEF HInv, ProducersHeld, Unheld
<1>3. JobsHeld'
  <2> SUFFICES ASSUME NEW j \in Jobs
      PROVE IF OnTheWay(j)' THEN j \in Out({"drain", "child"})' \/ (stopping' /\ idleCalls' = 0)
            ELSE Unheld(j)'
    BY DEF JobsHeld
  <2>1. OnTheWay(j)' = OnTheWay(j) /\ Unheld(j)' = Unheld(j)
    BY DEF OnTheWay, InQueue, AtWorker, InSlot, Unheld
  <2>2. Out({"drain", "child"})' = Out({"drain", "child"})
    BY DEF Out
  <2> QED BY <2>1, <2>2 DEF HInv, JobsHeld, StopIsFinal
<1> QED BY <1>1, <1>2, <1>3
HRest == /\ HooksTypeOK /\ OnePlace /\ ProducersHeld /\ JobsHeld
         /\ GatesOK /\ JoinedOK /\ PoolOK

(* The trigger, the coordinator and the failed startup.                      *)
LEMMA CoordinatorInv ==
    ASSUME HInv,
           \/ Supervise \/ StartupFails \/ TriggerDrain \/ TriggerSeal
           \/ JoinWorkers \/ JoinHandlers \/ BeginClose \/ GiveUp \/ CloseQueue \/ Abort
           \/ FinishShutdown \/ ShutdownTimesOut
    PROVE  HRest'
<1> DEFINE Quiet == /\ UNCHANGED <<leases, queue, slot, work, prod>>
                    /\ StopIsFinal /\ idleCalls' = idleCalls
           Flags == /\ producerDrain \in BOOLEAN /\ stopped \in BOOLEAN /\ done \in BOOLEAN
                    /\ closed \in BOOLEAN /\ appender \in BOOLEAN /\ failed \in BOOLEAN
           Goal == Quiet /\ Flags' /\ GatesOK' /\ JoinedOK' /\ PoolOK'
<1>1. ASSUME Supervise PROVE Goal
  <2>1. Quiet /\ Flags'
    BY <1>1 DEF Supervise, Coord, HInv, HooksTypeOK, dispatcher, gates, producers, vars, controller,
       StopIsFinal
  <2>2. GatesOK'
    BY <1>1, <2>1 DEF Supervise, Coord, HInv, HooksTypeOK, GatesOK, dispatcher, gates, vars, controller
  <2>3. JoinedOK' /\ PoolOK'
    BY <1>1, <2>1 DEF Supervise, Coord, HInv, HooksTypeOK, GatesOK, JoinedOK, PoolOK, Producers,
       dispatcher, gates
  <2> QED BY <2>1, <2>2, <2>3
<1>2. ASSUME StartupFails PROVE Goal
  <2>1. Quiet /\ Flags'
    BY <1>2 DEF StartupFails, Coord, HInv, HooksTypeOK, dispatcher, gates, producers, vars, controller,
       StopIsFinal
  <2>2. GatesOK'
    BY <1>2, <2>1 DEF StartupFails, Coord, HInv, HooksTypeOK, GatesOK, dispatcher, gates, vars, controller
  <2>3. JoinedOK' /\ PoolOK'
    BY <1>2, <2>1 DEF StartupFails, Coord, HInv, HooksTypeOK, GatesOK, JoinedOK, PoolOK, Producers,
       dispatcher, gates
  <2> QED BY <2>1, <2>2, <2>3
<1>3. ASSUME TriggerDrain PROVE Goal
  <2>1. Quiet /\ Flags'
    BY <1>3 DEF TriggerDrain, Coord, HInv, HooksTypeOK, dispatcher, gates, producers, vars, controller,
       StopIsFinal
  <2>2. GatesOK'
    BY <1>3, <2>1 DEF TriggerDrain, Coord, HInv, HooksTypeOK, GatesOK, dispatcher, gates, vars, controller
  <2>3. JoinedOK' /\ PoolOK'
    BY <1>3, <2>1 DEF TriggerDrain, Coord, HInv, HooksTypeOK, GatesOK, JoinedOK, PoolOK, Producers,
       dispatcher, gates
  <2> QED BY <2>1, <2>2, <2>3
<1>4. ASSUME TriggerSeal PROVE Goal
  <2>1. Quiet /\ Flags'
    BY <1>4 DEF TriggerSeal, Stop, Coord, HInv, HooksTypeOK, dispatcher, gates, producers, vars, controller,
       StopIsFinal
  <2>2. GatesOK'
    BY <1>4, <2>1 DEF TriggerSeal, Stop, Coord, HInv, HooksTypeOK, GatesOK, dispatcher, gates, vars, controller
  <2>3. JoinedOK' /\ PoolOK'
    BY <1>4, <2>1 DEF TriggerSeal, Stop, Coord, HInv, HooksTypeOK, GatesOK, JoinedOK, PoolOK, Producers,
       dispatcher, gates
  <2> QED BY <2>1, <2>2, <2>3
<1>5. ASSUME JoinWorkers PROVE Goal
  <2>1. Quiet /\ Flags'
    BY <1>5 DEF JoinWorkers, Join, Coord, HInv, HooksTypeOK, dispatcher, gates, producers, vars, controller,
       StopIsFinal
  <2>2. GatesOK'
    BY <1>5, <2>1 DEF JoinWorkers, Join, Coord, HInv, HooksTypeOK, GatesOK, dispatcher, gates, vars, controller
  <2>3. JoinedOK' /\ PoolOK'
    BY <1>5, <2>1, HooksAssumption DEF JoinWorkers, Join, Coord, HInv, HooksTypeOK, GatesOK, JoinedOK, PoolOK, Producers,
       dispatcher, gates
  <2> QED BY <2>1, <2>2, <2>3
<1>6. ASSUME JoinHandlers PROVE Goal
  <2>1. Quiet /\ Flags'
    BY <1>6 DEF JoinHandlers, Join, Coord, HInv, HooksTypeOK, dispatcher, gates, producers, vars, controller,
       StopIsFinal
  <2>2. GatesOK'
    BY <1>6, <2>1 DEF JoinHandlers, Join, Coord, HInv, HooksTypeOK, GatesOK, dispatcher, gates, vars, controller
  <2>3. JoinedOK' /\ PoolOK'
    BY <1>6, <2>1, HooksAssumption DEF JoinHandlers, Join, Coord, HInv, HooksTypeOK, GatesOK, JoinedOK, PoolOK, Producers,
       dispatcher, gates
  <2> QED BY <2>1, <2>2, <2>3
<1>7. ASSUME BeginClose PROVE Goal
  <2>1. Quiet /\ Flags'
    BY <1>7 DEF BeginClose, Coord, HInv, HooksTypeOK, dispatcher, gates, producers, vars, controller,
       StopIsFinal
  <2>2. GatesOK'
    BY <1>7, <2>1 DEF BeginClose, Coord, HInv, HooksTypeOK, GatesOK, dispatcher, gates, vars, controller
  <2>3. JoinedOK' /\ PoolOK'
    BY <1>7, <2>1 DEF BeginClose, Coord, HInv, HooksTypeOK, GatesOK, JoinedOK, PoolOK, Producers,
       dispatcher, gates
  <2> QED BY <2>1, <2>2, <2>3
<1>8. ASSUME GiveUp PROVE Goal
  <2>1. Quiet /\ Flags'
    BY <1>8 DEF GiveUp, Coord, HInv, HooksTypeOK, dispatcher, gates, producers, vars, controller,
       StopIsFinal
  <2>2. GatesOK'
    BY <1>8, <2>1 DEF GiveUp, Coord, HInv, HooksTypeOK, GatesOK, dispatcher, gates, vars, controller
  <2>3. JoinedOK' /\ PoolOK'
    BY <1>8, <2>1 DEF GiveUp, Coord, HInv, HooksTypeOK, GatesOK, JoinedOK, PoolOK, Producers,
       dispatcher, gates
  <2> QED BY <2>1, <2>2, <2>3
<1>9. ASSUME CloseQueue PROVE Goal
  <2>1. Quiet /\ Flags'
    BY <1>9 DEF CloseQueue, Coord, HInv, HooksTypeOK, dispatcher, gates, producers, vars, controller,
       StopIsFinal
  <2>2. GatesOK'
    BY <1>9, <2>1 DEF CloseQueue, Coord, HInv, HooksTypeOK, GatesOK, dispatcher, gates, vars, controller
  <2>3. JoinedOK' /\ PoolOK'
    BY <1>9, <2>1 DEF CloseQueue, Coord, HInv, HooksTypeOK, GatesOK, JoinedOK, PoolOK, Producers,
       dispatcher, gates
  <2> QED BY <2>1, <2>2, <2>3
<1>10. ASSUME Abort PROVE Goal
  <2>1. Quiet /\ Flags'
    BY <1>10 DEF Abort, Coord, shutdown, HInv, HooksTypeOK, dispatcher, gates, producers, vars, controller,
       StopIsFinal
  <2>2. GatesOK'
    BY <1>10, <2>1 DEF Abort, Coord, shutdown, HInv, HooksTypeOK, GatesOK, dispatcher, gates, vars, controller
  <2>3. JoinedOK' /\ PoolOK'
    BY <1>10, <2>1 DEF Abort, Coord, shutdown, HInv, HooksTypeOK, GatesOK, JoinedOK, PoolOK, Producers,
       dispatcher, gates
  <2> QED BY <2>1, <2>2, <2>3
<1>11. ASSUME FinishShutdown PROVE Goal
  <2>1. Quiet /\ Flags'
    BY <1>11 DEF FinishShutdown, Coord, HInv, HooksTypeOK, dispatcher, gates, producers, vars, controller,
       StopIsFinal
  <2>2. GatesOK'
    BY <1>11, <2>1 DEF FinishShutdown, Coord, HInv, HooksTypeOK, GatesOK, dispatcher, gates, vars, controller
  <2>3. JoinedOK' /\ PoolOK'
    BY <1>11, <2>1 DEF FinishShutdown, Coord, HInv, HooksTypeOK, GatesOK, JoinedOK, PoolOK, Producers,
       dispatcher, gates
  <2> QED BY <2>1, <2>2, <2>3
<1>12. ASSUME ShutdownTimesOut PROVE Goal
  <2>1. Quiet /\ Flags'
    BY <1>12 DEF ShutdownTimesOut, Coord, HInv, HooksTypeOK, dispatcher, gates, producers, vars, controller,
       StopIsFinal
  <2>2. GatesOK'
    BY <1>12, <2>1 DEF ShutdownTimesOut, Coord, HInv, HooksTypeOK, GatesOK, dispatcher, gates, vars, controller
  <2>3. JoinedOK' /\ PoolOK'
    BY <1>12, <2>1 DEF ShutdownTimesOut, Coord, HInv, HooksTypeOK, GatesOK, JoinedOK, PoolOK, Producers,
       dispatcher, gates
  <2> QED BY <2>1, <2>2, <2>3
<1>13. Goal
  BY <1>1, <1>2, <1>3, <1>4, <1>5, <1>6, <1>7, <1>8, <1>9, <1>10, <1>11, <1>12
<1>14. (OnePlace /\ ProducersHeld /\ JobsHeld)'
  BY <1>13, StillHeld
<1>15. HooksTypeOK'
  BY <1>13 DEF HInv, HooksTypeOK
<1> QED BY <1>13, <1>14, <1>15 DEF HRest

(* Readiness, the controller's own steps and steps that change nothing.      *)
LEMMA ControllerInv ==
    ASSUME HInv, Ready \/ Idle \/ UNCHANGED allVars
    PROVE  HRest'
<1>1. /\ UNCHANGED hookVars /\ leases' = leases
      /\ StopIsFinal /\ StopsByIdle /\ (stopping' => stopping \/ idleCalls' > 0)
      /\ idleCalls \in {0, 1}
  <2>1. CASE Idle
    BY <2>1, IdleEffect DEF HInv, IInv, TypeOK, StopIsFinal, StopsByIdle
  <2>2. CASE Ready \/ UNCHANGED allVars
    BY <2>2 DEF Ready, Start, allVars, hookVars, vars, controller, StopIsFinal, StopsByIdle,
       HInv, IInv, TypeOK
  <2> QED BY <2>1, <2>2
<1>2. HooksTypeOK' /\ PoolOK' /\ JoinedOK'
  BY <1>1 DEF HInv, HooksTypeOK, PoolOK, JoinedOK, hookVars, dispatcher, gates, producers, shutdown
<1>3. (OnePlace /\ ProducersHeld /\ JobsHeld)'
  BY <1>1, StillHeld DEF hookVars, dispatcher, producers
<1>4. GatesOK'
  BY <1>1 DEF HInv, GatesOK, hookVars, dispatcher, gates, producers, shutdown, StopIsFinal
<1> QED BY <1>2, <1>3, <1>4 DEF HRest
-----------------------------------------------------------------------------
(* A lease that is admitted or released leaves the others as they are.       *)
LEMMA OthersKeep ==
    ASSUME TypeOK, NEW u \in Units,
           Released(u) \/ \E l : leases' = [leases EXCEPT ![u] = l]
    PROVE  \A v \in Units : v # u =>
               /\ leases'[v] = leases[v] /\ Unheld(v)' = Unheld(v)
               /\ v \in Out({"drain", "child"})' <=> v \in Out({"drain", "child"})
<1> SUFFICES ASSUME NEW v \in Units, v # u
    PROVE  /\ leases'[v] = leases[v] /\ Unheld(v)' = Unheld(v)
           /\ v \in Out({"drain", "child"})' <=> v \in Out({"drain", "child"})
  OBVIOUS
<1>1. leases'[v] = leases[v]
  BY DEF Released, TypeOK
<1> QED BY <1>1 DEF Unheld, Out

(* Jobs that do not move keep their leases.                                  *)
LEMMA JobsKeep ==
    ASSUME HInv, NEW p \in Producers, UNCHANGED <<queue, slot, work>>, StopIsFinal,
           \/ UNCHANGED leases
           \/ Released(p) \/ \E l : leases' = [leases EXCEPT ![p] = l]
    PROVE  JobsHeld'
<1> SUFFICES ASSUME NEW j \in Jobs
    PROVE IF OnTheWay(j)' THEN j \in Out({"drain", "child"})' \/ (stopping' /\ idleCalls' = 0)
          ELSE Unheld(j)'
  BY DEF JobsHeld
<1>1. OnTheWay(j)' = OnTheWay(j)
  BY DEF OnTheWay, InQueue, AtWorker, InSlot
<1>2. /\ Unheld(j)' = Unheld(j)
      /\ j \in Out({"drain", "child"})' <=> j \in Out({"drain", "child"})
  <2>1. CASE UNCHANGED leases
    BY <2>1 DEF Unheld, Out
  <2>2. CASE Released(p) \/ \E l : leases' = [leases EXCEPT ![p] = l]
    BY <2>2, OthersKeep, UnitsOf, HooksAssumption DEF HInv, IInv
  <2> QED BY <2>1, <2>2
<1> QED BY <1>1, <1>2 DEF HInv, JobsHeld, StopIsFinal

(* A request or a background operation is admitted ...                       *)
LEMMA BeginInv ==
    ASSUME HInv, NEW p \in Producers,
           (p \in Requests /\ BeginRequest(p)) \/ (p \in Background /\ BeginWork(p))
    PROVE  HRest'
<1>1. /\ leases' = [leases EXCEPT ![p] = Lease(IF p \in Requests THEN "foreground" ELSE "drain")]
      /\ prod[p] = "off" /\ prod' = [prod EXCEPT ![p] = "active"]
      /\ UNCHANGED <<dispatcher, shutdown, stopping, idleCalls>> /\ ~stopping
  <2>1. CASE p \in Requests
    BY <2>1, HooksAssumption DEF BeginRequest, BeginWork, Begun, TryForeground
  <2>2. CASE p \in Background
    BY <2>2, HooksAssumption DEF BeginRequest, BeginWork, Begun, AdmitDrain, Admissible, controller
  <2> QED BY <2>1, <2>2 DEF Producers
<1>2. UNCHANGED <<queue, slot, work>>
  BY <1>1 DEF dispatcher
<1>3. HooksTypeOK'
  BY <1>1, <1>2 DEF HInv, HooksTypeOK, dispatcher, gates, shutdown
<1>4. OnePlace'
  BY <1>1, <1>2 DEF HInv, HooksTypeOK, OnePlace, InQueue, AtWorker, InSlot
<1>5. ProducersHeld'
  <2>1. \A q \in Producers : q # p => leases'[q] = leases[q] /\ Unheld(q)' = Unheld(q)
    BY <1>1, OthersKeep, UnitsOf DEF HInv, IInv
  <2>2. leases'[p] = Lease(IF p \in Requests THEN "foreground" ELSE "drain")
    BY <1>1, UnitsOf DEF HInv, IInv, TypeOK
  <2> QED BY <1>1, <2>1, <2>2 DEF HInv, ProducersHeld, HooksTypeOK
<1>6. JobsHeld'
  BY <1>1, <1>2, JobsKeep DEF StopIsFinal
<1>7. GatesOK' /\ JoinedOK' /\ PoolOK'
  BY <1>1, <1>2 DEF HInv, HooksTypeOK, GatesOK, JoinedOK, PoolOK, dispatcher, gates, shutdown
<1> QED BY <1>3, <1>4, <1>5, <1>6, <1>7 DEF HRest

(* ... and ends.                                                             *)
LEMMA FinishInv ==
    ASSUME HInv, NEW p \in Producers, Finish(p)
    PROVE  HRest'
<1>1. /\ Released(p) /\ StopIsFinal /\ StopsByIdle
      /\ prod[p] = "active" /\ prod' = [prod EXCEPT ![p] = "off"]
      /\ UNCHANGED <<dispatcher, shutdown>>
  BY UnitsOf, ReleaseEffect DEF Finish
<1>2. UNCHANGED <<queue, slot, work>>
  BY <1>1 DEF dispatcher
<1>3. HooksTypeOK'
  BY <1>1, <1>2 DEF HInv, HooksTypeOK, dispatcher, gates, shutdown
<1>4. OnePlace'
  BY <1>1, <1>2 DEF HInv, HooksTypeOK, OnePlace, InQueue, AtWorker, InSlot
<1>5. ProducersHeld'
  <2>1. \A q \in Producers : q # p => leases'[q] = leases[q] /\ Unheld(q)' = Unheld(q)
    BY <1>1, OthersKeep, UnitsOf DEF HInv, IInv
  <2>2. leases'[p].released
    BY <1>1, UnitsOf DEF HInv, IInv, TypeOK, Released
  <2> QED BY <1>1, <2>1, <2>2 DEF HInv, ProducersHeld, HooksTypeOK, Unheld
<1>6. JobsHeld'
  BY <1>1, <1>2, JobsKeep
<1>7. GatesOK' /\ JoinedOK' /\ PoolOK'
  BY <1>1, <1>2 DEF HInv, IInv, TypeOK, HooksTypeOK, GatesOK, JoinedOK, PoolOK, dispatcher, gates,
     shutdown, StopIsFinal, StopsByIdle
<1> QED BY <1>3, <1>4, <1>5, <1>6, <1>7 DEF HRest

(* A producer enters enqueue.                                                *)
LEMMA EnqueueInv ==
    ASSUME HInv, NEW p \in Producers, Enqueue(p)
    PROVE  HRest'
<1>1. /\ prod[p] = "active" /\ ~stopped /\ prod' = [prod EXCEPT ![p] = "acquire"]
      /\ UNCHANGED <<vars, dispatcher, shutdown>>
  BY DEF Enqueue
<1>2. UNCHANGED <<queue, slot, work, leases, stopping, idleCalls>>
  BY <1>1 DEF dispatcher, vars, controller
<1>3. HooksTypeOK'
  BY <1>1, <1>2 DEF HInv, HooksTypeOK, dispatcher, gates, shutdown
<1>4. OnePlace'
  BY <1>1, <1>2 DEF HInv, HooksTypeOK, OnePlace, InQueue, AtWorker, InSlot
<1>5. ProducersHeld'
  BY <1>1, <1>2 DEF HInv, ProducersHeld, HooksTypeOK, Unheld
<1>6. JobsHeld'
  BY <1>1, <1>2, JobsKeep DEF StopIsFinal
<1>7. GatesOK' /\ JoinedOK' /\ PoolOK'
  BY <1>1, <1>2, HooksAssumption DEF HInv, HooksTypeOK, GatesOK, JoinedOK, PoolOK, dispatcher, gates,
     shutdown, Producers
<1> QED BY <1>3, <1>4, <1>5, <1>6, <1>7 DEF HRest
-----------------------------------------------------------------------------
(* What the channel holds after a send and after a receive.                  *)
In(q, j) == \E i \in DOMAIN q : q[i] = j
Once(q) == \A i, k \in DOMAIN q : q[i] = q[k] => i = k

LEMMA Appended ==
    ASSUME NEW q \in Seq(Jobs), NEW j \in Jobs
    PROVE  /\ Append(q, j) \in Seq(Jobs)
           /\ \A k \in Jobs : In(Append(q, j), k) <=> In(q, k) \/ k = j
           /\ Once(q) /\ ~In(q, j) => Once(Append(q, j))
<1>1. /\ Append(q, j) \in Seq(Jobs) /\ Len(q) \in Nat /\ DOMAIN q = 1 .. Len(q)
      /\ DOMAIN Append(q, j) = 1 .. Len(q) + 1
      /\ \A i \in 1 .. Len(q) : Append(q, j)[i] = q[i]
      /\ Append(q, j)[Len(q) + 1] = j
  OBVIOUS
<1>2. ASSUME NEW k \in Jobs PROVE In(Append(q, j), k) <=> In(q, k) \/ k = j
  <2>1. ASSUME In(q, k) PROVE In(Append(q, j), k)
    BY <1>1, <2>1 DEF In
  <2>2. In(Append(q, j), j)
    BY <1>1 DEF In
  <2>3. ASSUME In(Append(q, j), k) PROVE In(q, k) \/ k = j
    BY <1>1, <2>3 DEF In
  <2> QED BY <2>1, <2>2, <2>3
<1>3. Once(q) /\ ~In(q, j) => Once(Append(q, j))
  BY <1>1 DEF In, Once
<1> QED BY <1>1, <1>2, <1>3

LEMMA Received ==
    ASSUME NEW q \in Seq(Jobs), q # <<>>, Once(q)
    PROVE  /\ Tail(q) \in Seq(Jobs) /\ Head(q) \in Jobs /\ In(q, Head(q))
           /\ \A k \in Jobs : In(Tail(q), k) <=> In(q, k) /\ k # Head(q)
           /\ Once(Tail(q))
<1>1. /\ Tail(q) \in Seq(Jobs) /\ Len(q) \in Nat \ {0} /\ DOMAIN q = 1 .. Len(q)
      /\ DOMAIN Tail(q) = 1 .. Len(q) - 1 /\ Head(q) = q[1]
      /\ \A i \in 1 .. Len(q) - 1 : Tail(q)[i] = q[i + 1]
  OBVIOUS
<1>2. ASSUME NEW k \in Jobs PROVE In(Tail(q), k) <=> In(q, k) /\ k # Head(q)
  <2>1. ASSUME In(q, k), k # Head(q) PROVE In(Tail(q), k)
    <3>1. PICK i \in 1 .. Len(q) : q[i] = k
      BY <1>1, <2>1 DEF In
    <3>2. i - 1 \in 1 .. Len(q) - 1 /\ Tail(q)[i - 1] = k
      BY <1>1, <2>1, <3>1
    <3> QED BY <1>1, <3>2 DEF In
  <2>2. ASSUME In(Tail(q), k) PROVE In(q, k) /\ k # Head(q)
    <3>1. PICK i \in 1 .. Len(q) - 1 : Tail(q)[i] = k
      BY <1>1, <2>2 DEF In
    <3>2. i + 1 \in 1 .. Len(q) /\ q[i + 1] = k /\ i + 1 # 1 /\ 1 \in 1 .. Len(q)
      BY <1>1, <3>1
    <3> QED BY <1>1, <3>2 DEF In, Once
  <2> QED BY <2>1, <2>2
<1>3. Once(Tail(q))
  <2> SUFFICES ASSUME NEW i \in 1 .. Len(q) - 1, NEW k \in 1 .. Len(q) - 1, Tail(q)[i] = Tail(q)[k]
      PROVE i = k
    BY <1>1 DEF Once
  <2>1. i + 1 \in 1 .. Len(q) /\ k + 1 \in 1 .. Len(q) /\ q[i + 1] = q[k + 1]
    BY <1>1
  <2> QED BY <1>1, <2>1 DEF Once
<1>4. In(q, Head(q)) /\ Head(q) \in Jobs
  BY <1>1 DEF In
<1> QED BY <1>1, <1>2, <1>3, <1>4
-----------------------------------------------------------------------------
(* Who works keeps an idle stop away: its lease is out.                      *)
LEMMA WorkIsOut ==
    ASSUME HInv, NEW p \in Producers, prod[p] # "off"
    PROVE  /\ p \in Out({"foreground", "drain", "child"}) /\ idleCalls = 0
           /\ p \in Requests => p \in Foregrounds
           /\ p \in Background => leases[p] = Lease("drain")
<1>1. /\ leases[p] = Lease(IF p \in Requests THEN "foreground" ELSE "drain") /\ p \in Units
  BY UnitsOf DEF HInv, ProducersHeld
<1>2. p \in Out({"foreground", "drain", "child"}) /\ (p \in Requests => p \in Foregrounds)
  BY <1>1 DEF Lease, Out, Foregrounds
<1>3. idleCalls = 0
  BY <1>2 DEF HInv, IInv, TypeOK, IdleStopJustified
<1>4. p \in Background => p \notin Requests
  BY HooksAssumption
<1> QED BY <1>1, <1>2, <1>3, <1>4

(* The job a producer is to send enters its slot: with a lease of its own,   *)
(* or without one during the shutdown.                                       *)
LEMMA ToSendInv ==
    ASSUME HInv, NEW p \in Producers, NEW j \in Jobs, prod[p] = "acquire", Free(j), ToSend(p, j),
           stopping' = stopping, idleCalls' = idleCalls,
           \/ /\ \E kind \in {"drain", "child"} : leases' = [leases EXCEPT ![j] = Lease(kind)]
           \/ UNCHANGED leases /\ stopping
    PROVE  HRest'
<1>1. /\ prod' = [prod EXCEPT ![p] = "send"] /\ slot' = [slot EXCEPT ![p] = j]
      /\ UNCHANGED <<gates, queue, work, shutdown>>
      /\ ~InQueue(j) /\ ~AtWorker(j) /\ ~InSlot(j) /\ Unheld(j) /\ j # Nobody
  BY HooksAssumption DEF ToSend, Free, InQueue, AtWorker, InSlot
<1>2. HooksTypeOK'
  BY <1>1 DEF HInv, HooksTypeOK, gates, shutdown
<1>s. slot[p] = Nobody
  BY DEF HInv, OnePlace
<1>3. \A k \in Jobs : /\ InQueue(k)' = InQueue(k) /\ AtWorker(k)' = AtWorker(k)
                      /\ InSlot(k)' <=> InSlot(k) \/ k = j
  <2>1. ASSUME NEW k \in Jobs PROVE InSlot(k)' <=> InSlot(k) \/ k = j
    BY <1>1, <1>s, HooksAssumption DEF InSlot, HInv, HooksTypeOK
  <2> QED BY <1>1, <2>1 DEF InQueue, AtWorker
<1>4. OnePlace'
  <2>1. /\ (\A q \in Producers : prod[q] = "send" <=> slot[q] # Nobody)'
        /\ (\A q, r \in Producers : slot[q] = slot[r] /\ slot[q] # Nobody => q = r)'
    BY <1>1 DEF HInv, HooksTypeOK, OnePlace, InSlot
  <2> QED BY <1>1, <1>3, <2>1 DEF HInv, OnePlace
<1>k. \A v \in Units : v # j =>
          /\ leases'[v] = leases[v] /\ Unheld(v)' = Unheld(v)
          /\ v \in Out({"drain", "child"})' <=> v \in Out({"drain", "child"})
  <2>1. CASE UNCHANGED leases
    BY <2>1 DEF Unheld, Out
  <2>2. CASE \E kind \in {"drain", "child"} : leases' = [leases EXCEPT ![j] = Lease(kind)]
    BY <2>2, OthersKeep, UnitsOf DEF HInv, IInv
  <2> QED BY <2>1, <2>2
<1>5. ProducersHeld'
  BY <1>1, <1>k, UnitsOf, HooksAssumption DEF HInv, HooksTypeOK, ProducersHeld
<1>6. JobsHeld'
  <2>1. ASSUME NEW k \in Jobs, k # j
        PROVE IF OnTheWay(k)' THEN k \in Out({"drain", "child"})' \/ (stopping' /\ idleCalls' = 0)
              ELSE Unheld(k)'
    BY <2>1, <1>3, <1>k, UnitsOf DEF HInv, JobsHeld, OnTheWay
  <2>2. OnTheWay(j)'
    BY <1>3 DEF OnTheWay
  <2>3. j \in Out({"drain", "child"})' \/ (stopping' /\ idleCalls' = 0)
    <3>1. CASE UNCHANGED leases /\ stopping
      BY <3>1, WorkIsOut
    <3>2. CASE \E kind \in {"drain", "child"} : leases' = [leases EXCEPT ![j] = Lease(kind)]
      BY <3>2, UnitsOf DEF HInv, IInv, TypeOK, Out, Lease
    <3> QED BY <3>1, <3>2
  <2> QED BY <2>1, <2>2, <2>3 DEF JobsHeld
<1>7. GatesOK' /\ JoinedOK' /\ PoolOK'
  BY <1>1, HooksAssumption DEF HInv, HooksTypeOK, GatesOK, JoinedOK, PoolOK, gates, shutdown, Producers
<1> QED BY <1>2, <1>4, <1>5, <1>6, <1>7 DEF HRest

LEMMA AcquireInv ==
    ASSUME HInv, NEW p \in Producers, NEW j \in Jobs, Acquire(p, j)
    PROVE  HRest'
<1>1. \E kind \in {"drain", "child"} : leases' = [leases EXCEPT ![j] = Lease(kind)]
  BY DEF Acquire, AdmitDrain, Fork
<1>2. stopping' = stopping /\ idleCalls' = idleCalls
  BY DEF Acquire, AdmitDrain, Fork, controller
<1> QED BY <1>1, <1>2, ToSendInv DEF Acquire

(* From hook to hook, or out of enqueue, with no job in hand.                *)
LEMMA NextHookMoves ==
    ASSUME HInv, NEW p \in Producers, NextHook(p)
    PROVE  \E next \in {"active", "acquire"} : prod' = [prod EXCEPT ![p] = next]
  BY DEF NextHook

LEMMA AcquireDeniedInv ==
    ASSUME HInv, NEW p \in Producers, NEW j \in Jobs, AcquireDenied(p, j)
    PROVE  HRest'
<1>v. UNCHANGED <<leases, stopping, idleCalls>> /\ prod[p] = "acquire" /\ stopping
  BY DEF AcquireDenied, vars, controller
<1>1. CASE producerDrain
  BY <1>1, <1>v, ToSendInv DEF AcquireDenied
<1>2. CASE ~producerDrain
  <2>1. /\ \E next \in {"active", "acquire"} : prod' = [prod EXCEPT ![p] = next]
        /\ UNCHANGED <<dispatcher, shutdown>>
    BY <1>2, NextHookMoves DEF AcquireDenied
  <2>2. UNCHANGED <<queue, slot, work>>
    BY <2>1 DEF dispatcher
  <2>3. HooksTypeOK'
    BY <2>1 DEF HInv, HooksTypeOK, dispatcher, gates, shutdown
  <2>4. OnePlace'
    BY <1>v, <2>1, <2>2 DEF HInv, HooksTypeOK, OnePlace, InQueue, AtWorker, InSlot
  <2>5. ProducersHeld'
    BY <1>v, <2>1 DEF HInv, HooksTypeOK, ProducersHeld, Unheld
  <2>6. JobsHeld'
    BY <1>v, <2>2, JobsKeep DEF StopIsFinal
  <2>7. GatesOK' /\ JoinedOK' /\ PoolOK'
    BY <1>v, <2>1, <2>2, HooksAssumption DEF HInv, HooksTypeOK, GatesOK, JoinedOK, PoolOK,
       dispatcher, gates, shutdown, Producers
  <2> QED BY <2>3, <2>4, <2>5, <2>6, <2>7 DEF HRest
<1> QED BY <1>1, <1>2
(* A send puts the job into the queue, or gives it up with its lease.        *)
LEMMA SendInv ==
    ASSUME HInv, NEW p \in Producers, Send(p)
    PROVE  HRest'
<1>j. PICK j \in Jobs : slot[p] = j
  BY DEF Send, HInv, HooksTypeOK, OnePlace
<1>1. /\ prod[p] = "send" /\ slot' = [slot EXCEPT ![p] = Nobody]
      /\ UNCHANGED <<gates, work, shutdown>> /\ InSlot(j)
      /\ \E next \in {"active", "acquire"} : prod' = [prod EXCEPT ![p] = next]
  BY <1>j, NextHookMoves DEF Send, InSlot
<1>2. /\ ~closed /\ ~InQueue(j) /\ ~AtWorker(j) /\ \A w \in Workers : work[w].at # "exited"
  BY <1>1 DEF HInv, HooksTypeOK, OnePlace, GatesOK, PoolOK
<1>3. \A k \in Jobs : /\ AtWorker(k)' = AtWorker(k)
                      /\ InSlot(k)' <=> InSlot(k) /\ k # j
  <2>1. ASSUME NEW k \in Jobs PROVE InSlot(k)' <=> InSlot(k) /\ k # j
    BY <1>1, <1>j, HooksAssumption DEF InSlot, HInv, HooksTypeOK, OnePlace
  <2> QED BY <1>1, <2>1 DEF AtWorker
<1>4. /\ StopIsFinal /\ StopsByIdle
      /\ \/ UNCHANGED leases /\ queue' = Append(queue, j)
         \/ UNCHANGED leases /\ queue' = queue /\ Unheld(j)
         \/ Released(j) /\ queue' = queue
  <2>1. CASE Len(queue) < QueueCap
    BY <1>j, <2>1 DEF Send, vars, controller, StopIsFinal, StopsByIdle
  <2>2. CASE ~(Len(queue) < QueueCap)
    BY <1>j, <2>2, UnitsOf, ReleaseJobEffect DEF Send
  <2> QED BY <2>1, <2>2
<1>5. /\ queue' \in Seq(Jobs) /\ Once(queue')
      /\ \A k \in Jobs : InQueue(k)' <=> InQueue(k) \/ (k = j /\ queue' # queue)
  <2>1. queue \in Seq(Jobs) /\ Once(queue) /\ ~In(queue, j)
    BY <1>2 DEF HInv, HooksTypeOK, OnePlace, Once, In, InQueue
  <2>2. CASE queue' = Append(queue, j)
    <3>1. Append(queue, j) # queue
      BY <2>1, <1>1
    <3> QED BY <2>1, <2>2, <3>1, <1>1, Appended DEF InQueue, In
  <2>3. CASE queue' = queue
    BY <2>1, <2>3 DEF InQueue
  <2> QED BY <2>2, <2>3, <1>4
<1>6. HooksTypeOK'
  BY <1>1, <1>5 DEF HInv, HooksTypeOK, gates, shutdown
<1>7. OnePlace'
  <2>1. /\ (\A q \in Producers : prod[q] = "send" <=> slot[q] # Nobody)'
        /\ (\A q, r \in Producers : slot[q] = slot[r] /\ slot[q] # Nobody => q = r)'
    BY <1>1 DEF HInv, HooksTypeOK, OnePlace
  <2>2. /\ (\A w \in Workers : work[w].at \in {"popped", "running"} <=> work[w].job # Nobody)'
        /\ (\A w, v \in Workers : work[w].job = work[v].job /\ work[w].job # Nobody => w = v)'
    BY <1>1 DEF HInv, OnePlace
  <2>3. (\A i, k \in DOMAIN queue : queue[i] = queue[k] => i = k)'
    BY <1>5 DEF Once
  <2>4. (\A k \in Jobs : /\ ~(InQueue(k) /\ AtWorker(k))
                         /\ ~(InQueue(k) /\ InSlot(k))
                         /\ ~(AtWorker(k) /\ InSlot(k)))'
    BY <1>2, <1>3, <1>5 DEF HInv, OnePlace
  <2> QED BY <2>1, <2>2, <2>3, <2>4 DEF OnePlace
<1>k. \A v \in Units : v # j =>
          /\ leases'[v] = leases[v] /\ Unheld(v)' = Unheld(v)
          /\ v \in Out({"drain", "child"})' <=> v \in Out({"drain", "child"})
  <2>1. CASE UNCHANGED leases
    BY <2>1 DEF Unheld, Out
  <2>2. CASE Released(j)
    BY <2>2, <1>1, OthersKeep, UnitsOf DEF HInv, IInv
  <2> QED BY <2>1, <2>2, <1>4
<1>8. ProducersHeld'
  BY <1>1, <1>k, UnitsOf, HooksAssumption DEF HInv, HooksTypeOK, ProducersHeld
<1>9. JobsHeld'
  <2>1. ASSUME NEW k \in Jobs, k # j
        PROVE IF OnTheWay(k)' THEN k \in Out({"drain", "child"})' \/ (stopping' /\ idleCalls' = 0)
              ELSE Unheld(k)'
    <3>1. OnTheWay(k)' = OnTheWay(k)
      BY <2>1, <1>3, <1>5 DEF OnTheWay
    <3> QED BY <2>1, <3>1, <1>k, <1>4, UnitsOf DEF HInv, JobsHeld, StopIsFinal
  <2>2. IF OnTheWay(j)' THEN j \in Out({"drain", "child"})' \/ (stopping' /\ idleCalls' = 0)
        ELSE Unheld(j)'
    <3>1. OnTheWay(j) /\ (OnTheWay(j)' <=> queue' # queue)
      BY <1>1, <1>2, <1>3, <1>5 DEF OnTheWay
    <3>u. UNCHANGED leases => /\ Unheld(j)' = Unheld(j)
                              /\ j \in Out({"drain", "child"})' <=> j \in Out({"drain", "child"})
      BY DEF Unheld, Out
    <3>2. CASE UNCHANGED leases /\ queue' = Append(queue, j)
      <4>1. OnTheWay(j)'
        BY <3>1, <3>2, <1>1 DEF HInv, HooksTypeOK
      <4> QED BY <3>1, <3>2, <3>u, <4>1, <1>4 DEF HInv, JobsHeld, StopIsFinal
    <3>4. CASE UNCHANGED leases /\ queue' = queue /\ Unheld(j)
      BY <3>1, <3>4, <3>u
    <3>3. CASE Released(j) /\ queue' = queue
      BY <3>1, <3>3, <1>1, UnitsOf DEF Released, Unheld, HInv, IInv, TypeOK
    <3> QED BY <3>2, <3>3, <3>4, <1>4
  <2>3. \A k \in Jobs : IF OnTheWay(k)' THEN k \in Out({"drain", "child"})' \/ (stopping' /\ idleCalls' = 0)
                        ELSE Unheld(k)'
    BY <2>1, <2>2
  <2> QED BY <2>3 DEF JobsHeld
<1>10. GatesOK' /\ JoinedOK' /\ PoolOK'
  <2>1. stopping' /\ idleCalls' = 0 => stopping /\ idleCalls = 0
    BY <1>4 DEF StopIsFinal, StopsByIdle, HInv, IInv, TypeOK
  <2>2. stopping => stopping'
    BY <1>4 DEF StopIsFinal
  <2> QED BY <1>1, <1>2, <1>5, <2>1, <2>2, HooksAssumption DEF HInv, HooksTypeOK, GatesOK, JoinedOK,
             PoolOK, gates, shutdown, Producers
<1> QED BY <1>6, <1>7, <1>8, <1>9, <1>10 DEF HRest
-----------------------------------------------------------------------------
(* A worker takes a job out of the queue ...                                 *)
LEMMA PopInv ==
    ASSUME HInv, NEW w \in Workers, Pop(w)
    PROVE  HRest'
<1>j. PICK j \in Jobs : Head(queue) = j /\ InQueue(j)
  BY Received DEF Pop, HInv, HooksTypeOK, OnePlace, Once, In, InQueue
<1>1. /\ work[w].at = "idle" /\ queue' = Tail(queue) /\ queue # <<>>
      /\ work' = [work EXCEPT ![w] = [at |-> "popped", job |-> j]]
      /\ UNCHANGED <<gates, slot, prod, shutdown, leases, stopping, idleCalls>>
  BY <1>j DEF Pop, SetWork, vars, controller, producers
<1>2. /\ ~InSlot(j) /\ ~AtWorker(j) /\ j # Nobody
  BY <1>j, HooksAssumption DEF HInv, OnePlace
<1>3. \A k \in Jobs : AtWorker(k)' <=> AtWorker(k) \/ k = j
  <2> SUFFICES ASSUME NEW k \in Jobs PROVE AtWorker(k)' <=> AtWorker(k) \/ k = j
    OBVIOUS
  <2>1. work[w].job = Nobody
    BY <1>1 DEF HInv, OnePlace
  <2> QED BY <1>1, <2>1, HooksAssumption DEF AtWorker, HInv, HooksTypeOK
<1>4. /\ queue' \in Seq(Jobs) /\ Once(queue')
      /\ \A k \in Jobs : InQueue(k)' <=> InQueue(k) /\ k # j
  <2>1. queue \in Seq(Jobs) /\ Once(queue) /\ queue # <<>>
    BY <1>1 DEF HInv, HooksTypeOK, OnePlace, Once
  <2>2. \A k \in Jobs : InQueue(k)' <=> In(Tail(queue), k)
    BY <1>1 DEF InQueue, In
  <2>3. \A k \in Jobs : InQueue(k) <=> In(queue, k)
    BY DEF InQueue, In
  <2> QED BY <1>1, <1>j, <2>1, <2>2, <2>3, Received
<1>5. \A k \in Jobs : InSlot(k)' = InSlot(k) /\ OnTheWay(k)' = OnTheWay(k)
  <2>1. \A k \in Jobs : InSlot(k)' = InSlot(k)
    BY <1>1 DEF InSlot
  <2> QED BY <2>1, <1>3, <1>4, <1>j DEF OnTheWay
<1>6. HooksTypeOK'
  BY <1>1, <1>4 DEF HInv, HooksTypeOK, gates, shutdown
<1>7. OnePlace'
  <2>1. /\ (\A p \in Producers : prod[p] = "send" <=> slot[p] # Nobody)'
        /\ (\A p, q \in Producers : slot[p] = slot[q] /\ slot[p] # Nobody => p = q)'
    BY <1>1 DEF HInv, OnePlace
  <2>2. /\ (\A v \in Workers : work[v].at \in {"popped", "running"} <=> work[v].job # Nobody)'
        /\ (\A v, x \in Workers : work[v].job = work[x].job /\ work[v].job # Nobody => v = x)'
    BY <1>1, <1>2 DEF HInv, HooksTypeOK, OnePlace, AtWorker
  <2>3. (\A i, k \in DOMAIN queue : queue[i] = queue[k] => i = k)'
    BY <1>4 DEF Once
  <2>4. (\A k \in Jobs : /\ ~(InQueue(k) /\ AtWorker(k))
                         /\ ~(InQueue(k) /\ InSlot(k))
                         /\ ~(AtWorker(k) /\ InSlot(k)))'
    BY <1>2, <1>3, <1>4, <1>5 DEF HInv, OnePlace
  <2> QED BY <2>1, <2>2, <2>3, <2>4 DEF OnePlace
<1>8. ProducersHeld'
  BY <1>1 DEF HInv, ProducersHeld, Unheld
<1>9. JobsHeld'
  BY <1>1, <1>5 DEF HInv, JobsHeld, Unheld, Out
<1>10. GatesOK' /\ JoinedOK' /\ PoolOK'
  BY <1>1 DEF HInv, HooksTypeOK, GatesOK, JoinedOK, PoolOK, gates, shutdown
<1> QED BY <1>6, <1>7, <1>8, <1>9, <1>10 DEF HRest

(* ... runs it, or goes home.                                                *)
LEMMA WorkInv ==
    ASSUME HInv, NEW w \in Workers, Exit(w) \/ Run(w)
    PROVE  HRest'
<1>1. /\ UNCHANGED <<gates, queue, slot, prod, shutdown, leases, stopping, idleCalls>>
      /\ \/ /\ work[w].at = "idle" /\ (done \/ (closed /\ queue = <<>>))
            /\ work' = [work EXCEPT ![w] = [at |-> "exited", job |-> Nobody]]
         \/ /\ work[w].at = "popped"
            /\ work' = [work EXCEPT ![w] = [at |-> "running", job |-> work[w].job]]
  BY DEF Exit, Run, SetWork, vars, controller, producers
<1>2. \A v \in Workers : work'[v].job = work[v].job
  BY <1>1 DEF HInv, HooksTypeOK, OnePlace
<1>3. \A k \in Jobs : /\ AtWorker(k)' = AtWorker(k) /\ InQueue(k)' = InQueue(k)
                      /\ InSlot(k)' = InSlot(k)
  BY <1>1, <1>2 DEF AtWorker, InQueue, InSlot
<1>4. HooksTypeOK'
  BY <1>1 DEF HInv, HooksTypeOK, gates, shutdown
<1>5. OnePlace'
  <2>1. (\A v \in Workers : work[v].at \in {"popped", "running"} <=> work[v].job # Nobody)'
    BY <1>1 DEF HInv, HooksTypeOK, OnePlace
  <2> QED BY <1>1, <1>2, <1>3, <2>1 DEF HInv, OnePlace
<1>6. ProducersHeld'
  BY <1>1 DEF HInv, ProducersHeld, Unheld
<1>7. JobsHeld'
  BY <1>1, <1>3 DEF HInv, JobsHeld, OnTheWay, Unheld, Out
<1>8. GatesOK' /\ JoinedOK' /\ PoolOK'
  BY <1>1 DEF HInv, HooksTypeOK, GatesOK, JoinedOK, PoolOK, gates, shutdown
<1> QED BY <1>4, <1>5, <1>6, <1>7, <1>8 DEF HRest

(* A job is released and gone: by a worker ...                               *)
LEMMA JobGone ==
    ASSUME HInv, NEW j \in Jobs, ReleaseJob(j), UNCHANGED <<prod, slot>>,
           \A k \in Jobs : OnTheWay(k)' <=> OnTheWay(k) /\ k # j
    PROVE  /\ ProducersHeld' /\ JobsHeld'
           /\ stopping' /\ idleCalls' = 0 => stopping /\ idleCalls = 0
           /\ stopping => stopping'
<1>1. /\ IF Unheld(j) THEN leases' = leases ELSE Released(j)
      /\ StopIsFinal /\ StopsByIdle
  BY UnitsOf, ReleaseJobEffect
<1>2. \A v \in Units : v # j =>
          /\ leases'[v] = leases[v] /\ Unheld(v)' = Unheld(v)
          /\ v \in Out({"drain", "child"})' <=> v \in Out({"drain", "child"})
  <2>1. CASE UNCHANGED leases
    BY <2>1 DEF Unheld, Out
  <2>2. CASE Released(j)
    BY <2>2, OthersKeep, UnitsOf DEF HInv, IInv
  <2> QED BY <2>1, <2>2, <1>1
<1>3. Unheld(j)'
  BY <1>1, UnitsOf DEF Unheld, Released, HInv, IInv, TypeOK
<1>4. ProducersHeld'
  BY <1>2, UnitsOf, HooksAssumption DEF HInv, ProducersHeld
<1>5. JobsHeld'
  BY <1>1, <1>2, <1>3, UnitsOf DEF HInv, JobsHeld, StopIsFinal
<1> QED BY <1>1, <1>4, <1>5 DEF StopIsFinal, StopsByIdle, HInv, IInv, TypeOK

LEMMA EndInv ==
    ASSUME HInv, NEW w \in Workers, DropPopped(w) \/ EndRun(w)
    PROVE  HRest'
<1>j. PICK j \in Jobs : work[w].job = j
  BY DEF DropPopped, EndRun, HInv, HooksTypeOK, OnePlace
<1>1. /\ ReleaseJob(j) /\ UNCHANGED <<gates, queue, slot, prod, shutdown>>
      /\ \E at \in {"idle", "exited"} :
            /\ work' = [work EXCEPT ![w] = [at |-> at, job |-> Nobody]]
            /\ at = "exited" => done
      /\ work[w].at # "exited"
  BY <1>j DEF DropPopped, EndRun, SetWork, producers
<1>2. \A k \in Jobs : /\ AtWorker(k)' <=> AtWorker(k) /\ k # j
                      /\ InQueue(k)' = InQueue(k) /\ InSlot(k)' = InSlot(k)
  <2>1. ASSUME NEW k \in Jobs PROVE AtWorker(k)' <=> AtWorker(k) /\ k # j
    BY <1>1, <1>j, HooksAssumption DEF AtWorker, HInv, HooksTypeOK, OnePlace
  <2> QED BY <1>1, <2>1 DEF InQueue, InSlot
<1>3. \A k \in Jobs : OnTheWay(k)' <=> OnTheWay(k) /\ k # j
  <2>1. AtWorker(j)
    BY <1>j DEF AtWorker
  <2>2. ~InQueue(j) /\ ~InSlot(j)
    BY <2>1 DEF HInv, OnePlace
  <2> QED BY <1>2, <2>2 DEF OnTheWay
<1>4. /\ ProducersHeld' /\ JobsHeld'
      /\ stopping' /\ idleCalls' = 0 => stopping /\ idleCalls = 0
      /\ stopping => stopping'
  BY <1>1, <1>3, JobGone
<1>5. HooksTypeOK'
  BY <1>1 DEF HInv, HooksTypeOK, gates, shutdown
<1>6. OnePlace'
  <2>1. /\ (\A v \in Workers : work[v].at \in {"popped", "running"} <=> work[v].job # Nobody)'
        /\ (\A v, x \in Workers : work[v].job = work[x].job /\ work[v].job # Nobody => v = x)'
    BY <1>1 DEF HInv, HooksTypeOK, OnePlace
  <2> QED BY <1>1, <1>2, <2>1 DEF HInv, OnePlace
<1>7. GatesOK' /\ JoinedOK' /\ PoolOK'
  BY <1>1, <1>4 DEF HInv, HooksTypeOK, GatesOK, JoinedOK, PoolOK, gates, shutdown
<1> QED BY <1>4, <1>5, <1>6, <1>7 DEF HRest

(* ... or out of the queue, by the shutdown.                                 *)
LEMMA ReleaseQueuedInv ==
    ASSUME HInv, ReleaseQueued
    PROVE  HRest'
<1>j. PICK j \in Jobs : Head(queue) = j /\ InQueue(j)
  BY Received DEF ReleaseQueued, HInv, HooksTypeOK, OnePlace, Once, In, InQueue
<1>1. /\ ReleaseJob(j) /\ queue # <<>> /\ queue' = Tail(queue)
      /\ UNCHANGED <<gates, slot, work, prod, shutdown>>
  BY <1>j DEF ReleaseQueued, producers
<1>2. /\ queue' \in Seq(Jobs) /\ Once(queue')
      /\ \A k \in Jobs : InQueue(k)' <=> InQueue(k) /\ k # j
  BY <1>1, <1>j, Received DEF HInv, HooksTypeOK, OnePlace, Once, In, InQueue
<1>3. /\ \A k \in Jobs : AtWorker(k)' = AtWorker(k) /\ InSlot(k)' = InSlot(k)
      /\ \A k \in Jobs : OnTheWay(k)' <=> OnTheWay(k) /\ k # j
  <2>1. \A k \in Jobs : AtWorker(k)' = AtWorker(k) /\ InSlot(k)' = InSlot(k)
    BY <1>1 DEF AtWorker, InSlot
  <2>2. ~AtWorker(j) /\ ~InSlot(j)
    BY <1>j DEF HInv, OnePlace
  <2> QED BY <1>2, <2>1, <2>2 DEF OnTheWay
<1>4. /\ ProducersHeld' /\ JobsHeld'
      /\ stopping' /\ idleCalls' = 0 => stopping /\ idleCalls = 0
      /\ stopping => stopping'
  BY <1>1, <1>3, JobGone
<1>5. HooksTypeOK'
  BY <1>1, <1>2 DEF HInv, HooksTypeOK, gates, shutdown
<1>6. OnePlace'
  BY <1>1, <1>2, <1>3 DEF HInv, OnePlace, Once
<1>7. GatesOK' /\ JoinedOK' /\ PoolOK'
  BY <1>1, <1>4 DEF HInv, HooksTypeOK, GatesOK, JoinedOK, PoolOK, gates, shutdown
<1> QED BY <1>4, <1>5, <1>6, <1>7 DEF HRest
-----------------------------------------------------------------------------
LEMMA HooksInitInv == HooksInit => HInv
<1> SUFFICES ASSUME HooksInit PROVE HInv OBVIOUS
<1>1. IInv
  BY InitInv DEF HooksInit
<1>2. \A u \in Units : Unheld(u)
  BY DEF HooksInit, Init, None, Unheld
<1>3. \A j \in Jobs : ~InQueue(j) /\ ~AtWorker(j) /\ ~InSlot(j)
  BY HooksAssumption DEF HooksInit, InQueue, AtWorker, InSlot, AtRest
<1>4. HooksTypeOK
  <2>1. queue \in Seq(Jobs)
    BY DEF HooksInit
  <2>2. work \in [Workers -> [at : {"idle", "popped", "running", "exited"},
                             job : Jobs \cup {Nobody}]]
    BY DEF HooksInit, AtRest
  <2>3. /\ prod \in [Producers -> {"off", "active", "acquire", "send"}]
        /\ slot \in [Producers -> Jobs \cup {Nobody}]
    BY DEF HooksInit
  <2> QED BY <2>1, <2>2, <2>3 DEF HooksInit, HooksTypeOK
<1>o. OnePlace
  <2>1. DOMAIN queue = {}
    BY DEF HooksInit
  <2> QED BY <1>3, <2>1 DEF HooksInit, OnePlace, AtRest
<1>5. ProducersHeld /\ JobsHeld
  BY <1>2, <1>3, UnitsOf DEF ProducersHeld, JobsHeld, OnTheWay, HooksInit
<1>6. GatesOK /\ JoinedOK /\ PoolOK
  BY DEF HooksInit, Init, GatesOK, JoinedOK, PoolOK, AtRest
<1> QED BY <1>1, <1>4, <1>o, <1>5, <1>6 DEF HInv

LEMMA HooksNextInv ==
    ASSUME HInv, [HooksNext]_allVars
    PROVE  HInv'
<1>1. IInv'
  BY StepSteps, NextInv DEF HInv
<1>2. HRest'
  <2>1. ASSUME NEW r \in Requests, BeginRequest(r) PROVE HRest'
    BY <2>1, BeginInv DEF Producers
  <2>2. ASSUME NEW b \in Background, BeginWork(b) PROVE HRest'
    BY <2>2, BeginInv DEF Producers
  <2>3. ASSUME NEW p \in Producers, Finish(p) \/ Enqueue(p) \/ Send(p) PROVE HRest'
    BY <2>3, FinishInv, EnqueueInv, SendInv
  <2>4. ASSUME NEW p \in Producers, NEW j \in Jobs, Acquire(p, j) \/ AcquireDenied(p, j)
        PROVE HRest'
    BY <2>4, AcquireInv, AcquireDeniedInv
  <2>5. ASSUME NEW w \in Workers, Pool(w) PROVE HRest'
    BY <2>5, PopInv, WorkInv, EndInv DEF Pool
  <2>6. CASE ReleaseQueued
    BY <2>6, ReleaseQueuedInv
  <2>7. CASE \/ Supervise \/ StartupFails \/ TriggerDrain \/ TriggerSeal \/ JoinWorkers
             \/ JoinHandlers \/ BeginClose \/ GiveUp \/ CloseQueue \/ Abort \/ FinishShutdown
             \/ ShutdownTimesOut
    BY <2>7, CoordinatorInv
  <2>8. CASE Ready \/ Idle \/ UNCHANGED allVars
    BY <2>8, ControllerInv
  <2> QED BY <2>1, <2>2, <2>3, <2>4, <2>5, <2>6, <2>7, <2>8
          DEF HooksNext, Exited, Step, Handoff, Coordinate
<1> QED BY <1>1, <1>2 DEF HInv, HRest

(* The inductive invariant: leases and work go together (ProducersHeld,      *)
(* JobsHeld), a job is in one place, and each gate tells how far the         *)
(* shutdown is.                                                              *)
THEOREM HooksInvariance == HooksSpec => []HInv
<1>1. HooksInit => HInv
  BY HooksInitInv
<1>2. HInv /\ [HooksNext]_allVars => HInv'
  BY HooksNextInv
<1> QED BY <1>1, <1>2, PTL DEF HooksSpec

(* The dispatcher, the producers and the coordinator use the idle controller *)
(* only as it may be used: what is proved of it holds of the whole.          *)
THEOREM HooksUseController == HooksSpec => Spec
<1>1. HooksInit => Init
  BY DEF HooksInit
<1>2. HInv /\ [HooksNext]_allVars => [Next]_vars
  BY StepSteps DEF HInv
<1> QED BY <1>1, <1>2, HooksInvariance, PTL DEF HooksSpec, Spec

(* No admitted producer's job is refused for want of admission, and none of  *)
(* its acquires decides that the daemon is idle.                             *)
THEOREM HandoffOpen == HooksSpec => []HandoffNeverDenied
<1>1. HInv => HandoffNeverDenied
  <2> SUFFICES ASSUME HInv, NEW p \in Producers, prod[p] = "acquire"
      PROVE IF stopping THEN producerDrain ELSE p \in Background \/ Admissible
    BY DEF HandoffNeverDenied
  <2>1. CASE stopping
    BY <2>1, WorkIsOut DEF HInv, GatesOK
  <2>2. CASE ~stopping /\ p \in Requests
    <3>1. p \in Foregrounds /\ IsFiniteSet(Foregrounds)
      BY <2>2, WorkIsOut, OutFinite DEF HInv, IInv
    <3>2. foreground # 0
      BY <2>2, <3>1, FS_EmptySet DEF HInv, IInv, CountersMatch, Foregrounds
    <3> QED BY <2>2, <3>2 DEF Admissible, DeadlinePassed, HInv, IInv, ExpiryOK, TypeOK
  <2> QED BY <2>1, <2>2 DEF Producers
<1> QED BY <1>1, HooksInvariance, PTL

(* Nobody sends on the closed queue.                                         *)
THEOREM SendsAreSafe == HooksSpec => []NoSendOnClosed
<1>1. HInv => NoSendOnClosed
  BY DEF HInv, GatesOK, NoSendOnClosed
<1> QED BY <1>1, HooksInvariance, PTL

(* What the coordinator joined uses nothing any more.                        *)
THEOREM JoinedIsAtRest == HooksSpec => []DependenciesOutliveUse
<1>1. HInv => DependenciesOutliveUse
  <2> SUFFICES ASSUME HInv PROVE DependenciesOutliveUse OBVIOUS
  <2>1. \A w \in Workers : work[w].at = "running" => appender
    BY DEF HInv, HooksTypeOK, PoolOK
  <2>2. ASSUME coord = "done", ~failed
        PROVE  /\ \A p \in Producers : prod[p] = "off"
               /\ \A w \in Workers : work[w].at = "exited"
               /\ queue = <<>> /\ Out({"foreground", "drain", "child"}) = {}
    <3>1. /\ \A p \in Producers : prod[p] = "off"
          /\ \A w \in Workers : work[w].at = "exited"
          /\ queue = <<>>
      BY <2>2 DEF HInv, JoinedOK, Producers
    <3>2. ASSUME NEW j \in Jobs PROVE Unheld(j)
      <4>1. ~InQueue(j)
        BY <3>1 DEF InQueue
      <4>2. ~AtWorker(j) /\ ~InSlot(j)
        BY <3>1, HooksAssumption DEF AtWorker, InSlot, HInv, OnePlace
      <4> QED BY <4>1, <4>2 DEF OnTheWay, HInv, JobsHeld
    <3>3. ASSUME NEW p \in Producers PROVE Unheld(p)
      BY <3>1 DEF HInv, ProducersHeld
    <3>4. \A u \in Units : Unheld(u)
      BY <3>2, <3>3, HooksAssumption
    <3>5. Out({"foreground", "drain", "child"}) = {}
      BY <3>4 DEF Out, Unheld
    <3> QED BY <3>1, <3>5
  <2> QED BY <2>1, <2>2 DEF DependenciesOutliveUse
<1> QED BY <1>1, HooksInvariance, PTL

(* The decision to stop for idleness falls when nobody works and no job is   *)
(* on its way.                                                               *)
THEOREM IdleStopsAtRest == HooksSpec => IdleStopOnlyAtRest
<1> DEFINE Quiet == /\ \A p \in Producers : prod'[p] = "off"
                    /\ \A j \in Jobs : ~InQueue(j)' /\ ~AtWorker(j)'
<1>1. HInv /\ HInv' => (idleCalls' > idleCalls => Quiet)
  <2> SUFFICES ASSUME HInv, HInv', idleCalls' > idleCalls PROVE Quiet OBVIOUS
  <2>1. idleCalls' > 0 /\ Out({"foreground", "drain", "child"})' = {}
    BY DEF HInv, IInv, TypeOK, IdleStopJustified
  <2>2. ASSUME NEW p \in Producers PROVE prod'[p] = "off"
    <3>1. prod'[p] # "off" => leases'[p] \in {Lease("foreground"), Lease("drain")}
      BY DEF HInv, ProducersHeld
    <3>2. leases'[p] \in {Lease("foreground"), Lease("drain")}
          => p \in Out({"foreground", "drain", "child"})'
      BY UnitsOf DEF Out, Lease
    <3> QED BY <2>1, <3>1, <3>2
  <2>3. ASSUME NEW j \in Jobs PROVE ~OnTheWay(j)'
    <3>1. j \notin Out({"drain", "child"})'
      BY <2>1 DEF Out
    <3> QED BY <2>1, <3>1 DEF HInv, JobsHeld
  <2> QED BY <2>2, <2>3 DEF OnTheWay
<1>2. HInv /\ HInv' => [idleCalls' > idleCalls => Quiet]_allVars
  BY <1>1
<1> QED BY <1>2, HooksInvariance, PTL DEF IdleStopOnlyAtRest
(* A job that was accepted is run, unless the shutdown's time is short and   *)
(* done is closed.                                                           *)
THEOREM ShutdownDrains == HooksSpec => GracefulDrain
<1> DEFINE Popped(j) == \E w \in Workers : work[w] = [at |-> "popped", job |-> j]
           Kept == \A j \in Jobs :
                      (InQueue(j) \/ \E w \in Workers : work[w] = [at |-> "popped", job |-> j])
                      /\ ~(InQueue(j) \/ AtWorker(j))' => done
<1>1. ASSUME HInv, HooksNext PROVE Kept
  <2>p. \A j \in Jobs : Popped(j) => AtWorker(j)
    BY DEF AtWorker
  <2>1. ASSUME UNCHANGED <<queue, work>> PROVE Kept
    BY <2>1, <2>p DEF InQueue, AtWorker
  <2>2. ASSUME NEW p \in Producers, Send(p) PROVE Kept
    <3>1. CASE queue' = queue
      BY <2>1, <2>2, <3>1 DEF Send
    <3>2. CASE queue' = Append(queue, slot[p])
      <4>1. slot[p] \in Jobs /\ queue \in Seq(Jobs)
        BY <1>1, <2>2 DEF Send, HInv, HooksTypeOK, OnePlace
      <4>2. \A j \in Jobs : InQueue(j) => InQueue(j)'
        BY <3>2, <4>1, Appended DEF InQueue, In
      <4>3. \A j \in Jobs : AtWorker(j) => AtWorker(j)'
        BY <2>2 DEF Send, AtWorker
      <4> QED BY <2>p, <4>2, <4>3
    <3> QED BY <2>2, <3>1, <3>2 DEF Send
  <2>3. ASSUME NEW w \in Workers, Pop(w) PROVE Kept
    <3>1. queue # <<>> /\ queue' = Tail(queue) /\ work[w].at = "idle" /\ work[w].job = Nobody
          /\ work' = [work EXCEPT ![w] = [at |-> "popped", job |-> Head(queue)]]
      BY <1>1, <2>3 DEF Pop, SetWork, HInv, OnePlace
    <3>2. queue \in Seq(Jobs) /\ Once(queue)
      BY <1>1 DEF HInv, HooksTypeOK, OnePlace, Once
    <3>3. \A j \in Jobs : InQueue(j) => InQueue(j)' \/ j = Head(queue)
      BY <3>1, <3>2, Received DEF InQueue, In
    <3>4. \E v \in Workers : work'[v].job = Head(queue)
      BY <1>1, <3>1 DEF AtWorker, HInv, HooksTypeOK
    <3>5. \A j \in Jobs : AtWorker(j) => AtWorker(j)'
      BY <1>1, <3>1, HooksAssumption DEF AtWorker, HInv, HooksTypeOK
    <3> QED BY <2>p, <3>3, <3>4, <3>5 DEF AtWorker
  <2>4. ASSUME NEW w \in Workers, Exit(w) \/ Run(w) PROVE Kept
    <3>1. queue' = queue /\ \A v \in Workers : work'[v].job = work[v].job
      BY <1>1, <2>4 DEF Exit, Run, SetWork, HInv, HooksTypeOK, OnePlace
    <3> QED BY <3>1, <2>p DEF InQueue, AtWorker
  <2>5. ASSUME NEW w \in Workers, DropPopped(w) PROVE Kept
    BY <2>5 DEF DropPopped
  <2>6. ASSUME NEW w \in Workers, EndRun(w) PROVE Kept
    <3>1. queue' = queue /\ work[w].at = "running"
          /\ work' = [work EXCEPT ![w] = [at |-> "idle", job |-> Nobody]]
      BY <2>6 DEF EndRun, SetWork
    <3>2. \A j \in Jobs : Popped(j) => AtWorker(j)'
      BY <1>1, <3>1 DEF AtWorker, HInv, HooksTypeOK
    <3> QED BY <3>1, <3>2 DEF InQueue
  <2>7. CASE ReleaseQueued
    BY <1>1, <2>7, HooksAssumption DEF ReleaseQueued, HInv, PoolOK
  <2>8. ASSUME NEW p \in Producers, NEW j \in Jobs, Acquire(p, j) \/ AcquireDenied(p, j) PROVE Kept
    BY <2>1, <2>8 DEF Acquire, AcquireDenied, ToSend, dispatcher
  <2>9. ASSUME NEW p \in Producers, BeginRequest(p) \/ BeginWork(p) \/ Finish(p) \/ Enqueue(p)
        PROVE Kept
    BY <2>1, <2>9 DEF BeginRequest, BeginWork, Begun, Finish, Enqueue, dispatcher
  <2>10. CASE Supervise \/ StartupFails \/ TriggerDrain \/ TriggerSeal \/ Ready \/ Idle \/ Exited
    BY <2>1, <2>10 DEF Supervise, StartupFails, TriggerDrain, TriggerSeal, Ready, Idle, Exited,
       allVars, hookVars, dispatcher
  <2>11. CASE \/ JoinWorkers \/ JoinHandlers \/ BeginClose \/ GiveUp \/ CloseQueue \/ Abort
              \/ FinishShutdown \/ ShutdownTimesOut
    BY <2>1, <2>11 DEF JoinWorkers, JoinHandlers, Join, BeginClose, GiveUp, CloseQueue, Abort,
       FinishShutdown, ShutdownTimesOut, dispatcher
  <2> QED BY <1>1, <2>2, <2>3, <2>4, <2>5, <2>6, <2>7, <2>8, <2>9, <2>10, <2>11
          DEF HooksNext, Step, Handoff, Pool, Coordinate, Producers
<1>2. HInv /\ [HooksNext]_allVars => [Kept]_allVars
  BY <1>1
<1> QED BY <1>2, HooksInvariance, PTL DEF HooksSpec, GracefulDrain
=============================================================================
