-------------------------- MODULE IssueSyncProofs --------------------------
(***************************************************************************)
(* Safety of IssueSync for any number of runs on a binding, of chunks and  *)
(* of incidents: one writer, a truthful cursor, and intents that are kept. *)
(***************************************************************************)
EXTENDS IssueSync, SequenceTheorems, FiniteSetTheorems, TLAPS

Modes == {"one-way", "two-way"}
Look == [status : Statuses, ver : Nat]
Run == [at : Places, mode : Modes, current : BOOLEAN, cursor : Nat, start : Nat, event : Nat,
        landed : BOOLEAN, seen : Look, chunk : 0 .. Chunks, err : Severities]

\* Variables have their types, versions are the tracker's, events were written.
TypesOK ==
    /\ remote \in Look
    /\ flight \subseteq [by : Runs, status : Statuses, age : 0 .. PatchLife]
    /\ binding \in [enabled : BOOLEAN, mode : Modes, cursor : 0 .. remote.ver]
    /\ claim \in Runs \cup {Nobody} /\ age \in 0 .. TTL
    /\ local \in [status : Statuses, at : 0 .. remote.ver]
    /\ intents \in Seq(Statuses)
    /\ observed \in 0 .. remote.ver /\ shown \in 0 .. remote.ver
    /\ imported \in [1 .. Chunks -> 0 .. remote.ver]
    /\ run \in [Runs -> Run]
    /\ \A r \in Runs : /\ run[r].event <= Len(intents)
                       /\ run[r].start <= remote.ver /\ run[r].seen.ver <= remote.ver

\* Only the last intent waits, and only while the binding is two-way.
PendingOK ==
    /\ pending \in {0, Len(intents)}
    /\ pending # 0 => binding.mode = "two-way"

Delivering == {"deliver", "admit", "patching", "sweep", "observe"}

\* A status pass has had no failure yet, knows its event while it writes, and
\* takes to be observed what shows the event delivered.
PassOK(r) ==
    /\ run[r].at \in Delivering => run[r].err = "none"
    /\ run[r].at \in {"admit", "patching"} => run[r].event # 0
    /\ run[r].event # 0 => run[r].at \in {"admit", "patching", "observe"}
    /\ run[r].landed => run[r].at = "patching"
    /\ run[r].at = "observe" /\ run[r].event # 0 => run[r].seen.status = intents[run[r].event]

\* What the run that sent a status write may do while the write is under way: wait
\* for it, or go on without an answer and keep the claim, or be dead.
Waits(r) ==
    \/ run[r].at = "patching" /\ ~run[r].landed
    \/ run[r].at = "off"
    \/ run[r].at \in {"prepare", "import", "record", "fail"} /\ run[r].err = "ambiguous"

\* A status write under way is the only one, was sent under the claim that is still
\* held, and before the horizon: it is gone when the claim can be taken over.
FlightOK ==
    /\ \A f, g \in flight : f = g
    /\ \A f \in flight : f.by = claim /\ age < f.age + Horizon /\ Waits(f.by)

\* A run whose copy of the binding is current goes by the binding's cursor and mode;
\* what it has imported is at least what it saw, which is at least what there was
\* when it started.
ContentOK(r) ==
    run[r].current =>
        /\ run[r].cursor = binding.cursor /\ run[r].mode = binding.mode
        /\ run[r].at = "import" =>
               /\ run[r].start <= run[r].seen.ver
               /\ run[r].chunk = 0 => run[r].seen.ver <= run[r].cursor
               /\ \A k \in 1 .. Chunks : k < run[r].chunk => imported[k] >= run[r].seen.ver
        /\ run[r].at = "record" => \A k \in 1 .. Chunks : imported[k] >= run[r].start

\* A sweep's look is not older than the delivery of the last intent.
LookOK(r) ==
    Fenced(r) /\ run[r].at = "observe" /\ run[r].event = 0 /\ pending = 0
        => run[r].seen.ver >= shown

IInv ==
    /\ TypesOK /\ PendingOK /\ FlightOK /\ CursorTruthful
    /\ \A r \in Runs : PassOK(r) /\ ContentOK(r) /\ LookOK(r)

-----------------------------------------------------------------------------
(* Operators                                                               *)

LEMMA RankOf ==
    /\ \A e \in Severities : Rank(e) \in 1 .. 4
    /\ Rank("ambiguous") = 4 /\ \A e \in Severities : Rank(e) = 4 => e = "ambiguous"
    /\ Severities = {"none", "blocked", "error", "ambiguous"}
<1>1. Severities = {"none", "blocked", "error", "ambiguous"}
  <2>1. \A n \in 1 .. 4 : n = 1 \/ n = 2 \/ n = 3 \/ n = 4
    OBVIOUS
  <2>2. 1 \in 1 .. 4 /\ 2 \in 1 .. 4 /\ 3 \in 1 .. 4 /\ 4 \in 1 .. 4
    OBVIOUS
  <2>3. Severity[1] = "none" /\ Severity[2] = "blocked" /\ Severity[3] = "error" /\ Severity[4] = "ambiguous"
    BY DEF Severity
  <2> QED BY <2>1, <2>2, <2>3 DEF Severities
<1>2. ASSUME NEW e \in Severities PROVE Rank(e) \in 1 .. 4 /\ Severity[Rank(e)] = e
  BY DEF Rank, Severities
<1>3. \A n \in 1 .. 4 : Severity[n] = "ambiguous" <=> n = 4
  BY DEF Severity
<1> QED BY <1>1, <1>2, <1>3 DEF Severity

\* An ambiguous failure outweighs every other, whichever came first.
LEMMA WorseIs ==
    ASSUME NEW r \in Runs, NEW e \in Severities, run[r].err \in Severities
    PROVE  /\ Worse(r, e) \in Severities
           /\ e = "ambiguous" \/ run[r].err = "ambiguous" => Worse(r, e) = "ambiguous"
BY RankOf DEF Worse

LEMMA MaxIs ==
    ASSUME NEW a \in Nat, NEW b \in Nat
    PROVE  Max({a, b}) \in {a, b} /\ Max({a, b}) >= a /\ Max({a, b}) >= b
<1>1. \E x \in {a, b} : \A y \in {a, b} : x >= y
  OBVIOUS
<1> QED BY <1>1 DEF Max

\* The variables a step of a run alone leaves as they are.
others == <<remote, flight, binding, claim, age, local, intents, pending, observed, imported, shown>>

\* A step of one run, and of nothing else.
LEMMA RunStep ==
    ASSUME IInv, NEW r \in Runs, NEW x \in Run, run' = [run EXCEPT ![r] = x], UNCHANGED others,
           x.event <= Len(intents), x.start <= remote.ver, x.seen.ver <= remote.ver,
           PassOK(r)', ContentOK(r)', LookOK(r)',
           (\E f \in flight : f.by = r) => Waits(r)'
    PROVE  IInv'
<1>1. run' \in [Runs -> Run] /\ run'[r] = x /\ \A q \in Runs \ {r} : run'[q] = run[q]
  BY DEF IInv, TypesOK
<1>2. TypesOK'
  BY <1>1 DEF IInv, TypesOK, others
<1>3. PendingOK' /\ CursorTruthful'
  BY DEF IInv, PendingOK, CursorTruthful, others
<1>4. FlightOK'
  <2>1. flight' = flight /\ claim' = claim /\ age' = age /\ \A f \in flight : f.by \in Runs
    BY DEF IInv, TypesOK, others
  <2>2. ASSUME NEW f \in flight PROVE Waits(f.by)'
    BY <1>1, <2>1, <2>2 DEF IInv, FlightOK, Waits
  <2> QED BY <2>1, <2>2 DEF IInv, FlightOK
<1>5. ASSUME NEW q \in Runs PROVE PassOK(q)' /\ ContentOK(q)' /\ LookOK(q)'
  <2>1. CASE q = r
    BY <2>1
  <2>2. CASE q # r
    <3>1. run'[q] = run[q]
      BY <1>1, <2>2
    <3>2. PassOK(q) /\ ContentOK(q) /\ LookOK(q)
      BY DEF IInv
    <3> QED BY <3>1, <3>2 DEF PassOK, ContentOK, LookOK, Fenced, others
  <2> QED BY <2>1, <2>2
<1> QED BY <1>2, <1>3, <1>4, <1>5 DEF IInv

\* A run has its type, and its failure is one of the four.
LEMMA RunTyped ==
    ASSUME IInv, NEW r \in Runs
    PROVE  /\ run[r] \in Run /\ run[r].err \in Severities /\ run[r].seen \in Look
           /\ run[r].event <= Len(intents) /\ run[r].start <= remote.ver
           /\ run[r].seen.ver <= remote.ver
           /\ remote \in Look /\ remote.ver \in Nat /\ Len(intents) \in Nat
           /\ PassOK(r) /\ ContentOK(r) /\ LookOK(r)
BY DEF IInv, TypesOK, Run, Look

LEMMA NoRunTyped ==
    /\ NoRun \in Run /\ NoRun.seen \in Look /\ NoRun.seen.ver = 0 /\ NoRun.at = "off"
    /\ NoRun.current = FALSE /\ NoRun.event = 0 /\ NoRun.landed = FALSE /\ NoRun.start = 0
<1>1. NoRun.seen \in Look /\ NoRun.seen.ver = 0
  BY DEF NoRun, Look, Statuses
<1>2. 0 \in 0 .. Chunks
  BY RunsAssumption
<1> QED BY <1>1, <1>2, RankOf DEF NoRun, Run, Modes, Places

\* The end of a status pass: a write that may be under way leaves it ambiguous.
LEMMA PassEnds ==
    ASSUME IInv, NEW r \in Runs, NEW e \in Severities, EndPass(r, e), UNCHANGED others,
           (\E f \in flight : f.by = r) => e = "ambiguous"
    PROVE  IInv'
<1> DEFINE x == [run[r] EXCEPT !.at = "prepare", !.err = Worse(r, e), !.event = 0,
                               !.landed = FALSE, !.seen = NoRun.seen]
<1>1. run' = [run EXCEPT ![r] = x]
  BY DEF EndPass, IInv, TypesOK
<1>2. /\ x \in Run /\ x.event = 0 /\ x.start = run[r].start /\ x.seen.ver = 0 /\ x.at = "prepare"
      /\ x.err = Worse(r, e) /\ x.landed = FALSE /\ x.current = run[r].current
      /\ x.cursor = run[r].cursor /\ x.mode = run[r].mode
  BY RunTyped, WorseIs, NoRunTyped DEF Run, Places
<1>3. run'[r] = x
  BY <1>1 DEF IInv, TypesOK
<1> HIDE DEF x
<1>4. PassOK(r)'
  BY <1>2, <1>3 DEF PassOK, Delivering
<1>5. ContentOK(r)' /\ LookOK(r)'
  BY <1>2, <1>3, RunTyped DEF ContentOK, LookOK, others
<1>6. (\E f \in flight : f.by = r) => Waits(r)'
  BY <1>2, <1>3, WorseIs, RunTyped DEF Waits
<1>7. x.event <= Len(intents) /\ x.start <= remote.ver /\ x.seen.ver <= remote.ver
  BY <1>2, RunTyped DEF Look
<1> QED BY <1>1, <1>2, <1>4, <1>5, <1>6, <1>7, RunStep

-----------------------------------------------------------------------------
(* The initial states.                                                     *)

LEMMA InitOK == Init => IInv
<1> SUFFICES ASSUME Init PROVE IInv
  OBVIOUS
<1>1. run = [r \in Runs |-> NoRun] /\ flight = {} /\ intents = <<>> /\ pending = 0
  BY DEF Init
<1>2. \A r \in Runs : run[r] = NoRun
  BY <1>1
<1>3. Len(intents) = 0 /\ intents \in Seq(Statuses)
  BY <1>1, EmptySeq
<1>4. remote.ver = 1 /\ remote \in Look
  BY DEF Init, Look, Statuses
<1>5. TypesOK
  <2>1. binding \in [enabled : BOOLEAN, mode : Modes, cursor : 0 .. remote.ver]
    <3>1. TRUE \in BOOLEAN /\ 1 \in 0 .. remote.ver
      BY <1>4
    <3> QED BY <3>1 DEF Init, Modes
  <2>2. local \in [status : Statuses, at : 0 .. remote.ver]
    BY <1>4 DEF Init, Statuses
  <2>3. imported \in [1 .. Chunks -> 0 .. remote.ver] /\ observed \in 0 .. remote.ver
        /\ shown \in 0 .. remote.ver
    BY <1>4 DEF Init
  <2>4. claim \in Runs \cup {Nobody} /\ age \in 0 .. TTL
    BY HorizonAssumption DEF Init
  <2>5. run \in [Runs -> Run]
    BY <1>1, NoRunTyped
  <2> QED BY <1>1, <1>2, <1>3, <1>4, <2>1, <2>2, <2>3, <2>4, <2>5, NoRunTyped DEF TypesOK
<1>6. PendingOK /\ FlightOK
  BY <1>1 DEF PendingOK, FlightOK
<1>7. CursorTruthful
  BY DEF Init, CursorTruthful
<1>8. ASSUME NEW r \in Runs PROVE PassOK(r) /\ ContentOK(r) /\ LookOK(r)
  BY <1>2, NoRunTyped DEF PassOK, ContentOK, LookOK, Delivering, Fenced
<1> QED BY <1>5, <1>6, <1>7, <1>8 DEF IInv

-----------------------------------------------------------------------------
(* The status pass.                                                        *)

\* A run has nothing under way where it does not wait.
LEMMA NothingSent ==
    ASSUME IInv, NEW r \in Runs, run[r].at \in {"deliver", "admit", "sweep", "observe"}
    PROVE  ~\E f \in flight : f.by = r
BY DEF IInv, FlightOK, Waits

LEMMA OthersIs ==
    /\ UNCHANGED <<source, fence, mapping, imported>> => UNCHANGED others
    /\ StatusOnly => UNCHANGED others
BY DEF source, fence, mapping, others, StatusOnly

LEMMA DeliverOK == ASSUME IInv, NEW r \in Runs, Deliver(r) PROVE IInv'
<1>1. UNCHANGED others /\ At(r, "deliver") /\ run[r].at = "deliver" /\ ~\E f \in flight : f.by = r
  BY OthersIs, NothingSent DEF Deliver, At
<1>2. CASE EndPass(r, "error")
  BY <1>1, <1>2, RankOf, PassEnds
<1>3. CASE Go(r, "sweep")
  <2> DEFINE x == [run[r] EXCEPT !.at = "sweep"]
  <2>1. run' = [run EXCEPT ![r] = x] /\ run'[r] = x
    BY <1>3 DEF Go, IInv, TypesOK
  <2>2. x \in Run /\ x.event <= Len(intents) /\ x.start <= remote.ver /\ x.seen.ver <= remote.ver
    BY RunTyped DEF Run, Places
  <2>3. PassOK(r)' /\ ContentOK(r)' /\ LookOK(r)'
    BY <1>1, <2>1, RunTyped DEF PassOK, ContentOK, LookOK, Delivering, others, Run
  <2> QED BY <1>1, <2>1, <2>2, <2>3, RunStep
<1>4. ASSUME pending # 0, remote.status = intents[pending],
             run' = [run EXCEPT ![r].at = "observe", ![r].event = pending, ![r].seen = remote]
      PROVE  IInv'
  <2> DEFINE x == [run[r] EXCEPT !.at = "observe", !.event = pending, !.seen = remote]
  <2>1. run' = [run EXCEPT ![r] = x] /\ run'[r] = x
    BY <1>4 DEF IInv, TypesOK
  <2>2. pending = Len(intents)
    BY <1>4 DEF IInv, PendingOK
  <2>3. x \in Run
    BY <2>2, RunTyped DEF Run, Places
  <2>4. /\ x.at = "observe" /\ x.event = pending /\ x.seen = remote /\ x.err = run[r].err
        /\ x.landed = run[r].landed /\ x.current = run[r].current /\ x.cursor = run[r].cursor
        /\ x.mode = run[r].mode /\ x.start = run[r].start
      /\ x.event <= Len(intents) /\ x.start <= remote.ver /\ x.seen.ver <= remote.ver
    BY <2>2, RunTyped DEF Run
  <2> HIDE DEF x
  <2>5. PassOK(r)' /\ ContentOK(r)' /\ LookOK(r)'
    BY <1>1, <1>4, <2>1, <2>4, RunTyped DEF PassOK, ContentOK, LookOK, Delivering, others
  <2> QED BY <1>1, <2>1, <2>3, <2>4, <2>5, RunStep
<1>5. ASSUME pending # 0, run' = [run EXCEPT ![r].at = "admit", ![r].event = pending]
      PROVE  IInv'
  <2> DEFINE x == [run[r] EXCEPT !.at = "admit", !.event = pending]
  <2>1. run' = [run EXCEPT ![r] = x] /\ run'[r] = x
    BY <1>5 DEF IInv, TypesOK
  <2>2. pending = Len(intents)
    BY <1>5 DEF IInv, PendingOK
  <2>3. x \in Run
    BY <2>2, RunTyped DEF Run, Places
  <2>4. /\ x.at = "admit" /\ x.event = pending /\ x.err = run[r].err
        /\ x.landed = run[r].landed /\ x.current = run[r].current /\ x.cursor = run[r].cursor
        /\ x.mode = run[r].mode /\ x.start = run[r].start
      /\ x.event <= Len(intents) /\ x.start <= remote.ver /\ x.seen.ver <= remote.ver
    BY <2>2, RunTyped DEF Run
  <2> HIDE DEF x
  <2>5. PassOK(r)' /\ ContentOK(r)' /\ LookOK(r)'
    BY <1>1, <1>5, <2>1, <2>4, RunTyped DEF PassOK, ContentOK, LookOK, Delivering, others
  <2> QED BY <1>1, <2>1, <2>3, <2>4, <2>5, RunStep
<1> QED BY <1>2, <1>3, <1>4, <1>5 DEF Deliver

LEMMA ReadFailsOK == ASSUME IInv, NEW r \in Runs, ReadFails(r) PROVE IInv'
BY OthersIs, NothingSent, RankOf, PassEnds DEF ReadFails

LEMMA VerifyOK == ASSUME IInv, NEW r \in Runs, Verify(r) PROVE IInv'
<1>1. UNCHANGED others /\ run[r].at = "patching" /\ run[r].landed
  BY OthersIs DEF Verify, At
<1>2. CASE EndPass(r, "ambiguous")
  BY <1>1, <1>2, RankOf, PassEnds
<1>3. ASSUME remote.status = Desired(r),
             run' = [run EXCEPT ![r].at = "observe", ![r].seen = remote, ![r].landed = FALSE]
      PROVE  IInv'
  <2> DEFINE x == [run[r] EXCEPT !.at = "observe", !.seen = remote, !.landed = FALSE]
  <2>1. run' = [run EXCEPT ![r] = x] /\ run'[r] = x
    BY <1>3 DEF IInv, TypesOK
  <2>2. x \in Run
    BY RunTyped DEF Run, Places
  <2>3. /\ x.at = "observe" /\ x.event = run[r].event /\ x.seen = remote /\ x.err = run[r].err
        /\ x.landed = FALSE /\ x.current = run[r].current /\ x.cursor = run[r].cursor
        /\ x.mode = run[r].mode /\ x.start = run[r].start
      /\ x.event <= Len(intents) /\ x.start <= remote.ver /\ x.seen.ver <= remote.ver
    BY RunTyped DEF Run
  <2> HIDE DEF x
  <2>4. run[r].event # 0 /\ run[r].err = "none"
    BY <1>1, RunTyped DEF PassOK, Delivering
  <2>5. PassOK(r)' /\ ContentOK(r)' /\ LookOK(r)'
    BY <1>1, <1>3, <2>1, <2>3, <2>4, RunTyped DEF PassOK, ContentOK, LookOK, Delivering, others, Desired
  <2>6. ~\E f \in flight : f.by = r
    BY <1>1 DEF IInv, FlightOK, Waits
  <2> QED BY <1>1, <2>1, <2>2, <2>3, <2>5, <2>6, RunStep
<1> QED BY <1>2, <1>3 DEF Verify

LEMMA UnansweredOK == ASSUME IInv, NEW r \in Runs, Unanswered(r) PROVE IInv'
BY OthersIs, RankOf, PassEnds DEF Unanswered

LEMMA SweepOK == ASSUME IInv, NEW r \in Runs, Sweep(r) PROVE IInv'
<1>1. UNCHANGED others /\ run[r].at = "sweep" /\ ~\E f \in flight : f.by = r
  BY OthersIs, NothingSent DEF Sweep, At
<1>2. CASE EndPass(r, "error") \/ EndPass(r, "none")
  BY <1>1, <1>2, RankOf, PassEnds
<1>3. ASSUME Fenced(r), pending = 0,
             run' = [run EXCEPT ![r].at = "observe", ![r].seen = remote]
      PROVE  IInv'
  <2> DEFINE x == [run[r] EXCEPT !.at = "observe", !.seen = remote]
  <2>1. run' = [run EXCEPT ![r] = x] /\ run'[r] = x
    BY <1>3 DEF IInv, TypesOK
  <2>2. x \in Run
    BY RunTyped DEF Run, Places
  <2>3. /\ x.at = "observe" /\ x.event = run[r].event /\ x.seen = remote /\ x.err = run[r].err
        /\ x.landed = run[r].landed /\ x.current = run[r].current /\ x.cursor = run[r].cursor
        /\ x.mode = run[r].mode /\ x.start = run[r].start
      /\ x.event <= Len(intents) /\ x.start <= remote.ver /\ x.seen.ver <= remote.ver
    BY RunTyped DEF Run
  <2> HIDE DEF x
  <2>4. shown <= remote.ver /\ run[r].err = "none" /\ ~run[r].landed /\ run[r].event = 0
    BY <1>1, RunTyped DEF PassOK, Delivering, IInv, TypesOK
  <2>5. ContentOK(r)' /\ LookOK(r)'
    BY <1>1, <2>1, <2>3, <2>4, RunTyped DEF ContentOK, LookOK, others
  <2>6. PassOK(r)'
    BY <1>1, <2>1, <2>3, <2>4 DEF PassOK, others
  <2> QED BY <1>1, <2>1, <2>2, <2>3, <2>5, <2>6, RunStep
<1> QED BY <1>2, <1>3 DEF Sweep

\* The type of a run and its bounds, where only the runs change.
LEMMA TypesRun ==
    ASSUME IInv, run' \in [Runs -> Run], UNCHANGED <<remote, binding, local, intents, observed>>,
           UNCHANGED <<shown, imported, claim, age>>,
           flight' \subseteq [by : Runs, status : Statuses, age : 0 .. PatchLife],
           \A q \in Runs : /\ run'[q].event <= Len(intents)
                           /\ run'[q].start <= remote.ver /\ run'[q].seen.ver <= remote.ver
    PROVE  TypesOK'
BY DEF IInv, TypesOK

LEMMA AdmitOK == ASSUME IInv, NEW r \in Runs, Admit(r) PROVE IInv'
<1>1. run[r].at = "admit" /\ ~\E f \in flight : f.by = r
  BY NothingSent DEF Admit, At
<1>2. CASE flight' = flight /\ (EndPass(r, "error") \/ EndPass(r, "none"))
  <2>1. UNCHANGED others
    BY <1>2 DEF Admit, others, fence, mapping
  <2> QED BY <1>1, <1>2, <2>1, RankOf, PassEnds
<1>3. ASSUME MaySend, Fenced(r), pending = run[r].event, flight' = flight \cup {Write(r)},
             run' = [run EXCEPT ![r].at = "patching", ![r].landed = FALSE]
      PROVE  IInv'
  <2> DEFINE x == [run[r] EXCEPT !.at = "patching", !.landed = FALSE]
  <2>1. /\ run' = [run EXCEPT ![r] = x] /\ run'[r] = x
        /\ \A q \in Runs \ {r} : run'[q] = run[q]
    BY <1>3 DEF IInv, TypesOK
  <2>2. x \in Run
    BY RunTyped DEF Run, Places
  <2>3. /\ x.at = "patching" /\ x.event = run[r].event /\ x.seen = run[r].seen
        /\ x.err = run[r].err /\ x.landed = FALSE /\ x.current = run[r].current
        /\ x.cursor = run[r].cursor /\ x.mode = run[r].mode /\ x.start = run[r].start
    BY RunTyped DEF Run
  <2> HIDE DEF x
  <2>4. UNCHANGED <<remote, binding, claim, age, local, intents, pending, observed, imported, shown>>
    BY DEF Admit, fence, mapping
  <2>5. Write(r) = [by |-> r, status |-> Desired(r), age |-> 0]
    BY DEF Write
  <2>6. Desired(r) \in Statuses
    <3>1. run[r].event \in 1 .. Len(intents)
      BY <1>1, RunTyped DEF PassOK, Run
    <3> QED BY <3>1 DEF Desired, IInv, TypesOK
  <2>7. TypesOK'
    <3>1. run' \in [Runs -> Run]
      BY <2>1, <2>2 DEF IInv, TypesOK
    <3>2. Write(r) \in [by : Runs, status : Statuses, age : 0 .. PatchLife]
      BY <2>5, <2>6, HorizonAssumption
    <3>3. ASSUME NEW q \in Runs
          PROVE  /\ run'[q].event <= Len(intents)
                 /\ run'[q].start <= remote.ver /\ run'[q].seen.ver <= remote.ver
      BY <2>1, <2>3, RunTyped
    <3> QED BY <1>3, <2>4, <3>1, <3>2, <3>3, TypesRun DEF IInv, TypesOK
  <2>8. PendingOK' /\ CursorTruthful'
    BY <2>4 DEF IInv, PendingOK, CursorTruthful
  <2>9. FlightOK'
    <3>1. claim = r
      BY <1>3 DEF Fenced
    <3>2. flight = {}
      BY <1>1, <3>1 DEF IInv, FlightOK
    <3>3. flight' = {Write(r)} /\ Write(r).by = r /\ Write(r).age = 0
      BY <1>3, <2>5, <3>2
    <3>4. claim' = r /\ age' < 0 + Horizon
      BY <1>3, <2>4, <3>1, HorizonAssumption DEF MaySend, IInv, TypesOK
    <3>5. Waits(r)'
      BY <2>1, <2>3 DEF Waits
    <3> QED BY <3>3, <3>4, <3>5 DEF FlightOK
  <2>10. ASSUME NEW q \in Runs PROVE PassOK(q)' /\ ContentOK(q)' /\ LookOK(q)'
    <3>1. CASE q = r
      BY <1>1, <2>1, <2>3, <2>4, <3>1, RunTyped DEF PassOK, ContentOK, LookOK, Delivering
    <3>2. CASE q # r
      BY <2>1, <2>4, <3>2, RunTyped DEF PassOK, ContentOK, LookOK, Fenced
    <3> QED BY <3>1, <3>2
  <2> QED BY <2>7, <2>8, <2>9, <2>10 DEF IInv
<1> QED BY <1>2, <1>3 DEF Admit

LEMMA RefusedOK == ASSUME IInv, NEW r \in Runs, Refused(r) PROVE IInv'
<1>1. PICK e \in {"blocked", "error"} : EndPass(r, e)
  BY DEF Refused
<1> DEFINE x == [run[r] EXCEPT !.at = "prepare", !.err = Worse(r, e), !.event = 0,
                               !.landed = FALSE, !.seen = NoRun.seen]
<1>2. /\ run' = [run EXCEPT ![r] = x] /\ run'[r] = x
      /\ \A q \in Runs \ {r} : run'[q] = run[q]
  BY <1>1 DEF EndPass, IInv, TypesOK
<1>3. /\ x \in Run /\ x.event = 0 /\ x.start = run[r].start /\ x.seen.ver = 0 /\ x.at = "prepare"
      /\ x.landed = FALSE /\ x.current = run[r].current
      /\ x.cursor = run[r].cursor /\ x.mode = run[r].mode
  BY RunTyped, WorseIs, NoRunTyped, RankOf DEF Run, Places
<1> HIDE DEF x
<1>4. /\ UNCHANGED <<remote, binding, claim, age, local, intents, pending, observed, imported, shown>>
      /\ flight' = {}
  <2>1. PICK f \in flight : f.by = r
    BY DEF Refused, UnderWay
  <2>2. \A g \in flight : g.by = r
    BY <2>1 DEF IInv, FlightOK
  <2> QED BY <2>2 DEF Refused, fence, mapping
<1>5. TypesOK'
  <2>1. run' \in [Runs -> Run]
    BY <1>2, <1>3 DEF IInv, TypesOK
  <2>2. ASSUME NEW q \in Runs
        PROVE  /\ run'[q].event <= Len(intents)
               /\ run'[q].start <= remote.ver /\ run'[q].seen.ver <= remote.ver
    BY <1>2, <1>3, RunTyped
  <2> QED BY <1>4, <2>1, <2>2, TypesRun
<1>6. PendingOK' /\ CursorTruthful' /\ FlightOK'
  BY <1>4 DEF IInv, PendingOK, CursorTruthful, FlightOK
<1>7. ASSUME NEW q \in Runs PROVE PassOK(q)' /\ ContentOK(q)' /\ LookOK(q)'
  <2>1. CASE q = r
    BY <1>2, <1>3, <1>4, <2>1, RunTyped DEF PassOK, ContentOK, LookOK, Delivering
  <2>2. CASE q # r
    BY <1>2, <1>4, <2>2, RunTyped DEF PassOK, ContentOK, LookOK, Fenced
  <2> QED BY <2>1, <2>2
<1> QED BY <1>5, <1>6, <1>7 DEF IInv

\* Only the run that holds the claim observes, so that no other's look is affected.
LEMMA ObserveOK == ASSUME IInv, NEW r \in Runs, Observe(r) PROVE IInv'
<1>1. /\ run[r].at = "observe" /\ ~\E f \in flight : f.by = r
      /\ UNCHANGED <<remote, flight, binding, claim, age, imported, shown>>
  BY NothingSent DEF Observe, At, source, fence
<1>2. CASE (EndPass(r, "error") \/ EndPass(r, "none")) /\ UNCHANGED mapping
  BY <1>1, <1>2, RankOf, PassEnds DEF others, mapping
<1>3. ASSUME Fenced(r), EndPass(r, "none"), observed' = run[r].seen.ver,
             pending' = IF Services(r) THEN 0 ELSE pending,
             local' = IF Applies(r) THEN [local EXCEPT !.status = run[r].seen.status] ELSE local,
             UNCHANGED intents
      PROVE  IInv'
  <2> DEFINE x == [run[r] EXCEPT !.at = "prepare", !.err = Worse(r, "none"), !.event = 0,
                                 !.landed = FALSE, !.seen = NoRun.seen]
  <2>1. /\ run' = [run EXCEPT ![r] = x] /\ run'[r] = x
        /\ \A q \in Runs \ {r} : run'[q] = run[q]
    BY <1>3 DEF EndPass, IInv, TypesOK
  <2>2. /\ x \in Run /\ x.event = 0 /\ x.start = run[r].start /\ x.seen.ver = 0 /\ x.at = "prepare"
        /\ x.landed = FALSE /\ x.current = run[r].current
        /\ x.cursor = run[r].cursor /\ x.mode = run[r].mode
    BY RunTyped, WorseIs, NoRunTyped, RankOf DEF Run, Places
  <2> HIDE DEF x
  <2>3. TypesOK'
    <3>1. run' \in [Runs -> Run]
      BY <2>1, <2>2 DEF IInv, TypesOK
    <3>2. ASSUME NEW q \in Runs
          PROVE  /\ run'[q].event <= Len(intents)
                 /\ run'[q].start <= remote.ver /\ run'[q].seen.ver <= remote.ver
      BY <2>1, <2>2, RunTyped
    <3>3. observed' \in 0 .. remote.ver
      BY <1>3, RunTyped DEF Look
    <3>4. local' \in [status : Statuses, at : 0 .. remote.ver]
      BY <1>3, RunTyped DEF Look, IInv, TypesOK
    <3> QED BY <1>1, <1>3, <3>1, <3>2, <3>3, <3>4 DEF IInv, TypesOK
  <2>4. PendingOK' /\ CursorTruthful'
    BY <1>1, <1>3 DEF IInv, PendingOK, CursorTruthful
  <2>5. FlightOK'
    <3>1. claim = r
      BY <1>3 DEF Fenced
    <3>2. flight' = {}
      BY <1>1, <3>1 DEF IInv, FlightOK
    <3> QED BY <3>2 DEF FlightOK
  <2>6. ASSUME NEW q \in Runs PROVE PassOK(q)' /\ ContentOK(q)' /\ LookOK(q)'
    <3>1. CASE q = r
      BY <1>1, <2>1, <2>2, <3>1, RunTyped DEF PassOK, ContentOK, LookOK, Delivering
    <3>2. CASE q # r
      BY <1>1, <1>3, <2>1, <3>2, RunTyped DEF PassOK, ContentOK, LookOK, Fenced
    <3> QED BY <3>1, <3>2
  <2> QED BY <2>3, <2>4, <2>5, <2>6 DEF IInv
<1> QED BY <1>2, <1>3 DEF Observe

-----------------------------------------------------------------------------
(* Content.                                                                *)

\* An update of the binding by r changes of the runs only whose copy is current.
LEMMA UpdatedIs ==
    ASSUME IInv, NEW r, run' = Updated(r)
    PROVE  /\ run' \in [Runs -> Run]
           /\ \A q \in Runs :
                 /\ q = r => run'[q] = run[q]
                 /\ q # r => ~run'[q].current
                 /\ run'[q].at = run[q].at /\ run'[q].mode = run[q].mode
                 /\ run'[q].cursor = run[q].cursor /\ run'[q].start = run[q].start
                 /\ run'[q].event = run[q].event /\ run'[q].landed = run[q].landed
                 /\ run'[q].seen = run[q].seen /\ run'[q].err = run[q].err
<1>1. ASSUME NEW q \in Runs
      PROVE  /\ run'[q] = IF q = r THEN run[q] ELSE [run[q] EXCEPT !.current = FALSE]
             /\ run[q] \in Run /\ [run[q] EXCEPT !.current = FALSE] \in Run
             /\ [run[q] EXCEPT !.current = FALSE].current = FALSE
  BY RunTyped DEF Updated, Run
<1>2. run' = [q \in Runs |-> run'[q]]
  BY DEF Updated
<1>3. run' \in [Runs -> Run]
  BY <1>1, <1>2
<1>4. ASSUME NEW q \in Runs
      PROVE  /\ run'[q].at = run[q].at /\ run'[q].mode = run[q].mode
             /\ run'[q].cursor = run[q].cursor /\ run'[q].start = run[q].start
             /\ run'[q].event = run[q].event /\ run'[q].landed = run[q].landed
             /\ run'[q].seen = run[q].seen /\ run'[q].err = run[q].err
  BY <1>1 DEF Run
<1> QED BY <1>1, <1>3, <1>4

\* A failure of the content ends in the report of it; a status write that may be
\* under way leaves the run ambiguous.
LEMMA ContentFails ==
    ASSUME IInv, NEW r \in Runs, run[r].at \in {"prepare", "import", "record"}, UNCHANGED others,
           run' = [run EXCEPT ![r].at = "fail", ![r].err = Worse(r, "error")]
    PROVE  IInv'
<1> DEFINE x == [run[r] EXCEPT !.at = "fail", !.err = Worse(r, "error")]
<1>1. run' = [run EXCEPT ![r] = x] /\ run'[r] = x
  BY DEF IInv, TypesOK
<1>2. x \in Run
  BY RunTyped, WorseIs, RankOf DEF Run, Places
<1>3. /\ x.at = "fail" /\ x.event = run[r].event /\ x.seen = run[r].seen
      /\ x.err = Worse(r, "error") /\ x.landed = run[r].landed /\ x.current = run[r].current
      /\ x.cursor = run[r].cursor /\ x.mode = run[r].mode /\ x.start = run[r].start
  BY RunTyped DEF Run
<1> HIDE DEF x
<1>4. PassOK(r)' /\ ContentOK(r)' /\ LookOK(r)'
  BY <1>1, <1>3, RunTyped DEF PassOK, ContentOK, LookOK, Delivering, others
<1>5. (\E f \in flight : f.by = r) => Waits(r)'
  <2>1. (\E f \in flight : f.by = r) => run[r].err = "ambiguous"
    BY DEF IInv, FlightOK, Waits
  <2> QED BY <1>1, <1>3, <2>1, WorseIs, RankOf, RunTyped DEF Waits
<1> QED BY <1>1, <1>2, <1>3, <1>4, <1>5, RunTyped, RunStep

LEMMA RefreshOK == ASSUME IInv, NEW r \in Runs, Refresh(r) PROVE IInv'
<1>1. UNCHANGED others /\ run[r].at \in {"prepare", "record"}
  BY OthersIs DEF Refresh
<1>2. CASE run' = [run EXCEPT ![r].at = "fail", ![r].err = Worse(r, "error")]
  BY <1>1, <1>2, ContentFails
<1>3. CASE run' = Updated(r)
  <2>1. TypesOK' /\ PendingOK' /\ CursorTruthful'
    BY <1>1, <1>3, UpdatedIs, RunTyped, TypesRun DEF others, IInv, PendingOK, CursorTruthful, TypesOK
  <2>2. FlightOK'
    <3>1. ASSUME NEW f \in flight PROVE Waits(f.by)'
      BY <1>3, <3>1, UpdatedIs DEF IInv, FlightOK, Waits, TypesOK
    <3> QED BY <1>1, <3>1 DEF IInv, FlightOK, others
  <2>3. ASSUME NEW q \in Runs PROVE PassOK(q)' /\ ContentOK(q)' /\ LookOK(q)'
    <3>1. PassOK(q)'
      BY <1>1, <1>3, UpdatedIs, RunTyped DEF PassOK, others
    <3>2. ContentOK(q)' /\ LookOK(q)'
      BY <1>1, <1>3, UpdatedIs, RunTyped DEF ContentOK, LookOK, Fenced, others
    <3> QED BY <3>1, <3>2
  <2> QED BY <2>1, <2>2, <2>3 DEF IInv
<1> QED BY <1>2, <1>3 DEF Refresh

LEMMA PrepareOK == ASSUME IInv, NEW r \in Runs, Prepare(r) PROVE IInv'
<1>1. UNCHANGED others /\ run[r].at = "prepare"
  BY OthersIs DEF Prepare, At
<1> DEFINE c == IF remote.ver > run[r].cursor THEN 1 ELSE 0
           x == [run[r] EXCEPT !.at = "import", !.seen = remote, !.chunk = c]
<1>2. run' = [run EXCEPT ![r] = x] /\ run'[r] = x
  BY DEF Prepare, IInv, TypesOK
<1>3. c \in 0 .. Chunks /\ c <= 1 /\ (c = 0 => remote.ver <= run[r].cursor)
  BY RunsAssumption, RunTyped DEF Run
<1>4. c \in Nat
  BY <1>3
<1> HIDE DEF c
<1>5. x \in Run
  BY <1>3, RunTyped DEF Run, Places
<1>6. /\ x.at = "import" /\ x.event = run[r].event /\ x.seen = remote
      /\ x.err = run[r].err /\ x.landed = run[r].landed /\ x.current = run[r].current
      /\ x.cursor = run[r].cursor /\ x.mode = run[r].mode /\ x.start = run[r].start
      /\ x.chunk = c
  BY RunTyped DEF Run
<1> HIDE DEF x
<1>7. PassOK(r)' /\ LookOK(r)'
  BY <1>1, <1>2, <1>6, RunTyped DEF PassOK, LookOK, Delivering, others
<1>8. ContentOK(r)'
  <2>1. \A k \in 1 .. Chunks : ~(k < c)
    BY <1>3, <1>4
  <2> QED BY <1>1, <1>2, <1>3, <1>6, <2>1, RunTyped DEF ContentOK, others
<1>9. (\E f \in flight : f.by = r) => Waits(r)'
  BY <1>1, <1>2, <1>6 DEF IInv, FlightOK, Waits
<1>10. x.event <= Len(intents) /\ x.start <= remote.ver /\ x.seen.ver <= remote.ver
  BY <1>6, RunTyped
<1> QED BY <1>1, <1>2, <1>5, <1>7, <1>8, <1>9, <1>10, RunStep

LEMMA PrepareFailsOK == ASSUME IInv, NEW r \in Runs, PrepareFails(r) PROVE IInv'
BY OthersIs, ContentFails DEF PrepareFails, At

LEMMA ImportOK == ASSUME IInv, NEW r \in Runs, Import(r) PROVE IInv'
<1>1. /\ run[r].at = "import"
      /\ UNCHANGED <<remote, flight, binding, claim, age, intents, pending, observed, shown>>
  BY DEF Import, At, source, fence
<1>2. CASE /\ run' = [run EXCEPT ![r].at = "fail", ![r].err = Worse(r, "error")]
           /\ UNCHANGED <<local, imported>>
  BY <1>1, <1>2, ContentFails DEF others
<1>3. ASSUME Fenced(r), run[r].chunk = 0, Go(r, "record"), UNCHANGED <<local, imported>>
      PROVE  IInv'
  <2> DEFINE x == [run[r] EXCEPT !.at = "record"]
  <2>1. run' = [run EXCEPT ![r] = x] /\ run'[r] = x
    BY <1>3 DEF Go, IInv, TypesOK
  <2>2. x \in Run
    BY RunTyped DEF Run, Places
  <2>3. /\ x.at = "record" /\ x.event = run[r].event /\ x.seen = run[r].seen
        /\ x.err = run[r].err /\ x.landed = run[r].landed /\ x.current = run[r].current
        /\ x.cursor = run[r].cursor /\ x.mode = run[r].mode /\ x.start = run[r].start
    BY RunTyped DEF Run
  <2> HIDE DEF x
  <2>4. PassOK(r)' /\ LookOK(r)'
    BY <1>1, <1>3, <2>1, <2>3, RunTyped DEF PassOK, LookOK, Delivering, others
  <2>5. ContentOK(r)'
    <3>1. ASSUME NEW k \in 1 .. Chunks PROVE imported[k] >= run[r].start
      <4>1. run[r].start <= run[r].seen.ver /\ run[r].seen.ver <= binding.cursor
        BY <1>1, <1>3, RunTyped DEF ContentOK, Fenced
      <4>2. imported[k] >= binding.cursor /\ imported[k] \in Nat /\ binding.cursor \in Nat
        BY RunTyped DEF IInv, TypesOK, CursorTruthful
      <4> QED BY <4>1, <4>2, RunTyped DEF Run, Look
    <3> QED BY <1>1, <1>3, <2>1, <2>3, <3>1, RunTyped DEF ContentOK
  <2>6. (\E f \in flight : f.by = r) => Waits(r)'
    BY <1>1, <2>1, <2>3 DEF IInv, FlightOK, Waits
  <2>7. UNCHANGED others
    BY <1>1, <1>3 DEF others
  <2> QED BY <2>1, <2>2, <2>3, <2>4, <2>5, <2>6, <2>7, RunTyped, RunStep
<1>4. ASSUME Fenced(r), run[r].chunk > 0,
             imported' = [imported EXCEPT ![run[r].chunk] = Max({@, run[r].seen.ver})],
             local' = IF run[r].chunk = 1 /\ Newer(r) THEN Merged(r) ELSE local,
             run' = IF LastChunk(r) THEN [run EXCEPT ![r].at = "record"]
                                    ELSE [run EXCEPT ![r].chunk = @ + 1]
      PROVE  IInv'
  <2> DEFINE n == run[r].chunk
             v == run[r].seen.ver
             x == IF LastChunk(r) THEN [run[r] EXCEPT !.at = "record"]
                                  ELSE [run[r] EXCEPT !.chunk = n + 1]
  <2>1. n \in 1 .. Chunks /\ v \in Nat /\ v <= remote.ver /\ Chunks \in Nat
    BY <1>4, RunTyped, RunsAssumption DEF Run, Look
  <2>2. /\ run' = [run EXCEPT ![r] = x] /\ run'[r] = x
        /\ \A q \in Runs \ {r} : run'[q] = run[q]
    BY <1>4 DEF IInv, TypesOK
  <2>3. x \in Run
    BY <2>1, RunTyped DEF Run, Places, LastChunk
  <2>4. /\ x.event = run[r].event /\ x.seen = run[r].seen
        /\ x.err = run[r].err /\ x.landed = run[r].landed /\ x.current = run[r].current
        /\ x.cursor = run[r].cursor /\ x.mode = run[r].mode /\ x.start = run[r].start
        /\ \/ n = Chunks /\ x.at = "record"
           \/ x.at = "import" /\ x.chunk = n + 1
    BY <1>1, RunTyped DEF Run, LastChunk
  <2> HIDE DEF x
  <2>5. /\ imported' \in [1 .. Chunks -> 0 .. remote.ver]
        /\ imported'[n] >= v
        /\ \A k \in 1 .. Chunks : imported'[k] >= imported[k]
    <3>1. imported \in [1 .. Chunks -> 0 .. remote.ver] /\ remote.ver \in Nat
      BY RunTyped DEF IInv, TypesOK
    <3>2. imported[n] \in Nat /\ imported[n] <= remote.ver
      BY <2>1, <3>1
    <3>3. Max({imported[n], v}) \in {imported[n], v} /\ Max({imported[n], v}) >= imported[n]
          /\ Max({imported[n], v}) >= v
      BY <2>1, <3>2, MaxIs
    <3>4. Max({imported[n], v}) \in 0 .. remote.ver
      BY <2>1, <3>1, <3>2, <3>3
    <3>5. imported' = [imported EXCEPT ![n] = Max({imported[n], v})]
      BY <1>4
    <3> HIDE DEF n, v
    <3>6. imported'[n] = Max({imported[n], v}) /\ \A k \in 1 .. Chunks : k # n => imported'[k] = imported[k]
      BY <2>1, <3>1, <3>5
    <3>7. imported' \in [1 .. Chunks -> 0 .. remote.ver]
      BY <3>1, <3>4, <3>5
    <3>8. \A k \in 1 .. Chunks : imported'[k] >= imported[k]
      BY <3>1, <3>3, <3>6
    <3> QED BY <3>3, <3>6, <3>7, <3>8
  <2>6. local' \in [status : Statuses, at : 0 .. remote.ver]
    BY <1>4, <2>1, RunTyped DEF Look, IInv, TypesOK, Merged
  <2>7. TypesOK'
    <3>1. run' \in [Runs -> Run]
      BY <2>2, <2>3 DEF IInv, TypesOK
    <3>2. ASSUME NEW q \in Runs
          PROVE  /\ run'[q].event <= Len(intents)
                 /\ run'[q].start <= remote.ver /\ run'[q].seen.ver <= remote.ver
      BY <2>2, <2>4, RunTyped
    <3> QED BY <1>1, <2>5, <2>6, <3>1, <3>2 DEF IInv, TypesOK
  <2>8. PendingOK'
    BY <1>1 DEF IInv, PendingOK
  <2>9. CursorTruthful'
    <3>1. ASSUME NEW k \in 1 .. Chunks PROVE imported'[k] >= binding.cursor
      <4>1. imported[k] >= binding.cursor /\ imported[k] \in Nat /\ binding.cursor \in Nat
            /\ imported'[k] >= imported[k] /\ imported'[k] \in Nat
        BY <2>5, RunTyped DEF IInv, TypesOK, CursorTruthful
      <4> QED BY <4>1
    <3> QED BY <1>1, <3>1 DEF CursorTruthful
  <2>10. FlightOK'
    <3>1. ASSUME NEW f \in flight PROVE Waits(f.by)'
      BY <1>1, <2>2, <2>4, <3>1 DEF IInv, FlightOK, Waits, TypesOK
    <3> QED BY <1>1, <3>1 DEF IInv, FlightOK
  <2>11. ASSUME NEW q \in Runs PROVE PassOK(q)' /\ ContentOK(q)' /\ LookOK(q)'
    <3>1. CASE q = r
      <4>1. PassOK(r)' /\ LookOK(r)'
        BY <1>1, <2>2, <2>4, RunTyped DEF PassOK, LookOK, Delivering
      <4>2. run[r].current
        BY <1>4 DEF Fenced
      <4>3. /\ run[r].start <= v
            /\ \A k \in 1 .. Chunks : k < n => imported[k] >= v
        BY <1>1, <4>2, RunTyped DEF ContentOK
      <4>4. ASSUME NEW k \in 1 .. Chunks, k <= n PROVE imported'[k] >= v
        <5>1. CASE k = n
          BY <5>1, <2>5
        <5>2. CASE k # n
          <6>1. imported[k] >= v /\ imported'[k] >= imported[k] /\ imported[k] \in Nat
                /\ imported'[k] \in Nat
            BY <2>1, <2>5, <4>3, <4>4, <5>2, RunTyped DEF IInv, TypesOK
          <6> QED BY <2>1, <6>1
        <5> QED BY <5>1, <5>2
      <4>5. CASE n = Chunks /\ x.at = "record"
        <5>1. ASSUME NEW k \in 1 .. Chunks PROVE imported'[k] >= run[r].start
          <6>1. imported'[k] >= v /\ imported'[k] \in Nat /\ run[r].start \in Nat
            BY <2>1, <2>5, <4>4, <4>5, RunTyped DEF Run
          <6> QED BY <2>1, <4>3, <6>1
        <5>2. ContentOK(r)'
          BY <1>1, <2>2, <2>4, <4>2, <4>5, <5>1, RunTyped DEF ContentOK
        <5> QED BY <3>1, <4>1, <5>2
      <4>6. CASE x.at = "import" /\ x.chunk = n + 1
        <5>1. \A k \in 1 .. Chunks : k < n + 1 => imported'[k] >= v
          BY <2>1, <4>4
        <5>2. ContentOK(r)'
          BY <1>1, <2>1, <2>2, <2>4, <4>2, <4>3, <4>6, <5>1, RunTyped DEF ContentOK
        <5> QED BY <3>1, <4>1, <5>2
      <4> QED BY <2>4, <4>5, <4>6
    <3>2. CASE q # r
      <4>1. run'[q] = run[q] /\ run[q] \in Run /\ PassOK(q) /\ ContentOK(q) /\ LookOK(q)
        BY <2>2, <3>2, RunTyped
      <4>2. PassOK(q)' /\ LookOK(q)'
        BY <1>1, <4>1 DEF PassOK, LookOK, Fenced
      <4>3. \A k \in 1 .. Chunks, w \in Nat : imported[k] >= w => imported'[k] >= w
        BY <2>5, RunTyped DEF IInv, TypesOK
      <4>4. run[q].seen.ver \in Nat /\ run[q].start \in Nat
        BY <4>1 DEF Run, Look
      <4>5. ContentOK(q)'
        BY <1>1, <4>1, <4>3, <4>4 DEF ContentOK
      <4> QED BY <4>2, <4>5
    <3> QED BY <3>1, <3>2
  <2> QED BY <2>7, <2>8, <2>9, <2>10, <2>11 DEF IInv
<1> QED BY <1>2, <1>3, <1>4 DEF Import

\* The claim ends only when nothing sent under it is under way.
LEMMA ClaimIsOver ==
    ASSUME IInv, claim = Nobody \/ age = TTL
    PROVE  flight = {}
<1> SUFFICES ASSUME NEW f \in flight PROVE FALSE
  OBVIOUS
<1>1. f.by \in Runs /\ f.age \in 0 .. PatchLife /\ age \in 0 .. TTL
  BY DEF IInv, TypesOK
<1>2. f.by = claim /\ age < f.age + Horizon
  BY DEF IInv, FlightOK
<1> QED BY <1>1, <1>2, RunsAssumption, HorizonAssumption

LEMMA RecordOK == ASSUME IInv, NEW r \in Runs, Record(r) PROVE IInv'
<1>1. /\ run[r].at = "record"
      /\ UNCHANGED <<remote, flight, local, intents, pending, observed, imported, shown>>
  BY DEF Record, At, source, mapping
<1>2. CASE Succeeds(r)
  <2>1. /\ binding' = [binding EXCEPT !.cursor = run[r].start]
        /\ claim' = Nobody /\ age' = 0
        /\ run' = [Updated(r) EXCEPT ![r] = NoRun]
    BY <1>2 DEF Record
  <2>2. ASSUME NEW q \in Runs
        PROVE  /\ run'[q] = IF q = r THEN NoRun ELSE [run[q] EXCEPT !.current = FALSE]
               /\ run[q] \in Run /\ [run[q] EXCEPT !.current = FALSE] \in Run
               /\ [run[q] EXCEPT !.current = FALSE].current = FALSE
    BY <2>1, RunTyped DEF Updated, Run
  <2>3. run' \in [Runs -> Run]
    <3>1. run' = [q \in Runs |-> run'[q]]
      BY <2>1 DEF Updated
    <3> QED BY <2>2, <3>1, NoRunTyped
  <2>4. ASSUME NEW q \in Runs, q # r
        PROVE  /\ ~run'[q].current /\ run'[q].at = run[q].at
               /\ run'[q].start = run[q].start
               /\ run'[q].event = run[q].event /\ run'[q].landed = run[q].landed
               /\ run'[q].seen = run[q].seen /\ run'[q].err = run[q].err
    BY <2>2, <2>4 DEF Run
  <2>5. run'[r] = NoRun
    BY <2>2
  <2>6. flight = {}
    BY <1>1, <1>2 DEF Succeeds, IInv, FlightOK, Waits
  <2>7. TypesOK'
    <3>1. ASSUME NEW q \in Runs
          PROVE  /\ run'[q].event <= Len(intents)
                 /\ run'[q].start <= remote.ver /\ run'[q].seen.ver <= remote.ver
      BY <2>4, <2>5, RunTyped, NoRunTyped
    <3>2. binding' \in [enabled : BOOLEAN, mode : Modes, cursor : 0 .. remote.ver]
      <4>1. run[r].start \in 0 .. remote.ver
        BY RunTyped DEF Run
      <4>2. binding \in [enabled : BOOLEAN, mode : Modes, cursor : 0 .. remote.ver]
        BY DEF IInv, TypesOK
      <4> QED BY <2>1, <4>1, <4>2
    <3>3. age' \in 0 .. TTL
      BY <2>1, HorizonAssumption
    <3> QED BY <1>1, <2>1, <2>3, <3>1, <3>2, <3>3 DEF IInv, TypesOK
  <2>8. binding'.mode = binding.mode /\ binding'.cursor = run[r].start
    BY <2>1 DEF IInv, TypesOK
  <2>9. PendingOK' /\ FlightOK'
    BY <1>1, <2>6, <2>8 DEF IInv, PendingOK, FlightOK
  <2>10. CursorTruthful'
    BY <1>1, <1>2, <2>8, RunTyped DEF Succeeds, ContentOK, CursorTruthful
  <2>11. ASSUME NEW q \in Runs PROVE PassOK(q)' /\ ContentOK(q)' /\ LookOK(q)'
    <3>1. CASE q = r
      BY <2>5, <3>1, NoRunTyped DEF PassOK, ContentOK, LookOK, Delivering, Fenced
    <3>2. CASE q # r
      BY <1>1, <2>4, <3>2, RunTyped DEF PassOK, ContentOK, LookOK, Delivering, Fenced
    <3> QED BY <3>1, <3>2
  <2> QED BY <2>7, <2>9, <2>10, <2>11 DEF IInv
<1>3. CASE ~Succeeds(r)
  <2> DEFINE x == [run[r] EXCEPT !.at = "fail"]
  <2>1. run' = [run EXCEPT ![r] = x] /\ run'[r] = x /\ UNCHANGED others
    BY <1>1, <1>3 DEF Record, IInv, TypesOK, fence, others
  <2>2. x \in Run
    BY RunTyped DEF Run, Places
  <2>3. /\ x.at = "fail" /\ x.event = run[r].event /\ x.seen = run[r].seen
        /\ x.err = run[r].err /\ x.landed = run[r].landed /\ x.current = run[r].current
        /\ x.cursor = run[r].cursor /\ x.mode = run[r].mode /\ x.start = run[r].start
    BY RunTyped DEF Run
  <2> HIDE DEF x
  <2>4. PassOK(r)' /\ ContentOK(r)' /\ LookOK(r)'
    BY <1>1, <2>1, <2>3, RunTyped DEF PassOK, ContentOK, LookOK, Delivering, others
  <2>5. (\E f \in flight : f.by = r) => Waits(r)'
    BY <1>1, <2>1, <2>3 DEF IInv, FlightOK, Waits
  <2> QED BY <2>1, <2>2, <2>3, <2>4, <2>5, RunTyped, RunStep
<1> QED BY <1>2, <1>3

LEMMA FailOK == ASSUME IInv, NEW r \in Runs, Fail(r) PROVE IInv'
<1>1. /\ run[r].at = "fail" /\ run' = [run EXCEPT ![r] = NoRun] /\ run'[r] = NoRun
      /\ \A q \in Runs \ {r} : run'[q] = run[q]
      /\ UNCHANGED <<remote, flight, binding, local, intents, pending, observed, imported, shown>>
  BY DEF Fail, At, source, mapping, IInv, TypesOK
<1>2. CASE UNCHANGED <<claim, age>>
  <2>1. PassOK(r)' /\ ContentOK(r)' /\ LookOK(r)' /\ Waits(r)'
    BY <1>1, NoRunTyped DEF PassOK, ContentOK, LookOK, Delivering, Fenced, Waits
  <2>2. UNCHANGED others
    BY <1>1, <1>2 DEF others
  <2>3. NoRun.event <= Len(intents) /\ NoRun.start <= remote.ver /\ NoRun.seen.ver <= remote.ver
    BY NoRunTyped, RunTyped
  <2> QED BY <1>1, <2>1, <2>2, <2>3, NoRunTyped, RunStep
<1>3. CASE claim = r /\ run[r].err # "ambiguous" /\ claim' = Nobody /\ age' = 0
  <2>1. flight = {}
    BY <1>1, <1>3 DEF IInv, FlightOK, Waits
  <2>2. TypesOK'
    <3>1. run' \in [Runs -> Run]
      BY <1>1, NoRunTyped DEF IInv, TypesOK
    <3>2. ASSUME NEW q \in Runs
          PROVE  /\ run'[q].event <= Len(intents)
                 /\ run'[q].start <= remote.ver /\ run'[q].seen.ver <= remote.ver
      BY <1>1, RunTyped, NoRunTyped
    <3>3. age' \in 0 .. TTL
      BY <1>3, HorizonAssumption
    <3> QED BY <1>1, <1>3, <3>1, <3>2, <3>3 DEF IInv, TypesOK
  <2>3. PendingOK' /\ FlightOK' /\ CursorTruthful'
    BY <1>1, <2>1 DEF IInv, PendingOK, FlightOK, CursorTruthful
  <2>4. ASSUME NEW q \in Runs PROVE PassOK(q)' /\ ContentOK(q)' /\ LookOK(q)'
    <3>1. CASE q = r
      BY <1>1, <3>1, NoRunTyped DEF PassOK, ContentOK, LookOK, Delivering, Fenced
    <3>2. CASE q # r
      <4>1. ~Fenced(q)'
        BY <1>3, RunsAssumption DEF Fenced
      <4> QED BY <1>1, <3>2, <4>1, RunTyped DEF PassOK, ContentOK, LookOK
    <3> QED BY <3>1, <3>2
  <2> QED BY <2>2, <2>3, <2>4 DEF IInv
<1> QED BY <1>2, <1>3 DEF Fail

LEMMA ClaimOK == ASSUME IInv, NEW r \in Runs, Claim(r) PROVE IInv'
<1> DEFINE x == [NoRun EXCEPT !.at = IF binding.mode = "two-way" THEN "deliver" ELSE "prepare",
                              !.mode = binding.mode, !.current = TRUE,
                              !.cursor = binding.cursor, !.start = remote.ver]
<1>1. /\ run' = [run EXCEPT ![r] = x] /\ run'[r] = x
      /\ \A q \in Runs \ {r} : run'[q] = run[q]
      /\ claim' = r /\ age' = 0
      /\ UNCHANGED <<remote, flight, binding, local, intents, pending, observed, imported, shown>>
  BY DEF Claim, At, source, mapping, IInv, TypesOK
<1>2. flight = {}
  BY ClaimIsOver DEF Claim
<1>3. binding.mode \in Modes /\ binding.cursor \in Nat /\ remote.ver \in Nat
  BY RunTyped DEF IInv, TypesOK
<1>4. x \in Run
  BY <1>3, NoRunTyped DEF Run, Places
<1>5. /\ x.at \in {"deliver", "prepare"} /\ x.event = 0 /\ x.seen.ver = 0 /\ x.err = "none"
      /\ x.landed = FALSE /\ x.cursor = binding.cursor /\ x.mode = binding.mode
      /\ x.start = remote.ver
  BY NoRunTyped DEF NoRun
<1> HIDE DEF x
<1>6. TypesOK'
  <2>1. run' \in [Runs -> Run]
    BY <1>1, <1>4 DEF IInv, TypesOK
  <2>2. ASSUME NEW q \in Runs
        PROVE  /\ run'[q].event <= Len(intents)
               /\ run'[q].start <= remote.ver /\ run'[q].seen.ver <= remote.ver
    BY <1>1, <1>5, RunTyped
  <2>3. age' \in 0 .. TTL
    BY <1>1, HorizonAssumption
  <2> QED BY <1>1, <2>1, <2>2, <2>3 DEF IInv, TypesOK
<1>7. PendingOK' /\ FlightOK' /\ CursorTruthful'
  BY <1>1, <1>2 DEF IInv, PendingOK, FlightOK, CursorTruthful
<1>8. ASSUME NEW q \in Runs PROVE PassOK(q)' /\ ContentOK(q)' /\ LookOK(q)'
  <2>1. CASE q = r
    BY <1>1, <1>5, <2>1 DEF PassOK, ContentOK, LookOK, Delivering
  <2>2. CASE q # r
    <3>1. ~Fenced(q)'
      BY <1>1, <2>2 DEF Fenced
    <3> QED BY <1>1, <2>2, <3>1, RunTyped DEF PassOK, ContentOK, LookOK
  <2> QED BY <2>1, <2>2
<1> QED BY <1>6, <1>7, <1>8 DEF IInv

-----------------------------------------------------------------------------
(* The tracker, the users, the operator, time and death.                   *)

\* The tracker's version only grows; nothing that was read of it before is affected.
LEMMA TypesRemote ==
    ASSUME IInv, remote' \in Look, remote.ver <= remote'.ver, shown' \in 0 .. remote'.ver,
           flight' \subseteq flight, run' \in [Runs -> Run],
           UNCHANGED <<binding, claim, age, local, intents, observed, imported>>,
           \A q \in Runs : /\ run'[q].event = run[q].event
                           /\ run'[q].start = run[q].start /\ run'[q].seen = run[q].seen
    PROVE  TypesOK'
<1>1. \A n \in 0 .. remote.ver : n \in 0 .. remote'.ver
  BY RunTyped DEF Look, IInv, TypesOK
<1>2. binding' \in [enabled : BOOLEAN, mode : Modes, cursor : 0 .. remote'.ver]
  BY <1>1 DEF IInv, TypesOK
<1>3. local' \in [status : Statuses, at : 0 .. remote'.ver]
  BY <1>1 DEF IInv, TypesOK
<1>4. observed' \in 0 .. remote'.ver /\ imported' \in [1 .. Chunks -> 0 .. remote'.ver]
  BY <1>1 DEF IInv, TypesOK
<1>5. ASSUME NEW q \in Runs
      PROVE  /\ run'[q].event <= Len(intents)
             /\ run'[q].start <= remote'.ver /\ run'[q].seen.ver <= remote'.ver
  BY RunTyped DEF Look, Run
<1> QED BY <1>2, <1>3, <1>4, <1>5 DEF IInv, TypesOK

LEMMA ChangeIs ==
    ASSUME IInv, NEW s \in Statuses, Change(s)
    PROVE  /\ remote' \in Look /\ remote.ver <= remote'.ver /\ shown' \in 0 .. remote'.ver
           /\ pending = 0 => shown' = shown
BY RunTyped DEF Change, Look, IInv, TypesOK

LEMMA LandOK == ASSUME IInv, NEW f \in flight, Land(f) PROVE IInv'
<1>1. f \in [by : Runs, status : Statuses, age : 0 .. PatchLife] /\ f.by \in Runs /\ f.status \in Statuses
  BY DEF IInv, TypesOK
<1>2. flight' = {} /\ UNCHANGED <<binding, claim, age, local, intents, pending, observed, imported>>
  <2>1. \A g \in flight : g = f
    BY DEF IInv, FlightOK
  <2> QED BY <2>1 DEF Land, fence, mapping
<1>3. /\ remote' \in Look /\ remote.ver <= remote'.ver /\ shown' \in 0 .. remote'.ver
      /\ pending = 0 => shown' = shown
  <2>1. CASE UNCHANGED <<remote, shown>>
    BY <2>1, RunTyped DEF IInv, TypesOK, Look
  <2>2. CASE Change(f.status)
    BY <1>1, <2>2, ChangeIs
  <2> QED BY <2>1, <2>2 DEF Land
<1> DEFINE r == f.by
           x == [run[r] EXCEPT !.landed = At(r, "patching")]
<1>4. /\ run' = [run EXCEPT ![r] = x] /\ run'[r] = x
      /\ \A q \in Runs \ {r} : run'[q] = run[q]
  BY <1>1 DEF Land, IInv, TypesOK
<1>5. x \in Run
  BY <1>1, RunTyped DEF Run, At
<1>6. /\ x.at = run[r].at /\ x.event = run[r].event /\ x.seen = run[r].seen
      /\ x.err = run[r].err /\ x.landed = (run[r].at = "patching") /\ x.current = run[r].current
      /\ x.cursor = run[r].cursor /\ x.mode = run[r].mode /\ x.start = run[r].start
      /\ x.chunk = run[r].chunk
  BY <1>1, RunTyped DEF Run, At
<1> HIDE DEF x
<1>7. TypesOK'
  <2>1. run' \in [Runs -> Run]
    BY <1>4, <1>5 DEF IInv, TypesOK
  <2> QED BY <1>2, <1>3, <1>4, <1>6, <2>1, TypesRemote
<1>8. PendingOK' /\ FlightOK' /\ CursorTruthful'
  BY <1>2 DEF IInv, PendingOK, FlightOK, CursorTruthful
<1>9. ASSUME NEW q \in Runs PROVE PassOK(q)' /\ ContentOK(q)' /\ LookOK(q)'
  <2>1. /\ run'[q].at = run[q].at /\ run'[q].event = run[q].event /\ run'[q].seen = run[q].seen
        /\ run'[q].err = run[q].err /\ run'[q].current = run[q].current
        /\ run'[q].cursor = run[q].cursor /\ run'[q].mode = run[q].mode
        /\ run'[q].start = run[q].start /\ run'[q].chunk = run[q].chunk
        /\ run'[q].landed = run[q].landed \/ run'[q].landed = (run[q].at = "patching")
    BY <1>1, <1>4, <1>6
  <2>2. PassOK(q)'
    BY <1>2, <2>1, RunTyped DEF PassOK
  <2>3. ContentOK(q)' /\ LookOK(q)'
    BY <1>2, <1>3, <2>1, RunTyped DEF ContentOK, LookOK, Fenced
  <2> QED BY <2>2, <2>3
<1> QED BY <1>7, <1>8, <1>9 DEF IInv

LEMMA LoseOK == ASSUME IInv, NEW f \in flight, Lose(f) PROVE IInv'
<1>1. /\ flight' \subseteq flight
      /\ UNCHANGED <<remote, shown, binding, claim, age, local, intents, pending, observed, imported, run>>
  BY DEF Lose, fence, mapping
<1>2. TypesOK' /\ PendingOK' /\ CursorTruthful'
  BY <1>1 DEF IInv, TypesOK, PendingOK, CursorTruthful
<1>3. FlightOK'
  BY <1>1 DEF IInv, FlightOK, Waits
<1>4. ASSUME NEW q \in Runs PROVE PassOK(q)' /\ ContentOK(q)' /\ LookOK(q)'
  BY <1>1, RunTyped DEF PassOK, ContentOK, LookOK, Fenced
<1> QED BY <1>2, <1>3, <1>4 DEF IInv

LEMMA EditRemoteOK == ASSUME IInv, EditRemote PROVE IInv'
<1>1. UNCHANGED <<flight, binding, claim, age, local, intents, pending, observed, imported, run>>
  BY DEF EditRemote, fence, mapping
<1>2. /\ remote' \in Look /\ remote.ver <= remote'.ver /\ shown' \in 0 .. remote'.ver
      /\ pending = 0 => shown' = shown
  BY ChangeIs DEF EditRemote
<1>3. TypesOK'
  <2>1. run' \in [Runs -> Run]
    BY <1>1 DEF IInv, TypesOK
  <2> QED BY <1>1, <1>2, <2>1, TypesRemote
<1>4. PendingOK' /\ FlightOK' /\ CursorTruthful'
  BY <1>1 DEF IInv, PendingOK, FlightOK, Waits, CursorTruthful
<1>5. ASSUME NEW q \in Runs PROVE PassOK(q)' /\ ContentOK(q)' /\ LookOK(q)'
  BY <1>1, <1>2, RunTyped DEF PassOK, ContentOK, LookOK, Fenced
<1> QED BY <1>3, <1>4, <1>5 DEF IInv

LEMMA EditLocalOK == ASSUME IInv, EditLocal PROVE IInv'
<1>1. /\ UNCHANGED <<remote, flight, binding, claim, age, observed, imported, run>>
      /\ local' = [status |-> Other(local.status), at |-> remote.ver]
  BY DEF EditLocal, fence
<1>2. local' \in [status : Statuses, at : 0 .. remote.ver] /\ local'.status \in Statuses
  <2>1. Other(local.status) \in Statuses
    BY DEF Other, Statuses
  <2>2. remote.ver \in 0 .. remote.ver
    BY DEF IInv, TypesOK, Look
  <2> QED BY <1>1, <2>1, <2>2
<1>3. FlightOK' /\ CursorTruthful'
  BY <1>1 DEF IInv, FlightOK, Waits, CursorTruthful
<1>4. CASE Enqueues
  <2>1. /\ intents' = Append(intents, local'.status) /\ pending' = Len(intents) + 1
        /\ shown' \in {remote.ver, 0}
    BY <1>4 DEF EditLocal
  <2>2. /\ intents \in Seq(Statuses) /\ intents' \in Seq(Statuses)
        /\ Len(intents') = Len(intents) + 1 /\ Len(intents) \in Nat
        /\ \A n \in 1 .. Len(intents) : intents'[n] = intents[n]
    BY <1>2, <2>1, AppendProperties DEF IInv, TypesOK
  <2>3. TypesOK'
    <3>1. shown' \in 0 .. remote.ver
      BY <2>1 DEF IInv, TypesOK, Look
    <3>2. ASSUME NEW q \in Runs PROVE run[q].event <= Len(intents')
      BY <2>2, RunTyped DEF Run
    <3> QED BY <1>1, <1>2, <2>2, <3>1, <3>2 DEF IInv, TypesOK
  <2>4. PendingOK'
    BY <1>1, <1>4, <2>1, <2>2 DEF PendingOK, Enqueues
  <2>5. ASSUME NEW q \in Runs PROVE PassOK(q)' /\ ContentOK(q)' /\ LookOK(q)'
    <3>1. run[q].event # 0 => intents'[run[q].event] = intents[run[q].event]
      BY <2>2, RunTyped DEF Run
    <3>2. PassOK(q)'
      BY <1>1, <3>1, RunTyped DEF PassOK
    <3>3. ContentOK(q)' /\ LookOK(q)'
      BY <1>1, <2>1, <2>2, RunTyped DEF ContentOK, LookOK, Fenced
    <3> QED BY <3>2, <3>3
  <2> QED BY <1>3, <2>3, <2>4, <2>5 DEF IInv
<1>5. CASE ~Enqueues
  <2>1. UNCHANGED <<intents, pending, shown>>
    BY <1>5 DEF EditLocal
  <2>2. TypesOK' /\ PendingOK'
    BY <1>1, <1>2, <2>1 DEF IInv, TypesOK, PendingOK
  <2>3. ASSUME NEW q \in Runs PROVE PassOK(q)' /\ ContentOK(q)' /\ LookOK(q)'
    BY <1>1, <2>1, RunTyped DEF PassOK, ContentOK, LookOK, Fenced
  <2> QED BY <1>3, <2>2, <2>3 DEF IInv
<1> QED BY <1>4, <1>5

\* A change of the binding's settings: no run's copy is current any more.
LEMMA SettingsChange ==
    ASSUME IInv, run' = Updated(Nobody),
           UNCHANGED <<remote, flight, claim, age, local, intents, observed, shown>>,
           binding' \in [enabled : BOOLEAN, mode : Modes, cursor : 0 .. remote.ver],
           imported' \in [1 .. Chunks -> 0 .. remote.ver], PendingOK', CursorTruthful'
    PROVE  IInv'
<1>1. run' \in [Runs -> Run] /\ \A q \in Runs : ~run'[q].current
  BY UpdatedIs, RunsAssumption
<1>2. TypesOK'
  <2>1. ASSUME NEW q \in Runs
        PROVE  /\ run'[q].event <= Len(intents)
               /\ run'[q].start <= remote.ver /\ run'[q].seen.ver <= remote.ver
    BY UpdatedIs, RunTyped
  <2> QED BY <1>1, <2>1 DEF IInv, TypesOK
<1>3. FlightOK'
  <2>1. ASSUME NEW f \in flight PROVE Waits(f.by)'
    BY <2>1, UpdatedIs DEF IInv, FlightOK, Waits, TypesOK
  <2> QED BY <2>1 DEF IInv, FlightOK
<1>4. ASSUME NEW q \in Runs PROVE PassOK(q)' /\ ContentOK(q)' /\ LookOK(q)'
  <2>1. PassOK(q)'
    BY UpdatedIs, RunTyped DEF PassOK
  <2>2. ContentOK(q)' /\ LookOK(q)'
    BY <1>1 DEF ContentOK, LookOK, Fenced
  <2> QED BY <2>1, <2>2
<1> QED BY <1>2, <1>3, <1>4 DEF IInv

LEMMA DisableOK == ASSUME IInv, Disable PROVE IInv'
<1>1. /\ binding' = [binding EXCEPT !.enabled = FALSE] /\ run' = Updated(Nobody)
      /\ UNCHANGED <<remote, flight, claim, age, local, intents, pending, observed, shown, imported>>
  BY DEF Disable, source, mapping
<1>2. /\ binding' \in [enabled : BOOLEAN, mode : Modes, cursor : 0 .. remote.ver]
      /\ binding'.mode = binding.mode /\ binding'.cursor = binding.cursor
      /\ imported' \in [1 .. Chunks -> 0 .. remote.ver]
  BY <1>1 DEF IInv, TypesOK
<1>3. PendingOK' /\ CursorTruthful'
  BY <1>1, <1>2 DEF IInv, PendingOK, CursorTruthful
<1> QED BY <1>1, <1>2, <1>3, SettingsChange

LEMMA EnableOK == ASSUME IInv, NEW m \in Modes, NEW same \in BOOLEAN, Enable(m, same) PROVE IInv'
<1>1. /\ binding' = [enabled |-> TRUE, mode |-> m, cursor |-> IF same THEN binding.cursor ELSE 0]
      /\ imported' = IF same THEN imported ELSE [k \in 1 .. Chunks |-> 0]
      /\ pending' = IF binding.mode = "two-way" /\ m = "one-way" THEN 0 ELSE pending
      /\ run' = Updated(Nobody)
      /\ UNCHANGED <<remote, flight, claim, age, local, intents, observed, shown>>
  BY DEF Enable, source
<1>2. 0 \in 0 .. remote.ver
  BY RunTyped DEF IInv, TypesOK, Look
<1>3. /\ binding' \in [enabled : BOOLEAN, mode : Modes, cursor : 0 .. remote.ver]
      /\ binding'.mode = m /\ binding'.cursor = IF same THEN binding.cursor ELSE 0
      /\ imported' \in [1 .. Chunks -> 0 .. remote.ver]
  BY <1>1, <1>2 DEF IInv, TypesOK
<1>4. PendingOK'
  BY <1>1, <1>3 DEF IInv, PendingOK, Modes
<1>5. CursorTruthful'
  BY <1>1, <1>3 DEF IInv, CursorTruthful
<1> QED BY <1>1, <1>3, <1>4, <1>5, SettingsChange

LEMMA TickOK == ASSUME IInv, Tick PROVE IInv'
<1> DEFINE older(f) == [f EXCEPT !.age = @ + 1]
<1>1. /\ age < TTL /\ age' = age + 1 /\ \A f \in flight : f.age < PatchLife
      /\ flight' = {older(f) : f \in flight}
      /\ UNCHANGED <<remote, shown, binding, claim, local, intents, pending, observed, imported, run>>
  BY DEF Tick, mapping
<1>2. ASSUME NEW f \in flight
      PROVE  /\ older(f) \in [by : Runs, status : Statuses, age : 0 .. PatchLife]
             /\ older(f).by = f.by /\ older(f).age = f.age + 1 /\ f.age \in Nat
  <2>1. f \in [by : Runs, status : Statuses, age : 0 .. PatchLife]
    BY DEF IInv, TypesOK
  <2>2. f.age + 1 \in 0 .. PatchLife /\ f.age \in Nat
    BY <1>1, <2>1, HorizonAssumption
  <2> QED BY <2>1, <2>2
<1>3. age \in Nat /\ age' \in 0 .. TTL
  BY <1>1, HorizonAssumption DEF IInv, TypesOK
<1>4. TypesOK'
  <2>1. flight' \subseteq [by : Runs, status : Statuses, age : 0 .. PatchLife]
    BY <1>1, <1>2
  <2> QED BY <1>1, <1>3, <2>1 DEF IInv, TypesOK
<1>5. FlightOK'
  <2>1. \A f, g \in flight' : f = g
    BY <1>1 DEF IInv, FlightOK
  <2>2. ASSUME NEW g \in flight'
        PROVE  g.by = claim' /\ age' < g.age + Horizon /\ Waits(g.by)'
    <3>1. PICK f \in flight : g = older(f)
      BY <1>1
    <3>2. g.by = f.by /\ g.age = f.age + 1 /\ f.age \in Nat
      BY <1>2, <3>1
    <3>3. f.by = claim /\ age < f.age + Horizon /\ Waits(f.by)
      BY DEF IInv, FlightOK
    <3>4. Waits(f.by)'
      BY <1>1, <3>3 DEF Waits
    <3> QED BY <1>1, <1>3, <3>2, <3>3, <3>4, HorizonAssumption
  <2> QED BY <2>1, <2>2 DEF FlightOK
<1>6. PendingOK' /\ CursorTruthful'
  BY <1>1 DEF IInv, PendingOK, CursorTruthful
<1>7. ASSUME NEW q \in Runs PROVE PassOK(q)' /\ ContentOK(q)' /\ LookOK(q)'
  BY <1>1, RunTyped DEF PassOK, ContentOK, LookOK, Fenced
<1> QED BY <1>4, <1>5, <1>6, <1>7 DEF IInv

LEMMA CrashOK == ASSUME IInv, Crash PROVE IInv'
<1>1. UNCHANGED others
  BY DEF Crash, source, fence, mapping, others
<1>2. run' \in [Runs -> Run] /\ \A q \in Runs : run'[q] = NoRun
  BY NoRunTyped DEF Crash
<1>3. TypesOK'
  <2>1. ASSUME NEW q \in Runs
        PROVE  /\ run'[q].event <= Len(intents)
               /\ run'[q].start <= remote.ver /\ run'[q].seen.ver <= remote.ver
    BY <1>2, RunTyped, NoRunTyped
  <2> QED BY <1>1, <1>2, <2>1 DEF others, IInv, TypesOK
<1>4. PendingOK' /\ CursorTruthful'
  BY <1>1 DEF others, IInv, PendingOK, CursorTruthful
<1>5. FlightOK'
  <2>1. ASSUME NEW f \in flight PROVE Waits(f.by)'
    BY <1>2, NoRunTyped DEF Waits, IInv, TypesOK
  <2> QED BY <1>1, <2>1 DEF others, IInv, FlightOK
<1>6. ASSUME NEW q \in Runs PROVE PassOK(q)' /\ ContentOK(q)' /\ LookOK(q)'
  BY <1>2, NoRunTyped DEF PassOK, ContentOK, LookOK, Delivering, Fenced
<1> QED BY <1>3, <1>4, <1>5, <1>6 DEF IInv

LEMMA NextOK == IInv /\ [Next]_vars => IInv'
<1> SUFFICES ASSUME IInv, [Next]_vars PROVE IInv'
  OBVIOUS
<1>1. ASSUME NEW r \in Runs, Claim(r) \/ Proceed(r) PROVE IInv'
  <2>1. CASE Deliver(r) \/ ReadFails(r) \/ Admit(r) \/ Verify(r) \/ Unanswered(r) \/ Refused(r)
    BY <2>1, DeliverOK, ReadFailsOK, AdmitOK, VerifyOK, UnansweredOK, RefusedOK
  <2>2. CASE Sweep(r) \/ Observe(r) \/ Refresh(r) \/ Prepare(r) \/ PrepareFails(r) \/ Import(r)
    BY <2>2, SweepOK, ObserveOK, RefreshOK, PrepareOK, PrepareFailsOK, ImportOK
  <2>3. CASE Record(r) \/ Fail(r) \/ Claim(r)
    BY <2>3, RecordOK, FailOK, ClaimOK
  <2> QED BY <1>1, <2>1, <2>2, <2>3 DEF Proceed
<1>2. ASSUME NEW f \in flight, Land(f) \/ Lose(f) PROVE IInv'
  BY <1>2, LandOK, LoseOK
<1>3. CASE EditRemote \/ EditLocal \/ Disable \/ Tick \/ Crash
  BY <1>3, EditRemoteOK, EditLocalOK, DisableOK, TickOK, CrashOK
<1>4. ASSUME NEW m \in {"one-way", "two-way"}, NEW same \in BOOLEAN, Enable(m, same) PROVE IInv'
  BY <1>4, EnableOK DEF Modes
<1>5. CASE UNCHANGED vars
  BY <1>5 DEF vars, IInv, TypesOK, PendingOK, FlightOK, Waits, CursorTruthful, PassOK, ContentOK,
              LookOK, Fenced
<1> QED BY <1>1, <1>2, <1>3, <1>4, <1>5 DEF Next

\* The inductive invariant holds in every state of every behaviour.
THEOREM Invariance == Spec => []IInv
BY InitOK, NextOK, PTL DEF Spec

-----------------------------------------------------------------------------
(* What follows.                                                           *)

\* The variables keep their types, events and versions are ones that exist:
\* whatever runs, crashes, answers and settings interleave.
THEOREM TypeCorrect == Spec => []TypeOK
<1>1. IInv => TypeOK
  <2> SUFFICES ASSUME IInv PROVE TypeOK
    OBVIOUS
  <2>1. /\ remote.status \in Statuses /\ remote.ver \in Nat
        /\ \A f \in flight : f.by \in Runs /\ f.status \in Statuses /\ f.age \in 0 .. PatchLife
        /\ binding.cursor \in 0 .. remote.ver
        /\ claim \in Runs \cup {Nobody} /\ age \in 0 .. TTL
        /\ local.status \in Statuses /\ local.at \in 0 .. remote.ver
        /\ observed \in 0 .. remote.ver
        /\ \A k \in 1 .. Chunks : imported[k] \in 0 .. remote.ver
    BY DEF IInv, TypesOK, Look
  <2>2. pending \in 0 .. Len(intents)
    BY DEF IInv, TypesOK, PendingOK
  <2>3. ASSUME NEW r \in Runs
        PROVE  /\ run[r].at \in Places /\ run[r].err \in Severities
               /\ run[r].event \in 0 .. Len(intents) /\ run[r].chunk \in 0 .. Chunks
               /\ run[r].start \in 0 .. remote.ver /\ run[r].seen.ver \in 0 .. remote.ver
    BY RunTyped DEF Run, Look
  <2> QED BY <2>1, <2>2, <2>3 DEF TypeOK
<1> QED BY <1>1, Invariance, PTL

\* Never are two status writes under way to the tracker, after whatever takeovers,
\* crashes and lost answers: a write is gone before the claim it was sent under can
\* be taken over, and the run that sent it neither sends again nor gives the claim up.
THEOREM OneWriterAlways == Spec => []OneWriter
<1>1. IInv => OneWriter
  <2> SUFFICES ASSUME IInv PROVE Cardinality(flight) <= 1
    BY DEF OneWriter
  <2>1. CASE flight = {}
    BY <2>1, FS_EmptySet
  <2>2. CASE flight # {}
    <3>1. PICK f \in flight : TRUE
      BY <2>2
    <3>2. flight = {f}
      BY <3>1 DEF IInv, FlightOK
    <3> QED BY <3>2, FS_Singleton
  <2> QED BY <2>1, <2>2
<1> QED BY <1>1, Invariance, PTL

\* Everything the source changed up to the cursor was imported under the binding's
\* present content settings, however many runs were taken over, failed or died
\* between two chunks, and however often the settings changed meanwhile.
THEOREM CursorAlwaysTruthful == Spec => []CursorTruthful
BY Invariance, PTL DEF IInv

\* An observation ends the look of the run it is by, and of no other.
LEMMA OneObserves ==
    ASSUME IInv, NEW r \in Runs, Observe(r), NEW q \in Runs, Observes(q)
    PROVE  q = r
BY DEF Observe, EndPass, Observes, At, IInv, TypesOK

\* What IntentKept says of a step.
IntentStep ==
    /\ pending # 0 /\ pending' # pending /\ binding'.mode = "two-way"
          => \/ pending' > pending
             \/ \E r \in Runs : Observes(r) /\ run[r].seen.status = intents[pending]
    /\ local'.status # local.status /\ intents' = intents /\ binding.mode = "two-way"
          => /\ pending = 0
             /\ \A r \in Runs : Observes(r) => run[r].seen.ver >= shown

LEMMA ObserveKeeps == ASSUME IInv, NEW r \in Runs, Observe(r) PROVE IntentStep
<1>1. run[r].at = "observe" /\ PassOK(r) /\ LookOK(r) /\ UNCHANGED intents
  BY RunTyped DEF Observe, At, mapping
<1>2. CASE UNCHANGED mapping
  BY <1>2 DEF mapping, IntentStep
<1>3. ASSUME Fenced(r), EndPass(r, "none"),
             pending' = IF Services(r) THEN 0 ELSE pending,
             local' = IF Applies(r) THEN [local EXCEPT !.status = run[r].seen.status] ELSE local
      PROVE  IntentStep
  <2>1. Observes(r)
    BY <1>1, <1>3 DEF Observes, At, EndPass, IInv, TypesOK
  <2>2. ASSUME pending # 0, pending' # pending
        PROVE  \E q \in Runs : Observes(q) /\ run[q].seen.status = intents[pending]
    BY <1>1, <1>3, <2>1, <2>2 DEF Services, PassOK
  <2>3. ASSUME local'.status # local.status
        PROVE  pending = 0 /\ \A q \in Runs : Observes(q) => run[q].seen.ver >= shown
    BY <1>1, <1>3, <2>3, OneObserves DEF Applies, LookOK
  <2> QED BY <2>2, <2>3 DEF IntentStep
<1> QED BY <1>2, <1>3 DEF Observe

LEMMA ImportKeeps == ASSUME IInv, NEW r \in Runs, Import(r) PROVE IntentStep
<1>1. UNCHANGED pending
  BY DEF Import
<1>2. ASSUME local'.status # local.status PROVE binding.mode # "two-way"
  <2>1. Fenced(r) /\ local' = Merged(r)
    BY <1>2 DEF Import
  <2>2. run[r].mode = "one-way"
    BY <1>2, <2>1 DEF Merged
  <2>3. run[r].mode = binding.mode
    BY <2>1, RunTyped DEF Fenced, ContentOK
  <2> QED BY <2>2, <2>3
<1> QED BY <1>1, <1>2 DEF IntentStep

LEMMA EditLocalKeeps == ASSUME IInv, EditLocal PROVE IntentStep
<1>1. intents \in Seq(Statuses) /\ Len(intents) \in Nat /\ pending \in {0, Len(intents)}
  BY DEF IInv, TypesOK, PendingOK
<1>2. CASE Enqueues
  <2>1. intents' = Append(intents, local'.status) /\ pending' = Len(intents) + 1
    BY <1>2 DEF EditLocal
  <2>2. local'.status \in Statuses
    BY DEF EditLocal, Other, Statuses
  <2>3. Len(intents') = Len(intents) + 1
    BY <1>1, <2>1, <2>2, AppendProperties
  <2>4. intents' # intents /\ pending' > pending
    BY <1>1, <2>1, <2>3
  <2> QED BY <2>4 DEF IntentStep
<1>3. CASE ~Enqueues
  BY <1>3 DEF EditLocal, Enqueues, fence, IntentStep
<1> QED BY <1>2, <1>3

\* While a binding is two-way, an intent that waits ends only when a newer one replaces
\* it or the tracker was seen to do what it asks for, and a sync changes the issue's
\* status here only if no intent waits, from no look older than the last delivery.
THEOREM IntentAlwaysKept == Spec => IntentKept
<1>1. IInv /\ [Next]_vars => [IntentStep]_vars
  <2> SUFFICES ASSUME IInv, Next PROVE IntentStep
    BY DEF IntentStep, vars
  <2>1. ASSUME NEW r \in Runs, Claim(r) \/ Proceed(r) PROVE IntentStep
    <3>1. CASE Observe(r)
      BY <3>1, ObserveKeeps
    <3>2. CASE Import(r)
      BY <3>2, ImportKeeps
    <3>3. CASE ~Observe(r) /\ ~Import(r)
      <4>1. UNCHANGED <<pending, local>>
        BY <2>1, <3>3 DEF Proceed, Claim, Deliver, ReadFails, Admit, Verify, Unanswered, Refused,
           Sweep, Refresh, Prepare, PrepareFails, Record, Fail, StatusOnly, mapping
      <4> QED BY <4>1 DEF IntentStep
    <3> QED BY <3>1, <3>2, <3>3
  <2>2. ASSUME NEW f \in flight, Land(f) \/ Lose(f) PROVE IntentStep
    <3>1. UNCHANGED <<pending, local>>
      BY <2>2 DEF Land, Lose, mapping
    <3> QED BY <3>1 DEF IntentStep
  <2>3. CASE EditRemote \/ Disable \/ Tick \/ Crash
    <3>1. UNCHANGED <<pending, local>>
      BY <2>3 DEF EditRemote, Disable, Tick, Crash, mapping
    <3> QED BY <3>1 DEF IntentStep
  <2>4. ASSUME NEW m \in {"one-way", "two-way"}, NEW same \in BOOLEAN, Enable(m, same)
        PROVE  IntentStep
    BY <2>4 DEF Enable, IntentStep
  <2> QED BY <2>1, <2>2, <2>3, <2>4, EditLocalKeeps DEF Next
<1>2. [][IntentStep]_vars <=> IntentKept
  BY DEF IntentStep, IntentKept
<1>3. Spec => []IInv /\ [][Next]_vars
  BY Invariance DEF Spec
<1> QED BY <1>1, <1>2, <1>3, PTL

=============================================================================
