---------------------------- MODULE RelayProofs ----------------------------
(* What TLAPS proves of the relay topology, for every tree, batch size and *)
(* bound: the two sides of a hop are never more than one epoch apart; the  *)
(* variables keep their types; what a daemon's users wrote stays in its    *)
(* log and goes up until the root has signed it; and what is offered next  *)
(* can always be accepted.                                                 *)
EXTENDS Relay, SequenceTheorems, FiniteSetTheorems, TLAPS

Shape(t) == DOMAIN t = DOMAIN Resting

\* A checkpoint is prepared, and fetched, for the next epoch of the hop at most,
\* and a call is made with an epoch its caller has reached.
EpochInv ==
    /\ grant \in [Hops -> Nat] /\ config \in [Hops -> Nat]
    /\ DOMAIN prepared = Hops /\ DOMAIN turn = Hops /\ DOMAIN late = Hops
    /\ \A h \in Hops :
           /\ prepared[h].epoch \in Nat /\ prepared[h].epoch <= grant[h] + 1
           /\ Shape(turn[h]) /\ turn[h].epoch \in Nat /\ turn[h].epoch <= grant[h] + 1
           /\ \A c \in late[h] : c.kind \in Calls /\ c.epoch \in Nat /\ c.epoch <= config[h]
           /\ config[h] \in grant[h] .. grant[h] + 1

\* A turn's fetched epoch is kept by every step but a fetch and an end.
LEMMA TurnKeeps ==
    ASSUME NEW t, Shape(t)
    PROVE  /\ Shape(Pushed(t)) /\ Pushed(t).epoch = t.epoch
           /\ Shape(More(t)) /\ More(t).epoch = t.epoch
           /\ Shape(Left(t)) /\ Left(t).epoch = t.epoch
           /\ Shape(Pulled(t)) /\ Pulled(t).epoch \in {0, t.epoch}
           /\ Shape(Resting) /\ Resting.epoch = 0
<1>1. Shape(Resting) /\ Resting.epoch = 0
  BY DEF Shape, Resting
<1>2. Shape(Pushed(t)) /\ Pushed(t).epoch = t.epoch
  BY DEF Shape, Resting, Pushed
<1>3. Shape(More(t)) /\ More(t).epoch = t.epoch
  BY DEF Shape, Resting, More
<1>4. Shape(Left(t)) /\ Left(t).epoch = t.epoch
  BY DEF Shape, Resting, Left
<1>5. Shape(Pulled(t)) /\ Pulled(t).epoch \in {0, t.epoch}
  BY DEF Shape, Resting, Pulled
<1> QED BY <1>1, <1>2, <1>3, <1>4, <1>5

\* Both sides of every hop begin in the same epoch.
LEMMA InitEpochs == Init => EpochInv
BY DEF Init, EpochInv, Shape, Resting

\* A call with an epoch its caller has reached moves the hop to the caller's epoch.
LEMMA MoveKeeps ==
    ASSUME EpochInv, NEW h \in Hops, NEW ep \in Nat, ep <= config[h], Moved(h, ep),
           UNCHANGED <<config, prepared>>,
           DOMAIN turn' = Hops,
           \A g \in Hops : Shape(turn'[g]) /\ turn'[g].epoch \in {0, turn[g].epoch},
           DOMAIN late' = Hops,
           \A g \in Hops : late'[g] \subseteq late[g]
    PROVE  EpochInv'
<1>1. grant' \in [Hops -> Nat] /\ \A g \in Hops : grant[g] <= grant'[g] /\ config[g] \in grant'[g] .. grant'[g] + 1
  BY DEF EpochInv, Moved, Admitted
<1>2. \A g \in Hops : grant[g] \in Nat /\ grant'[g] \in Nat
  BY <1>1 DEF EpochInv
<1> QED BY <1>1, <1>2 DEF EpochInv

\* So does a step that leaves the epochs alone.
LEMMA SteadyKeeps ==
    ASSUME EpochInv, UNCHANGED <<grant, config>>,
           DOMAIN prepared' = Hops,
           \A g \in Hops : prepared'[g].epoch \in {prepared[g].epoch, grant[g] + 1},
           DOMAIN turn' = Hops,
           \A g \in Hops : Shape(turn'[g]) /\ turn'[g].epoch \in {0, turn[g].epoch, prepared'[g].epoch},
           DOMAIN late' = Hops,
           \A g \in Hops : \A c \in late'[g] : c \in late[g] \/ (c.kind \in Calls /\ c.epoch = config[g])
    PROVE  EpochInv'
<1>1. \A g \in Hops : grant[g] \in Nat /\ config[g] \in Nat
  BY DEF EpochInv
<1> QED BY <1>1 DEF EpochInv

\* The turn of one hop goes on and nothing is late.
LEMMA GoesKeeps ==
    ASSUME EpochInv, NEW h \in Hops, NEW t, Goes(h, t), Shape(t)
    PROVE  /\ DOMAIN turn' = Hops
           /\ DOMAIN late' = Hops
           /\ \A g \in Hops : late'[g] = late[g]
           /\ \A g \in Hops : Shape(turn'[g]) /\ turn'[g] = IF g = h THEN t ELSE turn[g]
BY DEF EpochInv, Goes

\* A checkpoint is prepared for the next epoch.
LEMMA CreateKeeps ==
    ASSUME EpochInv, NEW h \in Hops, NEW says, Create(h, says)
    PROVE  /\ UNCHANGED <<grant, config>>
           /\ DOMAIN prepared' = Hops
           /\ \A g \in Hops : prepared'[g].epoch \in {prepared[g].epoch, grant[g] + 1}
<1>1. UNCHANGED <<grant, config>>
  BY DEF Create
<1>2. CASE Keep
  BY <1>1, <1>2 DEF EpochInv, Keep
<1>3. CASE Capture(h)
  BY <1>1, <1>3 DEF EpochInv, Capture
<1>4. CASE Forward(h)
  BY <1>1, <1>4 DEF EpochInv, Forward
<1>5. Keep \/ Capture(h) \/ Forward(h)
  BY DEF Create
<1> QED BY <1>1, <1>2, <1>3, <1>4, <1>5

\* The steps of a turn, each with the turn it goes on with.
LEMMA HelloKeeps == ASSUME EpochInv, NEW h \in Hops, Hello(h) PROVE EpochInv'
<1>1. PICK t : Goes(h, t) /\ Shape(t) /\ t.epoch = 0
  <2> DEFINE required == NeedsReset(h)
             resume == required /\ grant[h] + 1 = config[h]
             same == grant[h] = config[h]
             t == [Resting EXCEPT !.pc = IF resume \/ same THEN "push" ELSE "reset",
                                  !.required = required, !.seen = grant[h],
                                  !.drain = required /\ same, !.batches = 1]
  <2>1. Goes(h, t)
    BY DEF Hello
  <2>2. Shape(t) /\ t.epoch = 0
    BY DEF Shape, Resting
  <2> HIDE DEF t
  <2> QED BY <2>1, <2>2
<1>2. UNCHANGED <<grant, config, prepared>>
  BY DEF Hello, storeVars
<1> QED BY <1>1, <1>2, GoesKeeps, SteadyKeeps DEF EpochInv

\* Reading a batch moves no epoch.
LEMMA ReadPendingKeeps == ASSUME EpochInv, NEW h \in Hops, ReadPending(h) PROVE EpochInv'
<1> DEFINE ids == Pending(out[h].up, "events", config[h], 0)
           s == [turn[h] EXCEPT !.pc = "send", !.batch = ids]
           t == IF ids = {} THEN Pushed(turn[h]) ELSE s
<1>1. Goes(h, t)
  BY DEF ReadPending
<1>2. Shape(t) /\ t.epoch = turn[h].epoch
  <2>1. Shape(turn[h])
    BY DEF EpochInv
  <2>2. Shape(s) /\ s.epoch = turn[h].epoch
    BY <2>1 DEF Shape, Resting
  <2> QED BY <2>1, <2>2, TurnKeeps
<1>3. UNCHANGED <<grant, config, prepared>>
  BY DEF ReadPending
<1> HIDE DEF t
<1> QED BY <1>1, <1>2, <1>3, GoesKeeps, SteadyKeeps DEF EpochInv

\* Nor does a push that is accepted.
LEMMA PushAcceptedKeeps == ASSUME EpochInv, NEW h \in Hops, PushAccepted(h) PROVE EpochInv'
<1> DEFINE t == [turn[h] EXCEPT !.pc = "answered", !.batch = {Through(h, "up", "events")}]
<1>1. Goes(h, t) /\ Moved(h, config[h]) /\ UNCHANGED <<config, prepared>>
  BY DEF PushAccepted, Accept, resetVars
<1>2. Shape(t) /\ t.epoch = turn[h].epoch
  BY DEF EpochInv, Shape, Resting
<1> HIDE DEF t
<1>3. config[h] \in Nat
  BY DEF EpochInv
<1> QED BY <1>1, <1>2, <1>3, GoesKeeps, MoveKeeps

\* Nor does its acknowledgement.
LEMMA TakeAckKeeps == ASSUME EpochInv, NEW h \in Hops, TakeAck(h) PROVE EpochInv'
<1> DEFINE m == [More(turn[h]) EXCEPT !.pc = "push"]
           t == IF Spent(turn[h]) THEN Pushed(Left(turn[h])) ELSE m
<1>1. Goes(h, t)
  BY DEF TakeAck
<1>2. Shape(t) /\ t.epoch = turn[h].epoch
  <2>1. Shape(turn[h]) /\ Shape(Left(turn[h])) /\ Shape(More(turn[h]))
    BY TurnKeeps DEF EpochInv
  <2>2. Shape(m) /\ m.epoch = More(turn[h]).epoch
    BY <2>1 DEF Shape, Resting
  <2> QED BY <2>1, <2>2, TurnKeeps
<1>3. UNCHANGED <<grant, config, prepared>>
  BY DEF TakeAck
<1> HIDE DEF t
<1> QED BY <1>1, <1>2, <1>3, GoesKeeps, SteadyKeeps DEF EpochInv

\* Nor does an offer, which queues in the epoch the caller knows.
LEMMA AskOfferKeeps == ASSUME EpochInv, NEW h \in Hops, AskOffer(h) PROVE EpochInv'
<1> DEFINE ids == Offered(h, turn[h].stream, config[h])
           s == [turn[h] EXCEPT !.pc = "store", !.batch = ids]
           t == IF ids = {} THEN Pulled(turn[h]) ELSE s
<1>1. Goes(h, t) /\ Moved(h, config[h]) /\ UNCHANGED <<config, prepared>>
  BY DEF AskOffer, Offer, resetVars
<1>2. Shape(t) /\ t.epoch \in {0, turn[h].epoch}
  <2>1. Shape(turn[h])
    BY DEF EpochInv
  <2>2. Shape(s) /\ s.epoch = turn[h].epoch
    BY <2>1 DEF Shape, Resting
  <2> QED BY <2>1, <2>2, TurnKeeps
<1> HIDE DEF t
<1>3. config[h] \in Nat
  BY DEF EpochInv
<1> QED BY <1>1, <1>2, <1>3, GoesKeeps, MoveKeeps

\* Nor does storing it.
LEMMA StoreOfferKeeps == ASSUME EpochInv, NEW h \in Hops, StoreOffer(h) PROVE EpochInv'
<1> DEFINE t == [turn[h] EXCEPT !.pc = "ack", !.batch = {Through(h, "down", turn[h].stream)}]
<1>1. Goes(h, t)
  BY DEF StoreOffer
<1>2. Shape(t) /\ t.epoch = turn[h].epoch
  BY DEF EpochInv, Shape, Resting
<1>3. UNCHANGED <<grant, config, prepared>>
  BY DEF StoreOffer, resetVars
<1> HIDE DEF t
<1> QED BY <1>1, <1>2, <1>3, GoesKeeps, SteadyKeeps DEF EpochInv

\* Nor does acknowledging it.
LEMMA SendAckKeeps == ASSUME EpochInv, NEW h \in Hops, SendAck(h) PROVE EpochInv'
<1> DEFINE m == [More(turn[h]) EXCEPT !.pc = "pull"]
           t == IF Spent(turn[h]) THEN Pulled(Left(turn[h])) ELSE m
<1>1. Goes(h, t) /\ Moved(h, config[h]) /\ UNCHANGED <<config, prepared>>
  BY DEF SendAck, Ack, resetVars
<1>2. Shape(t) /\ t.epoch \in {0, turn[h].epoch}
  <2>1. /\ Shape(turn[h]) /\ Shape(Left(turn[h])) /\ Shape(More(turn[h]))
        /\ Left(turn[h]).epoch = turn[h].epoch /\ More(turn[h]).epoch = turn[h].epoch
    BY TurnKeeps DEF EpochInv
  <2>2. Shape(m) /\ m.epoch = More(turn[h]).epoch
    BY <2>1 DEF Shape, Resting
  <2> QED BY <2>1, <2>2, TurnKeeps
<1> HIDE DEF t
<1>3. config[h] \in Nat
  BY DEF EpochInv
<1> QED BY <1>1, <1>2, <1>3, GoesKeeps, MoveKeeps

\* A fetch prepares and hands out the next epoch, at most.
LEMMA FetchKeeps == ASSUME EpochInv, NEW h \in Hops, Fetch(h) PROVE EpochInv'
<1>1. PICK cp, ep : /\ ep = prepared'[h].epoch
                    /\ Goes(h, [turn[h] EXCEPT !.pc = "install", !.cp = cp, !.epoch = ep])
  BY DEF Fetch
<1> DEFINE t == [turn[h] EXCEPT !.pc = "install", !.cp = cp, !.epoch = ep]
<1>2. Shape(t) /\ t.epoch = ep
  BY DEF EpochInv, Shape, Resting
<1>3. PICK says : Create(h, says)
  BY DEF Fetch
<1>4. Goes(h, t)
  BY <1>1
<1> HIDE DEF t
<1> QED BY <1>1, <1>2, <1>3, <1>4, GoesKeeps, CreateKeeps, SteadyKeeps

\* An install moves the lower side on by one, and prepares the hops below it.
LEMMA InstallKeeps == ASSUME EpochInv, NEW h \in Hops, InstallFetched(h) PROVE EpochInv'
<1> DEFINE t == [Resting EXCEPT !.pc = "push", !.batches = 1]
           ep == turn[h].epoch
<1>1. Goes(h, t) /\ Shape(t) /\ t.epoch = 0
  BY DEF InstallFetched, Shape, Resting
<1>2. ep > config[h] /\ config' = [config EXCEPT ![h] = ep] /\ grant' = grant
  BY DEF InstallFetched, Install, Installable
<1>3. /\ DOMAIN prepared' = Hops
      /\ \A g \in Hops : prepared'[g].epoch \in {prepared[g].epoch, grant[g] + 1}
  BY DEF InstallFetched, Install, EpochInv
<1>4. \A g \in Hops : grant[g] \in Nat /\ config[g] \in Nat /\ config[g] \in grant[g] .. grant[g] + 1
  BY DEF EpochInv
<1>5. ep \in Nat /\ ep <= grant[h] + 1
  BY DEF EpochInv
<1>6. config' \in [Hops -> Nat] /\ \A g \in Hops : config[g] <= config'[g] /\ config'[g] \in grant[g] .. grant[g] + 1
  BY <1>2, <1>4, <1>5 DEF EpochInv
<1> HIDE DEF t, ep
<1>7. /\ DOMAIN turn' = Hops /\ DOMAIN late' = Hops
      /\ \A g \in Hops : late'[g] = late[g] /\ Shape(turn'[g]) /\ turn'[g].epoch \in {0, turn[g].epoch}
  BY <1>1, GoesKeeps
<1> QED BY <1>2, <1>3, <1>4, <1>6, <1>7 DEF EpochInv

\* A refused call ends the turn, and that is all.
LEMMA RefusedKeeps == ASSUME EpochInv, NEW h \in Hops, Refused(h) PROVE EpochInv'
<1>1. Goes(h, Resting) /\ UNCHANGED <<grant, config, prepared>>
  BY DEF Refused, Ends, storeVars
<1> QED BY <1>1, TurnKeeps, GoesKeeps, SteadyKeeps DEF EpochInv, Shape

\* An aborted turn may leave its call on the way, made in an epoch reached.
LEMMA AbortKeeps == ASSUME EpochInv, NEW h \in Hops, Abort(h) PROVE EpochInv'
<1>1. turn' = [turn EXCEPT ![h] = Resting] /\ UNCHANGED <<grant, config, prepared>>
  BY DEF Abort, storeVars
<1>2. PICK calls \in SUBSET CallOf(turn[h], config[h]) : late' = [late EXCEPT ![h] = @ \cup calls]
  BY DEF Abort
<1>3. \A c \in CallOf(turn[h], config[h]) : c.kind \in Calls /\ c.epoch = config[h]
  BY DEF CallOf, Calls
<1>4. /\ DOMAIN turn' = Hops
      /\ \A g \in Hops : Shape(turn'[g]) /\ turn'[g].epoch \in {0, turn[g].epoch}
  BY <1>1 DEF EpochInv, Shape, Resting
<1>5. /\ DOMAIN late' = Hops
      /\ \A g \in Hops : \A c \in late'[g] : c \in late[g] \/ (c.kind \in Calls /\ c.epoch = config[g])
  BY <1>2, <1>3 DEF EpochInv
<1> QED BY <1>1, <1>4, <1>5, SteadyKeeps DEF EpochInv

\* A late call moves the hub on only from the epoch it was made in.
LEMMA LateCallKeeps == ASSUME EpochInv, NEW h \in Hops, LateCall(h) PROVE EpochInv'
<1>1. PICK c \in late[h], says \in RelayGrowth :
          Served(h, c, says) /\ late' = [late EXCEPT ![h] = @ \ {c}]
  BY DEF LateCall
<1>2. /\ DOMAIN turn' = Hops /\ turn' = turn
      /\ \A g \in Hops : Shape(turn'[g]) /\ turn'[g].epoch \in {0, turn[g].epoch}
  BY DEF LateCall, EpochInv
<1>3. DOMAIN late' = Hops /\ \A g \in Hops : late'[g] \subseteq late[g]
  BY <1>1 DEF EpochInv
<1>4. c.epoch \in Nat /\ c.epoch <= config[h]
  BY DEF EpochInv
<1>5. CASE Moved(h, c.epoch) /\ UNCHANGED <<config, prepared>>
  BY <1>2, <1>3, <1>4, <1>5, MoveKeeps
<1>6. CASE Create(h, says)
  BY <1>2, <1>3, <1>6, CreateKeeps, SteadyKeeps
<1>7. (Moved(h, c.epoch) /\ UNCHANGED <<config, prepared>>) \/ Create(h, says)
  <2>1. CASE c.kind \in {"accept", "offer", "ack"}
    BY <1>1, <2>1 DEF Served, Accept, Offer, Ack, resetVars
  <2>2. CASE c.kind = "create"
    BY <1>1, <2>2 DEF Served
  <2>3. c.kind \in Calls
    BY DEF EpochInv
  <2> QED BY <2>1, <2>2, <2>3 DEF Calls
<1> QED BY <1>5, <1>6, <1>7

\* A lost call does nothing.
LEMMA LateCallLostKeeps == ASSUME EpochInv, NEW h \in Hops, LateCallLost(h) PROVE EpochInv'
<1>1. PICK c \in late[h] : late' = [late EXCEPT ![h] = @ \ {c}]
  BY DEF LateCallLost
<1>2. UNCHANGED <<turn, grant, config, prepared>>
  BY DEF LateCallLost, storeVars
<1>3. DOMAIN late' = Hops /\ \A g \in Hops : late'[g] \subseteq late[g]
  BY <1>1 DEF EpochInv
<1> QED BY <1>2, <1>3 DEF EpochInv, Shape

\* Users and purges move no epoch.
LEMMA UsersKeep ==
    ASSUME EpochInv, (\E n \in Nodes : Edit(n)) \/ (\E e \in DOMAIN born : Purge(e)) \/ UNCHANGED vars
    PROVE  EpochInv'
<1>1. UNCHANGED <<grant, config, prepared, turn, late>>
  BY DEF Edit, Purge, vars, resetVars
<1> QED BY <1>1 DEF EpochInv, Shape

\* Every step keeps the two sides of every hop within one epoch.
LEMMA StepKeeps == ASSUME EpochInv, [Next]_vars PROVE EpochInv'
<1>1. ASSUME NEW h \in Hops, Proceed(h) PROVE EpochInv'
  BY <1>1, HelloKeeps, ReadPendingKeeps, PushAcceptedKeeps, TakeAckKeeps, AskOfferKeeps,
     StoreOfferKeeps, SendAckKeeps, FetchKeeps, InstallKeeps, RefusedKeeps DEF Proceed
<1>2. ASSUME NEW h \in Hops, Abort(h) \/ LateCall(h) \/ LateCallLost(h) PROVE EpochInv'
  BY <1>2, AbortKeeps, LateCallKeeps, LateCallLostKeeps
<1> QED BY <1>1, <1>2, UsersKeep DEF Next

\* A relay hop is at one epoch on both sides or its lower side is one ahead,
\* whatever checkpoints are taken, refreshed, forwarded and installed, and whatever
\* calls are served late: the next call is for an epoch the peer admits.
THEOREM EpochsAlwaysMeet == Spec => []EpochsMeet
<1>1. EpochInv => EpochsMeet
  BY DEF EpochInv, EpochsMeet
<1> QED BY <1>1, InitEpochs, StepKeeps, PTL DEF Spec

---------------------------------------------------------------------------
(* Positions in finite sets of numbers                                     *)

\* The positions in a finite set of numbers are distinct, and its cardinality's numbers.
LEMMA Positions ==
    ASSUME NEW S \in SUBSET Nat, IsFiniteSet(S)
    PROVE  /\ Cardinality(S) \in Nat
           /\ \A x \in S : Cardinality({y \in S : y <= x}) \in 1..Cardinality(S)
           /\ \A x, z \in S :
                 x < z => Cardinality({y \in S : y <= x}) < Cardinality({y \in S : y <= z})
<1>1. Cardinality(S) \in Nat
  BY FS_CardinalityType
<1>2. ASSUME NEW x \in S PROVE Cardinality({y \in S : y <= x}) \in 1..Cardinality(S)
  <2> DEFINE T == {y \in S : y <= x}
  <2>1. T \in SUBSET S /\ x \in T
    OBVIOUS
  <2>2. IsFiniteSet(T) /\ Cardinality(T) <= Cardinality(S) /\ Cardinality(T) \in Nat
    BY <2>1, FS_Subset, FS_CardinalityType
  <2>3. Cardinality(T) # 0
    BY <2>1, <2>2, FS_EmptySet
  <2> QED BY <1>1, <2>2, <2>3
<1>3. ASSUME NEW x \in S, NEW z \in S, x < z
      PROVE  Cardinality({y \in S : y <= x}) < Cardinality({y \in S : y <= z})
  <2> DEFINE A == {y \in S : y <= x}
             B == {y \in S : y <= z}
  <2>1. A \subseteq B /\ z \in B /\ z \notin A
    <3>1. \A y \in S : y <= x => y <= z
      BY <1>3
    <3>2. ~(z <= x) /\ z <= z
      BY <1>3
    <3> QED BY <3>1, <3>2
  <2>2. IsFiniteSet(A) /\ IsFiniteSet(B)
    BY FS_Subset
  <2>3. Cardinality(A) <= Cardinality(B) /\ Cardinality(A) # Cardinality(B)
        /\ Cardinality(A) \in Nat /\ Cardinality(B) \in Nat
    <3> HIDE DEF A, B
    <3> QED BY <2>1, <2>2, FS_Subset, FS_CardinalityType
  <2> QED BY <2>3
<1> QED BY <1>1, <1>2, <1>3

\* Every number up to its cardinality is the position of an element of a set.
LEMMA PositionsOnto ==
    ASSUME NEW S \in SUBSET Nat, IsFiniteSet(S), NEW n \in 1..Cardinality(S)
    PROVE  \E x \in S : Cardinality({y \in S : y <= x}) = n
<1> DEFINE f == [x \in S |-> Cardinality({y \in S : y <= x})]
           N == 1..Cardinality(S)
<1>1. f \in [S -> N]
  BY Positions
<1>2. \A x, z \in S : f[x] = f[z] => x = z
  <2> SUFFICES ASSUME NEW x \in S, NEW z \in S, f[x] = f[z], x # z PROVE FALSE
    OBVIOUS
  <2>1. x < z \/ z < x
    OBVIOUS
  <2>2. f[x] < f[z] \/ f[z] < f[x]
    BY <2>1, Positions
  <2>3. f[x] \in Nat /\ f[z] \in Nat
    BY Positions
  <2> HIDE DEF f
  <2> QED BY <2>2, <2>3
<1>3. f \in Injection(S, N)
  <2> HIDE DEF f, N
  <2> QED BY <1>1, <1>2 DEF Injection, IsInjective
<1>4. Cardinality(S) \in Nat
  BY FS_CardinalityType
<1>5. IsFiniteSet(N) /\ Cardinality(N) = Cardinality(S)
  BY <1>4, FS_Interval
<1>6. f \in Surjection(S, N)
  <2> HIDE DEF f, N
  <2> QED BY <1>3, <1>5, FS_Injection
<1>7. PICK x \in S : f[x] = n
  <2> HIDE DEF f
  <2> QED BY <1>6 DEF Surjection
<1> QED BY <1>7

\* Nth is what its name says.
LEMMA NthIs ==
    ASSUME NEW S \in SUBSET Nat, IsFiniteSet(S)
    PROVE  /\ Cardinality(S) \in Nat
           /\ \A k \in 1..Cardinality(S) : Nth(S, k) \in S
           /\ \A j, k \in 1..Cardinality(S) : Nth(S, j) = Nth(S, k) => j = k
           /\ \A x \in S : \E k \in 1..Cardinality(S) : Nth(S, k) = x
<1>1. ASSUME NEW k \in 1..Cardinality(S)
      PROVE  Nth(S, k) \in S /\ Cardinality({y \in S : y <= Nth(S, k)}) = k
  BY PositionsOnto DEF Nth
<1>2. ASSUME NEW x \in S
      PROVE  \E k \in 1..Cardinality(S) : Nth(S, k) = x
  <2> DEFINE k == Cardinality({y \in S : y <= x})
  <2>1. k \in 1..Cardinality(S)
    BY Positions
  <2>2. Nth(S, k) \in S /\ Cardinality({y \in S : y <= Nth(S, k)}) = k
    BY <1>1, <2>1
  <2>3. k \in Nat
    BY <2>1
  <2>4. \A m \in S : Cardinality({y \in S : y <= m}) = k => m = x
    <3> SUFFICES ASSUME NEW m \in S, Cardinality({y \in S : y <= m}) = k, m # x PROVE FALSE
      OBVIOUS
    <3>1. m < x \/ x < m
      OBVIOUS
    <3>2. Cardinality({y \in S : y <= m}) < k \/ k < Cardinality({y \in S : y <= m})
      BY <3>1, Positions
    <3> HIDE DEF k
    <3> QED BY <2>3, <3>2
  <2>5. Nth(S, k) = x
    <3> HIDE DEF k
    <3> QED BY <2>2, <2>4
  <2> QED BY <2>1, <2>5
<1> QED BY <1>1, <1>2, Positions

\* Top is the greatest of a finite set of numbers, or 0.
LEMMA TopIs ==
    ASSUME NEW S \in SUBSET Nat, IsFiniteSet(S)
    PROVE  Top(S) \in S \cup {0} /\ Top(S) \in Nat /\ \A y \in S : y <= Top(S)
<1>1. CASE S = {}
  BY <1>1 DEF Top
<1>2. CASE S # {}
  <2>1. Cardinality(S) \in 1..Cardinality(S)
    BY <1>2, FS_EmptySet, FS_CardinalityType
  <2>2. PICK x \in S : Cardinality({y \in S : y <= x}) = Cardinality(S)
    BY <2>1, PositionsOnto
  <2>3. {y \in S : y <= x} = S
    BY <2>2, FS_Subset
  <2>4. \E z \in S : \A y \in S : y <= z
    BY <2>3
  <2> QED BY <1>2, <2>4 DEF Top
<1> QED BY <1>1, <1>2

\* Lowest takes a set from below.
LEMMA LowestIs ==
    ASSUME NEW S \in SUBSET Nat, IsFiniteSet(S), NEW n \in Nat
    PROVE  /\ Lowest(S, n) \subseteq S
           /\ \A x \in Lowest(S, n), y \in S : y < x => y \in Lowest(S, n)
<1>1. ASSUME NEW x \in Lowest(S, n), NEW y \in S, y < x PROVE y \in Lowest(S, n)
  <2>1. x \in S /\ Cardinality({z \in S : z <= x}) <= n
    BY DEF Lowest
  <2>2. Cardinality({z \in S : z <= y}) < Cardinality({z \in S : z <= x})
    BY <1>1, <2>1, Positions
  <2>3. Cardinality({z \in S : z <= y}) \in Nat /\ Cardinality({z \in S : z <= x}) \in Nat
    BY <2>1, Positions
  <2>4. Cardinality({z \in S : z <= y}) <= n
    BY <2>1, <2>2, <2>3
  <2> QED BY <2>4 DEF Lowest
<1> QED BY <1>1 DEF Lowest

\* A function on 1..n is a sequence of length n.
LEMMA FunIsSeq ==
    ASSUME NEW S, NEW n \in Nat, NEW f \in [1..n -> S]
    PROVE  f \in Seq(S) /\ Len(f) = n /\ DOMAIN f = 1..n
OBVIOUS

---------------------------------------------------------------------------
(* Outboxes and what is queued into them                                   *)

Body == [stream : Streams, event : Nat, path : SUBSET Nodes]

\* A record is of an event that was written, and a receipt of one that was signed.
Known(b, E, R) == b.event \in E /\ (b.stream = "receipts" => b.event \in R)
AllKnown(s, E, R) == \A i \in DOMAIN s : Known(s[i], E, R)

\* The sequence numbers of an outbox are a finite set of numbers.
LEMMA RowIds ==
    ASSUME NEW S, NEW rows \in Seq(S), NEW ids \in SUBSET DOMAIN rows
    PROVE  ids \in SUBSET Nat /\ IsFiniteSet(ids) /\ Cardinality(ids) \in Nat
<1>1. Len(rows) \in Nat /\ DOMAIN rows = 1..Len(rows)
  OBVIOUS
<1>2. IsFiniteSet(1..Len(rows))
  BY <1>1, FS_Interval
<1> QED BY <1>1, <1>2, FS_Subset, FS_CardinalityType

\* What queueing does: the rows stay as they are, a new row is one of the bodies and
\* queued in the epoch, no row of the epoch is there twice, and the bodies that the
\* receiver has not sent itself are there.
Prolongs(rows, r) == r \in Seq(Row) /\ Len(rows) <= Len(r) /\ \A i \in DOMAIN rows : r[i] = rows[i]
FromBodies(rows, r, ep, bodies) ==
    \A i \in DOMAIN r : i > Len(rows) =>
        /\ r[i].epoch = ep /\ r[i].state = "queued"
        /\ \E k \in DOMAIN bodies : Same(r[i], bodies[k])
NoRowTwice(rows, r, ep) ==
    \A i, j \in DOMAIN r :
        i > Len(rows) /\ Same(r[j], r[i]) /\ r[j].epoch = ep /\ r[j].state # "deleted" => j = i
AllThere(r, receiver, ep, bodies) ==
    \A k \in DOMAIN bodies :
        receiver \notin bodies[k].path /\ (\A j \in 1..(k - 1) : ~Same(bodies[j], bodies[k]))
        => \E i \in DOMAIN r : Same(r[i], bodies[k]) /\ r[i].epoch = ep

\* What queueing returns: a longer outbox of the old rows and the bodies.
LEMMA EnqueueIs ==
    ASSUME NEW rows \in Seq(Row), NEW receiver, NEW ep \in Nat, NEW bodies \in Seq(Body),
           NEW r, r = Enqueue(rows, receiver, ep, bodies)
    PROVE  /\ Prolongs(rows, r) /\ FromBodies(rows, r, ep, bodies)
           /\ NoRowTwice(rows, r, ep) /\ AllThere(r, receiver, ep, bodies)
<1> DEFINE new == Wanted(rows, receiver, ep, bodies)
           n == Cardinality(new)
           B(k) == bodies[Nth(new, k)]
           added == [k \in 1..n |-> [stream |-> B(k).stream, event |-> B(k).event,
                                     epoch |-> ep, path |-> B(k).path, state |-> "queued"]]
<1>1. new \in SUBSET DOMAIN bodies
  BY DEF Wanted
<1>2. new \in SUBSET Nat /\ IsFiniteSet(new) /\ n \in Nat
  BY <1>1, RowIds
<1>3. /\ \A k \in 1..n : Nth(new, k) \in new
      /\ \A j, k \in 1..n : Nth(new, j) = Nth(new, k) => j = k
      /\ \A x \in new : \E k \in 1..n : Nth(new, k) = x
  <2> HIDE DEF new
  <2> QED BY <1>2, NthIs
<1>4. \A k \in DOMAIN bodies : bodies[k] \in Body
  OBVIOUS
<1>5. \A k \in 1..n : B(k) \in Body
  <2> HIDE DEF new
  <2> QED BY <1>1, <1>3, <1>4
<1>6. added \in [1..n -> Row]
  <2> HIDE DEF n, new
  <2> QED BY <1>5 DEF Body, Row, States
<1>7. added \in Seq(Row) /\ Len(added) = n
  <2> HIDE DEF added, n
  <2> QED BY <1>2, <1>6, FunIsSeq
<1>8. r = rows \o added
  BY DEF Enqueue
<1>9. /\ \A k \in 1..n : /\ Same(added[k], B(k))
                         /\ added[k].epoch = ep /\ added[k].state = "queued"
  <2> HIDE DEF n, new
  <2> QED BY DEF Same
<1>10. \A k \in new :
          /\ \A i \in DOMAIN rows :
                ~(Same(rows[i], bodies[k]) /\ rows[i].epoch = ep /\ rows[i].state # "deleted")
          /\ \A j \in new : Same(bodies[j], bodies[k]) => j = k
  <2> SUFFICES ASSUME NEW k \in new, NEW j \in new, Same(bodies[j], bodies[k]), j # k PROVE FALSE
    BY DEF Wanted
  <2>1. j \in Nat /\ k \in Nat /\ j >= 1 /\ k >= 1
    BY <1>1
  <2>2. j < k \/ k < j
    BY <2>1
  <2>3. j \in 1..(k - 1) \/ k \in 1..(j - 1)
    BY <2>1, <2>2
  <2> QED BY <2>3 DEF Wanted, Same
<1>11. \A i \in 1..n, j \in 1..n : Same(added[j], added[i]) => j = i
  <2> SUFFICES ASSUME NEW i \in 1..n, NEW j \in 1..n, Same(added[j], added[i]) PROVE j = i
    OBVIOUS
  <2>1. Same(B(j), B(i))
    BY <1>9 DEF Same
  <2>2. Nth(new, j) = Nth(new, i)
    <3> HIDE DEF new, n
    <3> QED BY <1>3, <1>10, <2>1
  <2> QED BY <1>3, <2>2
<1>12. \A i \in 1..n, j \in DOMAIN rows :
          ~(Same(rows[j], added[i]) /\ rows[j].epoch = ep /\ rows[j].state # "deleted")
  <2> SUFFICES ASSUME NEW i \in 1..n, NEW j \in DOMAIN rows, Same(rows[j], added[i]), rows[j].epoch = ep,
                      rows[j].state # "deleted" PROVE FALSE
    OBVIOUS
  <2>1. Same(rows[j], B(i))
    BY <1>9 DEF Same
  <2> HIDE DEF new, n
  <2> QED BY <1>3, <1>10, <2>1
<1>13. /\ r \in Seq(Row) /\ Len(r) = Len(rows) + n
       /\ \A i \in 1..(Len(rows) + n) : r[i] = IF i <= Len(rows) THEN rows[i] ELSE added[i - Len(rows)]
  <2> HIDE DEF added, n
  <2> QED BY <1>7, <1>8, ConcatProperties
<1>14. Len(rows) \in Nat /\ DOMAIN rows = 1..Len(rows) /\ DOMAIN r = 1..(Len(rows) + n)
  <2> HIDE DEF added, n
  <2> QED BY <1>13
<1> DEFINE L == Len(rows)
<1>15. \A i \in DOMAIN r : i > L => i - L \in 1..n /\ r[i] = added[i - L]
  <2> HIDE DEF added, n
  <2> QED BY <1>2, <1>13, <1>14
<1>16. \A i \in DOMAIN r : i <= L => i \in DOMAIN rows /\ r[i] = rows[i]
  <2> HIDE DEF added, n
  <2> QED BY <1>2, <1>13, <1>14
<1>17. \A k \in 1..n : L + k \in DOMAIN r /\ r[L + k] = added[k]
  <2> HIDE DEF added, n
  <2> SUFFICES ASSUME NEW k \in 1..n PROVE L + k \in DOMAIN r /\ r[L + k] = added[k]
    OBVIOUS
  <2>1. L + k \in 1..(L + n) /\ L + k > L /\ (L + k) - L = k
    BY <1>2, <1>14
  <2> QED BY <1>14, <1>15, <2>1
<1>18. ASSUME NEW i \in DOMAIN r, i > L
       PROVE  /\ r[i].epoch = ep /\ r[i].state = "queued"
              /\ \E k \in DOMAIN bodies : Same(r[i], bodies[k])
              /\ \A j \in DOMAIN r : Same(r[j], r[i]) /\ r[j].epoch = ep /\ r[j].state # "deleted" => j = i
  <2>1. i - L \in 1..n /\ r[i] = added[i - L]
    BY <1>15, <1>18
  <2>2. r[i].epoch = ep /\ r[i].state = "queued" /\ Same(r[i], B(i - L)) /\ Nth(new, i - L) \in DOMAIN bodies
    <3> HIDE DEF added, n, new
    <3> QED BY <1>1, <1>3, <1>9, <2>1
  <2>3. ASSUME NEW j \in DOMAIN r, Same(r[j], r[i]), r[j].epoch = ep, r[j].state # "deleted" PROVE j = i
    <3>1. CASE j > L
      <4>1. j - L \in 1..n /\ r[j] = added[j - L]
        BY <1>15, <3>1
      <4>2. j - L = i - L
        <5> HIDE DEF added, n, new
        <5> QED BY <4>1, <2>1, <2>3, <1>11
      <4> HIDE DEF added, n
      <4> QED BY <4>2, <1>14, <1>2
    <3>2. CASE j <= L
      <4>1. j \in DOMAIN rows /\ r[j] = rows[j]
        BY <1>16, <3>2
      <4> HIDE DEF added, n
      <4> QED BY <4>1, <2>1, <2>3, <1>12
    <3>3. j > L \/ j <= L
      BY <1>14, <1>2
    <3> QED BY <3>1, <3>2, <3>3
  <2> HIDE DEF new
  <2> QED BY <2>2, <2>3
<1>19. ASSUME NEW k \in DOMAIN bodies, receiver \notin bodies[k].path,
              \A j \in 1..(k - 1) : ~Same(bodies[j], bodies[k])
       PROVE  \E i \in DOMAIN r : Same(r[i], bodies[k]) /\ r[i].epoch = ep
  <2>1. CASE k \in new
    <3>1. PICK m \in 1..n : Nth(new, m) = k
      BY <1>3, <2>1
    <3>2. Same(added[m], bodies[k]) /\ added[m].epoch = ep
      BY <1>9, <3>1
    <3> HIDE DEF added, n
    <3> QED BY <3>2, <1>17
  <2>2. CASE k \notin new
    <3>1. PICK i \in DOMAIN rows : Same(rows[i], bodies[k]) /\ rows[i].epoch = ep
      BY <1>19, <2>2 DEF Wanted
    <3>2. i \in DOMAIN r /\ r[i] = rows[i]
      <4> HIDE DEF added, n
      <4> QED BY <1>13, <1>14, <1>2
    <3> QED BY <3>1, <3>2
  <2> QED BY <2>1, <2>2
<1>20. Len(rows) <= Len(r) /\ \A i \in DOMAIN rows : r[i] = rows[i]
  <2> HIDE DEF added, n
  <2> QED BY <1>2, <1>13, <1>14
<1> HIDE DEF added, n
<1>21. Prolongs(rows, r)
  BY <1>13, <1>20 DEF Prolongs
<1>22. FromBodies(rows, r, ep, bodies)
  BY <1>18 DEF FromBodies
<1>23. NoRowTwice(rows, r, ep)
  BY <1>18 DEF NoRowTwice
<1>24. AllThere(r, receiver, ep, bodies)
  BY <1>19 DEF AllThere
<1> QED BY <1>21, <1>22, <1>23, <1>24

\* Queueing what is known keeps the outbox of known events.
LEMMA EnqueueKnown ==
    ASSUME NEW rows \in Seq(Row), NEW receiver, NEW ep \in Nat, NEW bodies \in Seq(Body),
           NEW E, NEW R, AllKnown(rows, E, R), AllKnown(bodies, E, R),
           NEW r, r = Enqueue(rows, receiver, ep, bodies)
    PROVE  AllKnown(r, E, R)
<1>1. /\ r \in Seq(Row)
      /\ \A i \in DOMAIN rows : r[i] = rows[i]
      /\ \A i \in DOMAIN r : i > Len(rows) => \E k \in DOMAIN bodies : Same(r[i], bodies[k])
  <2>1. Prolongs(rows, r) /\ FromBodies(rows, r, ep, bodies)
    BY EnqueueIs
  <2> QED BY <2>1 DEF Prolongs, FromBodies
<1>2. \A i \in DOMAIN r : i \in DOMAIN rows \/ i > Len(rows)
  BY <1>1
<1>3. ASSUME NEW i \in DOMAIN r PROVE Known(r[i], E, R)
  <2>1. CASE i \in DOMAIN rows
    BY <2>1, <1>1 DEF AllKnown
  <2>2. CASE i > Len(rows)
    <3>1. PICK k \in DOMAIN bodies : Same(r[i], bodies[k])
      BY <2>2, <1>1
    <3> QED BY <3>1 DEF AllKnown, Known, Same
  <2> QED BY <1>2, <2>1, <2>2
<1> QED BY <1>3 DEF AllKnown

\* What rows carry is sent on as it is.
LEMMA BodiesIs ==
    ASSUME NEW rows \in Seq(Row), NEW ids \in SUBSET DOMAIN rows, NEW n \in Nodes,
           NEW E, NEW R, AllKnown(rows, E, R)
    PROVE  Bodies(rows, ids, n) \in Seq(Body) /\ AllKnown(Bodies(rows, ids, n), E, R)
<1> DEFINE c == Cardinality(ids)
           B == Bodies(rows, ids, n)
<1>1. ids \in SUBSET Nat /\ IsFiniteSet(ids) /\ c \in Nat
  BY RowIds
<1>2. \A k \in 1..c : Nth(ids, k) \in ids
  BY <1>1, NthIs
<1>3. \A i \in DOMAIN rows : rows[i] \in Row
  OBVIOUS
<1>4. B \in [1..c -> Body]
  <2>1. \A k \in 1..c : rows[Nth(ids, k)] \in Row
    BY <1>2, <1>3
  <2> QED BY <2>1 DEF Bodies, Body, Row
<1>5. B \in Seq(Body) /\ DOMAIN B = 1..c
  <2> HIDE DEF B, c
  <2> QED BY <1>1, <1>4, FunIsSeq
<1>6. ASSUME NEW k \in 1..c PROVE Known(B[k], E, R)
  <2>1. Known(rows[Nth(ids, k)], E, R)
    BY <1>2 DEF AllKnown
  <2>2. B[k].event = rows[Nth(ids, k)].event /\ B[k].stream = rows[Nth(ids, k)].stream
    BY DEF Bodies
  <2> QED BY <2>1, <2>2 DEF Known
<1> HIDE DEF B, c
<1>7. AllKnown(B, E, R)
  BY <1>5, <1>6 DEF AllKnown
<1> QED BY <1>5, <1>7 DEF B

\* Bodies of known events, one after the other, are bodies of known events.
LEMMA ConcatKnown ==
    ASSUME NEW a \in Seq(Body), NEW b \in Seq(Body), NEW E, NEW R, AllKnown(a, E, R),
           AllKnown(b, E, R)
    PROVE  a \o b \in Seq(Body) /\ AllKnown(a \o b, E, R)
<1>1. /\ a \o b \in Seq(Body) /\ Len(a \o b) = Len(a) + Len(b)
      /\ \A i \in 1 .. Len(a) + Len(b) : (a \o b)[i] = IF i <= Len(a) THEN a[i] ELSE b[i - Len(a)]
  BY ConcatProperties
<1>2. Len(a) \in Nat /\ Len(b) \in Nat /\ DOMAIN a = 1..Len(a) /\ DOMAIN b = 1..Len(b)
  OBVIOUS
<1>3. DOMAIN (a \o b) = 1 .. Len(a) + Len(b)
  BY <1>1
<1>4. ASSUME NEW i \in DOMAIN (a \o b) PROVE Known((a \o b)[i], E, R)
  <2>1. CASE i <= Len(a)
    <3>1. i \in DOMAIN a /\ (a \o b)[i] = a[i]
      BY <1>1, <1>2, <1>3, <2>1
    <3> QED BY <3>1 DEF AllKnown
  <2>2. CASE ~(i <= Len(a))
    <3>1. i - Len(a) \in DOMAIN b /\ (a \o b)[i] = b[i - Len(a)]
      BY <1>1, <1>2, <1>3, <2>2
    <3> QED BY <3>1 DEF AllKnown
  <2> QED BY <2>1, <2>2
<1> QED BY <1>1, <1>4 DEF AllKnown

\* Sequences of events as the bodies of receipts and of replayed events.
LEMMA ProofsIs ==
    ASSUME NEW events \in Seq(Nat), Root \in Nodes, NEW E, NEW R,
           Elements(events) \subseteq E \cap R
    PROVE  /\ Proofs(events) \in Seq(Body) /\ AllKnown(Proofs(events), E, R)
           /\ \A n \in Nodes : Receipted(n, events) \in Seq(Body) /\ AllKnown(Receipted(n, events), E, R)
<1>1. Len(events) \in Nat /\ DOMAIN events = 1..Len(events) /\ \A k \in DOMAIN events : events[k] \in Nat
  OBVIOUS
<1>2. \A k \in DOMAIN events : events[k] \in E /\ events[k] \in R
  BY DEF Elements
<1>3. Proofs(events) \in [1..Len(events) -> Body]
  BY <1>1 DEF Proofs, Body, Streams
<1>4. Proofs(events) \in Seq(Body) /\ DOMAIN Proofs(events) = DOMAIN events
  BY <1>1, <1>3, FunIsSeq
<1>5. \A k \in DOMAIN events : Proofs(events)[k].event = events[k]
  BY DEF Proofs
<1>6. ASSUME NEW n \in Nodes PROVE Receipted(n, events) \in Seq(Body) /\ AllKnown(Receipted(n, events), E, R)
  <2>1. Receipted(n, events) \in [1..Len(events) -> Body]
    BY <1>1 DEF Receipted, Body, Streams
  <2>2. Receipted(n, events) \in Seq(Body) /\ DOMAIN Receipted(n, events) = DOMAIN events
    BY <1>1, <2>1, FunIsSeq
  <2>3. \A k \in DOMAIN events : Receipted(n, events)[k].event = events[k]
    BY DEF Receipted
  <2> QED BY <1>2, <2>2, <2>3 DEF AllKnown, Known
<1> QED BY <1>2, <1>4, <1>5, <1>6 DEF AllKnown, Known

\* What a reset replays are bodies of events that were written.
LEMMA ReplayedIs ==
    ASSUME NEW events \in Seq(Nat), NEW n \in Nodes, born \in Seq(Nodes), NEW R,
           Elements(events) \subseteq DOMAIN born
    PROVE  Replayed(n, events) \in Seq(Body) /\ AllKnown(Replayed(n, events), DOMAIN born, R)
<1>1. Len(events) \in Nat /\ DOMAIN events = 1..Len(events) /\ \A k \in DOMAIN events : events[k] \in Nat
  OBVIOUS
<1>2. \A k \in DOMAIN events : events[k] \in DOMAIN born
  BY DEF Elements
<1>3. \A e \in DOMAIN born : born[e] \in Nodes
  OBVIOUS
<1>4. Replayed(n, events) \in [1..Len(events) -> Body]
  BY <1>1, <1>2, <1>3 DEF Replayed, Body, Streams
<1>5. Replayed(n, events) \in Seq(Body) /\ DOMAIN Replayed(n, events) = DOMAIN events
  BY <1>1, <1>4, FunIsSeq
<1>6. \A k \in DOMAIN events : Replayed(n, events)[k].event = events[k] /\ Replayed(n, events)[k].stream = "events"
  BY DEF Replayed
<1> QED BY <1>2, <1>5, <1>6 DEF AllKnown, Known

---------------------------------------------------------------------------
(* One direction of a hop: its rows, what was accepted of them, the epoch  *)
(* above and below, and what a checkpoint stands in for                    *)

Sent == {"emitted", "acked"}
Record == [epoch : Nat, next : Nat, through : Nat]

\* Rows of one stream, event and epoch are one row, unless deleted; a row of an epoch
\* the hop has not moved into was not sent; only sent rows are accepted.
RowsOK(d, rows, ib, g, c) ==
    /\ rows \in Seq(Row)
    /\ \A i, j \in DOMAIN rows :
          /\ Same(rows[i], rows[j]) /\ rows[i].epoch = rows[j].epoch
          /\ rows[i].state # "deleted" /\ rows[j].state # "deleted"
          => i = j
    /\ \A i \in DOMAIN rows :
          /\ rows[i].epoch <= (IF d = "up" THEN c ELSE g + 1)
          /\ rows[i].state = "deleted" => d = "down"
          /\ d = "down" /\ rows[i].epoch > g => rows[i].state \notin Sent
    /\ \A i \in ib : i \in DOMAIN rows /\ rows[i].state \in Sent

\* A row the other end will not ask for again: it has it, or the row was deleted, is of
\* an epoch left behind, or is an event that a checkpoint stands in for.
Passed(d, rows, ib, g, sup, i) ==
    \/ i \in ib
    \/ /\ d = "down"
       /\ \/ rows[i].state = "deleted"
          \/ rows[i].epoch < g
          \/ rows[i].stream = "events" /\ rows[i].epoch = sup.epoch /\ i <= sup.through

Before(rows, i, j) == i < j /\ rows[i].stream = rows[j].stream /\ rows[i].epoch = rows[j].epoch

\* What precedes an accepted row, and what is acknowledged, has passed.
OrderOK(d, rows, ib, g, sup) ==
    /\ \A j \in ib : \A i \in DOMAIN rows : Before(rows, i, j) => Passed(d, rows, ib, g, sup, i)
    /\ \A i \in DOMAIN rows : rows[i].state = "acked" => Passed(d, rows, ib, g, sup, i)

LinkOK(d, rows, ib, g, c, sup) == RowsOK(d, rows, ib, g, c) /\ OrderOK(d, rows, ib, g, sup)

\* Rows go on: they stay, sent ones stay sent, and what has passed has passed.
Later(d, r1, b1, g1, s1, r2, b2, g2, s2) ==
    /\ r2 \in Seq(Row) /\ Len(r1) <= Len(r2) /\ b1 \subseteq b2
    /\ \A i \in DOMAIN r1 :
          /\ r2[i].stream = r1[i].stream /\ r2[i].event = r1[i].event /\ r2[i].epoch = r1[i].epoch
          /\ r1[i].state \in Sent => r2[i].state \in Sent
          /\ Passed(d, r1, b1, g1, s1, i) => Passed(d, r2, b2, g2, s2, i)

\* Rows that stay as they are go on.
LEMMA LaterReflexive ==
    ASSUME NEW d, NEW r \in Seq(Row), NEW b, NEW g, NEW s
    PROVE  Later(d, r, b, g, s, r, b, g, s)
BY DEF Later

\* Rows that go on twice go on.
LEMMA LaterTransitive ==
    ASSUME NEW d, NEW r1 \in Seq(Row), NEW b1, NEW g1, NEW s1, NEW r2 \in Seq(Row), NEW b2, NEW g2,
           NEW s2,
           NEW r3, NEW b3, NEW g3, NEW s3,
           Later(d, r1, b1, g1, s1, r2, b2, g2, s2), Later(d, r2, b2, g2, s2, r3, b3, g3, s3)
    PROVE  Later(d, r1, b1, g1, s1, r3, b3, g3, s3)
<1>1. r3 \in Seq(Row) /\ b1 \subseteq b3
  BY DEF Later
<1>2. Len(r1) <= Len(r3) /\ \A i \in DOMAIN r1 : i \in DOMAIN r2
  <2>1. /\ Len(r1) \in Nat /\ Len(r2) \in Nat /\ Len(r3) \in Nat
        /\ DOMAIN r1 = 1..Len(r1) /\ DOMAIN r2 = 1..Len(r2)
    BY <1>1
  <2>2. Len(r1) <= Len(r2) /\ Len(r2) <= Len(r3)
    BY DEF Later
  <2> QED BY <2>1, <2>2
<1>3. ASSUME NEW i \in DOMAIN r1
      PROVE  /\ r3[i].stream = r1[i].stream /\ r3[i].event = r1[i].event /\ r3[i].epoch = r1[i].epoch
             /\ r1[i].state \in Sent => r3[i].state \in Sent
             /\ Passed(d, r1, b1, g1, s1, i) => Passed(d, r3, b3, g3, s3, i)
  BY <1>2 DEF Later
<1> QED BY <1>1, <1>2, <1>3 DEF Later

\* New rows, queued in an epoch the sender may write for.
LEMMA EnqueueLink ==
    ASSUME NEW d \in Dirs, NEW rows, NEW ib, NEW g \in Nat, NEW c \in Nat, NEW sup,
           LinkOK(d, rows, ib, g, c, sup),
           NEW receiver, NEW ep \in Nat, NEW bodies \in Seq(Body),
           ep <= (IF d = "up" THEN c ELSE g + 1),
           NEW r, r = Enqueue(rows, receiver, ep, bodies)
    PROVE  LinkOK(d, r, ib, g, c, sup) /\ Later(d, rows, ib, g, sup, r, ib, g, sup)
<1>1. rows \in Seq(Row)
  BY DEF LinkOK, RowsOK
<1>2. /\ Prolongs(rows, r) /\ FromBodies(rows, r, ep, bodies)
      /\ NoRowTwice(rows, r, ep) /\ AllThere(r, receiver, ep, bodies)
  BY <1>1, EnqueueIs
<1>3. /\ r \in Seq(Row) /\ Len(rows) <= Len(r) /\ Len(rows) \in Nat /\ DOMAIN rows = 1..Len(rows)
      /\ Len(r) \in Nat /\ DOMAIN r = 1..Len(r)
      /\ \A i \in DOMAIN rows : r[i] = rows[i]
  BY <1>1, <1>2 DEF Prolongs
<1>4. /\ \A i \in DOMAIN r : i \in DOMAIN rows \/ i > Len(rows)
      /\ \A i \in DOMAIN rows : i \in DOMAIN r
  BY <1>3
<1>5. \A i \in DOMAIN r : i > Len(rows) => r[i].epoch = ep /\ r[i].state = "queued"
  BY <1>2 DEF FromBodies
<1>6. RowsOK(d, r, ib, g, c)
  <2>1. ASSUME NEW i \in DOMAIN r, NEW j \in DOMAIN r, Same(r[i], r[j]), r[i].epoch = r[j].epoch,
               r[i].state # "deleted", r[j].state # "deleted"
        PROVE  i = j
    <3>1. CASE i > Len(rows)
      <4>1. Same(r[j], r[i]) /\ r[j].epoch = ep
        BY <1>5, <2>1, <3>1 DEF Same
      <4> QED BY <1>2, <2>1, <3>1, <4>1 DEF NoRowTwice
    <3>2. CASE j > Len(rows)
      <4>1. r[i].epoch = ep
        BY <1>5, <2>1, <3>2
      <4> QED BY <1>2, <2>1, <3>2, <4>1 DEF NoRowTwice
    <3>3. CASE i \in DOMAIN rows /\ j \in DOMAIN rows
      BY <1>3, <2>1, <3>3 DEF LinkOK, RowsOK
    <3> QED BY <1>4, <3>1, <3>2, <3>3
  <2>2. ASSUME NEW i \in DOMAIN r
        PROVE  /\ r[i].epoch <= (IF d = "up" THEN c ELSE g + 1)
               /\ r[i].state = "deleted" => d = "down"
               /\ d = "down" /\ r[i].epoch > g => r[i].state \notin Sent
    <3>1. CASE i \in DOMAIN rows
      BY <1>3, <3>1 DEF LinkOK, RowsOK
    <3>2. CASE i > Len(rows)
      BY <1>5, <3>2 DEF Sent
    <3> QED BY <1>4, <3>1, <3>2
  <2>3. \A i \in ib : i \in DOMAIN r /\ r[i].state \in Sent
    BY <1>3, <1>4 DEF LinkOK, RowsOK
  <2> QED BY <1>3, <2>1, <2>2, <2>3 DEF RowsOK
<1>7. \A i \in DOMAIN rows : Passed(d, r, ib, g, sup, i) <=> Passed(d, rows, ib, g, sup, i)
  BY <1>3 DEF Passed
<1>8. OrderOK(d, r, ib, g, sup)
  <2>1. ASSUME NEW j \in ib, NEW i \in DOMAIN r, Before(r, i, j) PROVE Passed(d, r, ib, g, sup, i)
    <3>1. j \in DOMAIN rows
      BY DEF LinkOK, RowsOK
    <3>2. i \in DOMAIN rows
      <4>1. i < j /\ j \in 1..Len(rows) /\ i \in 1..Len(r)
        BY <1>3, <2>1, <3>1 DEF Before
      <4> QED BY <1>3, <4>1
    <3>3. Before(rows, i, j)
      BY <1>3, <2>1, <3>1, <3>2 DEF Before
    <3> QED BY <1>7, <3>2, <3>3 DEF LinkOK, OrderOK
  <2>2. ASSUME NEW i \in DOMAIN r, r[i].state = "acked" PROVE Passed(d, r, ib, g, sup, i)
    <3>1. i \in DOMAIN rows
      BY <1>4, <1>5, <2>2
    <3> QED BY <1>3, <1>7, <2>2, <3>1 DEF LinkOK, OrderOK
  <2> QED BY <2>1, <2>2 DEF OrderOK
<1>9. Later(d, rows, ib, g, sup, r, ib, g, sup)
  BY <1>3, <1>7 DEF Later
<1> QED BY <1>6, <1>8, <1>9 DEF LinkOK

\* The row goes to a state it may go to, and stays as it is otherwise.
Moves(d, rows, ib, g, sup, r, i) ==
    \E s \in States :
        /\ r[i] = [rows[i] EXCEPT !.state = s]
        /\ rows[i].state \in Sent => s \in Sent
        /\ rows[i].state = "deleted" => s = "deleted"
        /\ s = "deleted" => d = "down"
        /\ s = "acked" => Passed(d, rows, ib, g, sup, i)
        /\ s \in Sent /\ d = "down" => rows[i].epoch <= g

\* A move of states from row to row: a sent row stays sent, an acknowledged one has passed,
\* a deleted one stays, a row of a later epoch is not sent.
LEMMA StatesLink ==
    ASSUME NEW d \in Dirs, NEW rows, NEW ib, NEW g \in Nat, NEW c \in Nat, NEW sup,
           LinkOK(d, rows, ib, g, c, sup),
           NEW r, r = [i \in DOMAIN rows |-> r[i]],
           \A i \in DOMAIN rows : Moves(d, rows, ib, g, sup, r, i)
    PROVE  LinkOK(d, r, ib, g, c, sup) /\ Later(d, rows, ib, g, sup, r, ib, g, sup)
<1>1. rows \in Seq(Row)
  BY DEF LinkOK, RowsOK
<1>2. /\ Len(rows) \in Nat /\ DOMAIN rows = 1..Len(rows) /\ \A i \in DOMAIN rows : rows[i] \in Row
      /\ DOMAIN r = DOMAIN rows
  BY <1>1
<1>3. ASSUME NEW i \in DOMAIN rows
      PROVE  /\ r[i] \in Row
             /\ r[i].stream = rows[i].stream /\ r[i].event = rows[i].event /\ r[i].epoch = rows[i].epoch
             /\ rows[i].state \in Sent => r[i].state \in Sent
             /\ rows[i].state = "deleted" => r[i].state = "deleted"
             /\ r[i].state = "deleted" => d = "down"
             /\ r[i].state = "acked" => Passed(d, rows, ib, g, sup, i)
             /\ r[i].state \in Sent /\ d = "down" => rows[i].epoch <= g
  <2>1. PICK s \in States :
                 /\ r[i] = [rows[i] EXCEPT !.state = s]
                 /\ rows[i].state \in Sent => s \in Sent
                 /\ rows[i].state = "deleted" => s = "deleted"
                 /\ s = "deleted" => d = "down"
                 /\ s = "acked" => Passed(d, rows, ib, g, sup, i)
                 /\ s \in Sent /\ d = "down" => rows[i].epoch <= g
    BY DEF Moves
  <2>2. rows[i] \in Row
    BY <1>2
  <2>3. r[i] \in Row /\ r[i].state = s
        /\ r[i].stream = rows[i].stream /\ r[i].event = rows[i].event /\ r[i].epoch = rows[i].epoch
    BY <2>1, <2>2 DEF Row
  <2> QED BY <2>1, <2>3
<1>4. r \in Seq(Row) /\ Len(r) = Len(rows)
  <2>1. r \in [1..Len(rows) -> Row]
    BY <1>2, <1>3
  <2> QED BY <1>2, <2>1, FunIsSeq
<1>5. RowsOK(d, r, ib, g, c)
  <2>1. ASSUME NEW i \in DOMAIN r, NEW j \in DOMAIN r, Same(r[i], r[j]), r[i].epoch = r[j].epoch,
               r[i].state # "deleted", r[j].state # "deleted"
        PROVE  i = j
    <3>1. /\ Same(rows[i], rows[j]) /\ rows[i].epoch = rows[j].epoch
          /\ rows[i].state # "deleted" /\ rows[j].state # "deleted"
      BY <1>3, <2>1 DEF Same
    <3> QED BY <3>1 DEF LinkOK, RowsOK
  <2>2. ASSUME NEW i \in DOMAIN r
        PROVE  /\ r[i].epoch <= (IF d = "up" THEN c ELSE g + 1)
               /\ r[i].state = "deleted" => d = "down"
               /\ d = "down" /\ r[i].epoch > g => r[i].state \notin Sent
    <3>1. rows[i].epoch <= (IF d = "up" THEN c ELSE g + 1)
      BY DEF LinkOK, RowsOK
    <3>2. rows[i].epoch \in Nat
      BY <1>2 DEF Row
    <3> QED BY <1>3, <3>1, <3>2
  <2>3. \A i \in ib : i \in DOMAIN r /\ r[i].state \in Sent
    BY <1>3 DEF LinkOK, RowsOK
  <2> QED BY <1>4, <2>1, <2>2, <2>3 DEF RowsOK
<1>6. \A i \in DOMAIN rows : Passed(d, rows, ib, g, sup, i) => Passed(d, r, ib, g, sup, i)
  BY <1>3 DEF Passed
<1>7. OrderOK(d, r, ib, g, sup)
  <2>1. ASSUME NEW j \in ib, NEW i \in DOMAIN r, Before(r, i, j) PROVE Passed(d, r, ib, g, sup, i)
    <3>1. j \in DOMAIN rows
      BY DEF LinkOK, RowsOK
    <3>2. Before(rows, i, j)
      BY <1>3, <2>1, <3>1 DEF Before
    <3> QED BY <1>6, <3>2 DEF LinkOK, OrderOK
  <2>2. ASSUME NEW i \in DOMAIN r, r[i].state = "acked" PROVE Passed(d, r, ib, g, sup, i)
    BY <1>3, <1>6, <2>2
  <2> QED BY <2>1, <2>2 DEF OrderOK
<1>8. Later(d, rows, ib, g, sup, r, ib, g, sup)
  BY <1>3, <1>4, <1>6 DEF Later
<1> QED BY <1>5, <1>7, <1>8 DEF LinkOK

\* The fields of a row, and what setting its state does.
LEMMA RowAt ==
    ASSUME NEW rows \in Seq(Row), NEW i \in DOMAIN rows
    PROVE  /\ rows[i] \in Row /\ rows[i].epoch \in Nat /\ rows[i].state \in States /\ i \in Nat /\ i > 0
           /\ \A s \in States : [rows[i] EXCEPT !.state = s].state = s
           /\ [rows[i] EXCEPT !.state = rows[i].state] = rows[i]
<1>1. rows[i] \in Row /\ i \in Nat /\ i > 0
  OBVIOUS
<1> QED BY <1>1 DEF Row

Emitted(rows, r, ep, ids) ==
    \A i \in ids : /\ i \in DOMAIN r /\ r[i].state = "emitted" /\ r[i].epoch = ep
                   /\ r[i].stream = rows[i].stream

\* Rows that are not acknowledged and not of a later epoch are emitted.
LEMMA EmitLink ==
    ASSUME NEW d \in Dirs, NEW rows, NEW ib, NEW g \in Nat, NEW c \in Nat, NEW sup,
           LinkOK(d, rows, ib, g, c, sup),
           NEW ep \in Nat, d = "down" => ep <= g, NEW ids, ids \subseteq Unacked(rows, ep),
           NEW r, r = Emit(rows, ids)
    PROVE  /\ LinkOK(d, r, ib, g, c, sup) /\ Later(d, rows, ib, g, sup, r, ib, g, sup)
           /\ Emitted(rows, r, ep, ids)
<1>1. rows \in Seq(Row)
  BY DEF LinkOK, RowsOK
<1>2. \A i \in ids : i \in DOMAIN rows /\ rows[i].epoch = ep /\ rows[i].state # "deleted" /\ rows[i].state # "acked"
  BY DEF Unacked, InEpoch
<1>3. r = [i \in DOMAIN rows |-> IF i \in ids THEN [rows[i] EXCEPT !.state = "emitted"] ELSE rows[i]]
  BY DEF Emit
<1>4. ASSUME NEW i \in DOMAIN rows
      PROVE  Moves(d, rows, ib, g, sup, r, i)
  <2>1. CASE i \in ids
    <3>1. r[i] = [rows[i] EXCEPT !.state = "emitted"]
      BY <1>3, <2>1
    <3>2. "emitted" \in States /\ "emitted" \in Sent /\ "emitted" # "deleted" /\ "emitted" # "acked"
      BY DEF States, Sent
    <3> QED BY <1>2, <2>1, <3>1, <3>2 DEF Moves
  <2>2. CASE i \notin ids
    <3>1. r[i] = [rows[i] EXCEPT !.state = rows[i].state] /\ rows[i].state \in States /\ rows[i].epoch \in Nat
      BY <1>1, <1>3, <2>2, RowAt
    <3>2. /\ rows[i].state = "deleted" => d = "down"
          /\ d = "down" /\ rows[i].epoch > g => rows[i].state \notin Sent
          /\ rows[i].state = "acked" => Passed(d, rows, ib, g, sup, i)
      BY DEF LinkOK, RowsOK, OrderOK
    <3> QED BY <3>1, <3>2 DEF Moves
  <2> QED BY <2>1, <2>2
<1>5. r = [i \in DOMAIN rows |-> r[i]]
  BY <1>3
<1>6. LinkOK(d, r, ib, g, c, sup) /\ Later(d, rows, ib, g, sup, r, ib, g, sup)
  BY <1>4, <1>5, StatesLink
<1>7. ASSUME NEW i \in ids
      PROVE  i \in DOMAIN r /\ r[i].state = "emitted" /\ r[i].epoch = ep /\ r[i].stream = rows[i].stream
  <2>1. i \in DOMAIN rows /\ r[i] = [rows[i] EXCEPT !.state = "emitted"] /\ DOMAIN r = DOMAIN rows
    BY <1>2, <1>3
  <2>2. rows[i] \in Row
    BY <1>1, <2>1
  <2> QED BY <1>2, <2>1, <2>2 DEF Row
<1> QED BY <1>6, <1>7 DEF Emitted

\* An accepted endpoint acknowledges what precedes it.
LEMMA AcknowledgeLink ==
    ASSUME NEW d \in Dirs, NEW rows, NEW ib, NEW g \in Nat, NEW c \in Nat, NEW sup,
           LinkOK(d, rows, ib, g, c, sup),
           NEW ep \in Nat, d = "down" => ep <= g, NEW stream, NEW boundary, NEW through \in ib,
           rows[through].stream = stream, rows[through].epoch = ep,
           NEW r, r = Acknowledge(rows, stream, ep, through, boundary)
    PROVE  LinkOK(d, r, ib, g, c, sup) /\ Later(d, rows, ib, g, sup, r, ib, g, sup)
<1>1. rows \in Seq(Row) /\ through \in DOMAIN rows
  BY DEF LinkOK, RowsOK
<1> DEFINE Taken(i) == /\ i \in Unacked(rows, ep) /\ rows[i].stream = stream
                       /\ i > AckedThrough(rows, stream, ep) /\ i <= through
                       /\ i > boundary \/ rows[i].state = "emitted"
<1>2. r = [i \in DOMAIN rows |-> IF Taken(i) THEN [rows[i] EXCEPT !.state = "acked"] ELSE rows[i]]
  BY DEF Acknowledge
<1>3. \A i \in DOMAIN rows : Taken(i) =>
          /\ rows[i].epoch = ep /\ rows[i].stream = stream /\ rows[i].state # "deleted" /\ i <= through
  BY DEF Unacked, InEpoch
<1> HIDE DEF Taken
<1>4. ASSUME NEW i \in DOMAIN rows
      PROVE  Moves(d, rows, ib, g, sup, r, i)
  <2>1. CASE Taken(i)
    <3>1. r[i] = [rows[i] EXCEPT !.state = "acked"]
      BY <1>2, <2>1
    <3>2. "acked" \in States /\ "acked" \in Sent /\ "acked" # "deleted"
      BY DEF States, Sent
    <3>3. Passed(d, rows, ib, g, sup, i)
      <4>1. i \in Nat /\ through \in Nat
        BY <1>1, RowAt
      <4>2. CASE i = through
        BY <4>2 DEF Passed
      <4>3. CASE i < through
        <5>1. Before(rows, i, through)
          BY <1>3, <2>1, <4>3 DEF Before
        <5> QED BY <5>1 DEF LinkOK, OrderOK
      <4> QED BY <1>3, <2>1, <4>1, <4>2, <4>3
    <3> QED BY <1>3, <2>1, <3>1, <3>2, <3>3 DEF Moves
  <2>2. CASE ~Taken(i)
    <3>1. r[i] = [rows[i] EXCEPT !.state = rows[i].state] /\ rows[i].state \in States /\ rows[i].epoch \in Nat
      BY <1>1, <1>2, <2>2, RowAt
    <3>2. /\ rows[i].state = "deleted" => d = "down"
          /\ d = "down" /\ rows[i].epoch > g => rows[i].state \notin Sent
          /\ rows[i].state = "acked" => Passed(d, rows, ib, g, sup, i)
      BY DEF LinkOK, RowsOK, OrderOK
    <3> QED BY <3>1, <3>2 DEF Moves
  <2> QED BY <2>1, <2>2
<1>5. r = [i \in DOMAIN rows |-> r[i]]
  BY <1>2
<1> QED BY <1>4, <1>5, StatesLink

\* The rows queued for a later epoch are deleted.
LEMMA UnseedLink ==
    ASSUME NEW rows, NEW ib, NEW g \in Nat, NEW c \in Nat, NEW sup,
           LinkOK("down", rows, ib, g, c, sup), NEW ep, NEW r, r = Unseed(rows, ep)
    PROVE  LinkOK("down", r, ib, g, c, sup) /\ Later("down", rows, ib, g, sup, r, ib, g, sup)
<1>1. rows \in Seq(Row) /\ "down" \in Dirs
  BY DEF LinkOK, RowsOK, Dirs
<1>2. r = [i \in DOMAIN rows |-> IF rows[i].epoch = ep /\ rows[i].state = "queued"
                                 THEN [rows[i] EXCEPT !.state = "deleted"] ELSE rows[i]]
  BY DEF Unseed
<1>3. ASSUME NEW i \in DOMAIN rows
      PROVE  Moves("down", rows, ib, g, sup, r, i)
  <2>1. CASE rows[i].epoch = ep /\ rows[i].state = "queued"
    <3>1. r[i] = [rows[i] EXCEPT !.state = "deleted"]
      BY <1>2, <2>1
    <3>2. "deleted" \in States /\ "deleted" \notin Sent /\ rows[i].state \notin Sent
      BY <2>1 DEF States, Sent
    <3> QED BY <3>1, <3>2 DEF Moves
  <2>2. CASE ~(rows[i].epoch = ep /\ rows[i].state = "queued")
    <3>1. r[i] = [rows[i] EXCEPT !.state = rows[i].state] /\ rows[i].state \in States /\ rows[i].epoch \in Nat
      BY <1>1, <1>2, <2>2, RowAt
    <3>2. /\ rows[i].epoch > g => rows[i].state \notin Sent
          /\ rows[i].state = "acked" => Passed("down", rows, ib, g, sup, i)
      BY DEF LinkOK, RowsOK, OrderOK
    <3> QED BY <3>1, <3>2 DEF Moves
  <2> QED BY <2>1, <2>2
<1>4. r = [i \in DOMAIN rows |-> r[i]]
  BY <1>2
<1> QED BY <1>1, <1>3, <1>4, StatesLink

\* Sent rows of a stream and epoch, with whatever precedes them.
BatchOK(d, rows, ib, g, sup, stream, ep, ids) ==
    /\ ids \subseteq DOMAIN rows
    /\ \A j \in ids :
          /\ rows[j].stream = stream /\ rows[j].epoch = ep /\ rows[j].state \in Sent
          /\ \A i \in DOMAIN rows : Before(rows, i, j) => i \in ids \/ Passed(d, rows, ib, g, sup, i)

\* The endpoint of an acknowledgement was accepted, if there is one.
EndpointOK(ib, ids) == \E x \in {0} \cup ib : ids = {x}

\* A batch is accepted.
LEMMA AcceptLink ==
    ASSUME NEW d \in Dirs, NEW rows, NEW ib, NEW g \in Nat, NEW c \in Nat, NEW sup,
           LinkOK(d, rows, ib, g, c, sup),
           NEW stream, NEW ep, NEW ids, BatchOK(d, rows, ib, g, sup, stream, ep, ids)
    PROVE  /\ LinkOK(d, rows, ib \cup ids, g, c, sup)
           /\ Later(d, rows, ib, g, sup, rows, ib \cup ids, g, sup)
<1>1. \A i \in DOMAIN rows : Passed(d, rows, ib, g, sup, i) => Passed(d, rows, ib \cup ids, g, sup, i)
  BY DEF Passed
<1>2. RowsOK(d, rows, ib \cup ids, g, c)
  <2>1. \A i \in ib \cup ids : i \in DOMAIN rows /\ rows[i].state \in Sent
    BY DEF LinkOK, RowsOK, BatchOK
  <2> QED BY <2>1 DEF LinkOK, RowsOK
<1>3. OrderOK(d, rows, ib \cup ids, g, sup)
  <2>1. ASSUME NEW j \in ib \cup ids, NEW i \in DOMAIN rows, Before(rows, i, j)
        PROVE  Passed(d, rows, ib \cup ids, g, sup, i)
    <3>1. CASE j \in ib
      BY <1>1, <2>1, <3>1 DEF LinkOK, OrderOK
    <3>2. CASE j \in ids
      <4>1. i \in ids \/ Passed(d, rows, ib, g, sup, i)
        BY <2>1, <3>2 DEF BatchOK
      <4> QED BY <4>1, <1>1 DEF Passed
    <3> QED BY <3>1, <3>2
  <2> QED BY <1>1, <2>1 DEF LinkOK, OrderOK
<1>4. rows \in Seq(Row) /\ Len(rows) \in Nat
  BY DEF LinkOK, RowsOK
<1>5. Later(d, rows, ib, g, sup, rows, ib \cup ids, g, sup)
  <2>1. ib \subseteq ib \cup ids /\ Len(rows) <= Len(rows)
    BY <1>4
  <2>2. \A i \in DOMAIN rows : rows[i].state \in Sent => rows[i].state \in Sent
    OBVIOUS
  <2> QED BY <1>1, <1>4, <2>1, <2>2, Zenon DEF Later
<1> QED BY <1>2, <1>3, <1>5 DEF LinkOK

\* The hop moves on by one epoch.
LEMMA MoveLink ==
    ASSUME NEW d \in Dirs, NEW rows, NEW ib, NEW g \in Nat, NEW c \in Nat, NEW sup, NEW sup2,
           LinkOK(d, rows, ib, g, c, sup), sup.epoch \in Nat, sup.epoch <= g
    PROVE  /\ LinkOK(d, rows, ib, g + 1, c, sup2)
           /\ Later(d, rows, ib, g, sup, rows, ib, g + 1, sup2)
<1>1. rows \in Seq(Row)
  BY DEF LinkOK, RowsOK
<1>2. \A i \in DOMAIN rows : rows[i].epoch \in Nat
  BY <1>1, RowAt
<1>3. \A i \in DOMAIN rows : Passed(d, rows, ib, g, sup, i) => Passed(d, rows, ib, g + 1, sup2, i)
  BY <1>2 DEF Passed
<1>4. RowsOK(d, rows, ib, g + 1, c)
  <2>1. ASSUME NEW i \in DOMAIN rows
        PROVE  /\ rows[i].epoch <= (IF d = "up" THEN c ELSE (g + 1) + 1)
               /\ d = "down" /\ rows[i].epoch > g + 1 => rows[i].state \notin Sent
    <3>1. rows[i].epoch <= (IF d = "up" THEN c ELSE g + 1)
      BY DEF LinkOK, RowsOK
    <3> QED BY <1>2, <3>1 DEF Dirs
  <2> QED BY <1>1, <2>1 DEF LinkOK, RowsOK
<1>5. OrderOK(d, rows, ib, g + 1, sup2)
  BY <1>3 DEF LinkOK, RowsOK, OrderOK
<1>6. Len(rows) \in Nat
  BY <1>1
<1>7. Later(d, rows, ib, g, sup, rows, ib, g + 1, sup2)
  BY <1>1, <1>3, <1>6 DEF Later
<1> QED BY <1>4, <1>5, <1>7 DEF LinkOK

\* A checkpoint stands in for every event row of the epoch, deleted ones apart.
LEMMA SupersedeLink ==
    ASSUME NEW d \in Dirs, NEW rows, NEW ib, NEW g \in Nat, NEW c \in Nat, NEW sup, NEW sup2,
           LinkOK(d, rows, ib, g, c, sup), sup.epoch \in Nat, sup.epoch <= g,
           sup2.epoch = g, \A i \in InEpoch(rows, g) : i <= sup2.through
    PROVE  /\ LinkOK(d, rows, ib, g, c, sup2)
           /\ Later(d, rows, ib, g, sup, rows, ib, g, sup2)
<1>1. rows \in Seq(Row)
  BY DEF LinkOK, RowsOK
<1>2. \A i \in DOMAIN rows : rows[i].epoch \in Nat
  BY <1>1, RowAt
<1>3. \A i \in DOMAIN rows : Passed(d, rows, ib, g, sup, i) => Passed(d, rows, ib, g, sup2, i)
  BY <1>2 DEF Passed, InEpoch
<1>4. OrderOK(d, rows, ib, g, sup2)
  BY <1>3 DEF LinkOK, RowsOK, OrderOK
<1>5. Len(rows) \in Nat
  BY <1>1
<1>6. Later(d, rows, ib, g, sup, rows, ib, g, sup2)
  BY <1>1, <1>3, <1>5 DEF Later
<1> QED BY <1>4, <1>6 DEF LinkOK

\* The lower side moves on.
LEMMA ConfigLink ==
    ASSUME NEW d \in Dirs, NEW rows, NEW ib, NEW g \in Nat, NEW c \in Nat, NEW c2 \in Nat, NEW sup,
           LinkOK(d, rows, ib, g, c, sup), c <= c2
    PROVE  LinkOK(d, rows, ib, g, c2, sup)
<1>1. rows \in Seq(Row)
  BY DEF LinkOK, RowsOK
<1>2. \A i \in DOMAIN rows : rows[i].epoch \in Nat
  BY <1>1, RowAt
<1>3. ASSUME NEW i \in DOMAIN rows PROVE rows[i].epoch <= (IF d = "up" THEN c2 ELSE g + 1)
  <2>1. rows[i].epoch <= (IF d = "up" THEN c ELSE g + 1)
    BY DEF LinkOK, RowsOK
  <2> QED BY <1>2, <2>1
<1> QED BY <1>3 DEF LinkOK, RowsOK

\* What a turn or a late call holds stays so while rows go on.
LEMMA LaterBatch ==
    ASSUME NEW d, NEW r1 \in Seq(Row), NEW b1, NEW g1, NEW s1, NEW r2, NEW b2, NEW g2, NEW s2,
           Later(d, r1, b1, g1, s1, r2, b2, g2, s2),
           NEW stream, NEW ep, NEW ids, BatchOK(d, r1, b1, g1, s1, stream, ep, ids)
    PROVE  BatchOK(d, r2, b2, g2, s2, stream, ep, ids)
<1>1. r2 \in Seq(Row) /\ ids \subseteq DOMAIN r1
  BY DEF Later, BatchOK
<1>2. /\ Len(r1) \in Nat /\ Len(r2) \in Nat /\ DOMAIN r1 = 1..Len(r1) /\ DOMAIN r2 = 1..Len(r2)
  BY <1>1
<1>3. Len(r1) <= Len(r2)
  BY DEF Later
<1>4. ASSUME NEW j \in ids
      PROVE  /\ j \in DOMAIN r2
             /\ r2[j].stream = stream /\ r2[j].epoch = ep /\ r2[j].state \in Sent
             /\ \A i \in DOMAIN r2 : Before(r2, i, j) => i \in ids \/ Passed(d, r2, b2, g2, s2, i)
  <2>1. j \in DOMAIN r1 /\ j \in DOMAIN r2
    BY <1>1, <1>2, <1>3
  <2>2. r2[j].stream = stream /\ r2[j].epoch = ep /\ r2[j].state \in Sent
    BY <2>1 DEF BatchOK, Later
  <2>3. ASSUME NEW i \in DOMAIN r2, Before(r2, i, j) PROVE i \in ids \/ Passed(d, r2, b2, g2, s2, i)
    <3>1. i \in DOMAIN r1
      <4>1. i < j /\ i \in 1..Len(r2) /\ j \in 1..Len(r1)
        BY <1>2, <2>1, <2>3 DEF Before
      <4> QED BY <1>2, <4>1
    <3>2. Before(r1, i, j)
      BY <2>1, <2>3, <3>1 DEF Before, Later
    <3>3. i \in ids \/ Passed(d, r1, b1, g1, s1, i)
      BY <3>1, <3>2 DEF BatchOK
    <3> QED BY <3>1, <3>3 DEF Later
  <2> QED BY <2>1, <2>2, <2>3
<1> QED BY <1>4 DEF BatchOK

PendingOK(d, rows, ib, g, sup, stream, ep, boundary, ids) ==
    /\ ids \subseteq Unacked(rows, ep)
    /\ \A j \in ids : rows[j].stream = stream /\ j > boundary
    /\ \A j \in ids : \A i \in DOMAIN rows :
          Before(rows, i, j) => i \in ids \/ Passed(d, rows, ib, g, sup, i)

\* What is pending comes with whatever precedes it: the boundary passes over superseded rows.
LEMMA PendingIs ==
    ASSUME NEW d \in Dirs, NEW rows, NEW ib, NEW g \in Nat, NEW c \in Nat, NEW sup,
           LinkOK(d, rows, ib, g, c, sup), NEW stream, NEW ep \in Nat, NEW boundary \in Nat,
           boundary = 0 \/ (d = "down" /\ stream = "events" /\ sup.epoch = ep /\ sup.through = boundary),
           NEW ids, ids = Pending(rows, stream, ep, boundary)
    PROVE  PendingOK(d, rows, ib, g, sup, stream, ep, boundary, ids)
<1> DEFINE S == {i \in Unacked(rows, ep) : rows[i].stream = stream /\ i > boundary}
<1>1. rows \in Seq(Row)
  BY DEF LinkOK, RowsOK
<1>2. S \in SUBSET DOMAIN rows
  BY DEF Unacked, InEpoch
<1>3. S \in SUBSET Nat /\ IsFiniteSet(S)
  BY <1>1, <1>2, RowIds
<1>4. BatchLimit \in Nat
  BY TurnAssumption
<1>5. ids = Lowest(S, BatchLimit)
  BY DEF Pending
<1>6. ids \subseteq S /\ \A x \in ids, y \in S : y < x => y \in ids
  <2> HIDE DEF S
  <2> QED BY <1>3, <1>4, <1>5, LowestIs
<1>7. ASSUME NEW j \in ids, NEW i \in DOMAIN rows, Before(rows, i, j)
      PROVE  i \in ids \/ Passed(d, rows, ib, g, sup, i)
  <2>1. j \in S /\ rows[j].epoch = ep /\ rows[j].stream = stream
    BY <1>6 DEF Unacked, InEpoch
  <2>2. rows[i].epoch = ep /\ rows[i].stream = stream /\ i < j
    BY <2>1, <1>7 DEF Before
  <2>3. CASE rows[i].state = "deleted"
    <3>1. d = "down"
      BY <2>3 DEF LinkOK, RowsOK
    <3> QED BY <2>3, <3>1 DEF Passed
  <2>4. CASE rows[i].state = "acked"
    BY <2>4 DEF LinkOK, OrderOK
  <2>5. CASE i \in Unacked(rows, ep) /\ i > boundary
    <3>1. i \in S
      BY <2>2, <2>5
    <3> QED BY <1>6, <2>2, <3>1
  <2>6. CASE ~(i > boundary)
    <3>1. i \in Nat /\ i > 0
      BY <1>1, RowAt
    <3>2. d = "down" /\ stream = "events" /\ sup.epoch = ep /\ sup.through = boundary
      BY <2>6, <3>1
    <3> QED BY <2>2, <2>6, <3>1, <3>2 DEF Passed
  <2>7. rows[i].state \notin {"deleted", "acked"} => i \in Unacked(rows, ep)
    BY <2>2 DEF Unacked, InEpoch
  <2> QED BY <2>3, <2>4, <2>5, <2>6, <2>7
<1> QED BY <1>6, <1>7 DEF PendingOK

\* The batch that is read or offered.
LEMMA PendingBatch ==
    ASSUME NEW d \in Dirs, NEW rows, NEW ib, NEW g \in Nat, NEW c \in Nat, NEW sup,
           LinkOK(d, rows, ib, g, c, sup), NEW ep \in Nat, d = "down" => ep <= g,
           NEW stream, NEW boundary, NEW ids,
           PendingOK(d, rows, ib, g, sup, stream, ep, boundary, ids),
           NEW r, r = Emit(rows, ids)
    PROVE  /\ LinkOK(d, r, ib, g, c, sup) /\ Later(d, rows, ib, g, sup, r, ib, g, sup)
           /\ BatchOK(d, r, ib, g, sup, stream, ep, ids)
<1>1. PendingOK(d, rows, ib, g, sup, stream, ep, boundary, ids)
  OBVIOUS
<1>2. ids \subseteq Unacked(rows, ep)
  BY <1>1 DEF PendingOK
<1>3. /\ LinkOK(d, r, ib, g, c, sup) /\ Later(d, rows, ib, g, sup, r, ib, g, sup)
      /\ Emitted(rows, r, ep, ids)
  BY <1>2, EmitLink
<1>4. DOMAIN r = DOMAIN rows
  BY DEF Emit
<1>5. ASSUME NEW j \in ids, NEW i \in DOMAIN r, Before(r, i, j)
      PROVE  i \in ids \/ Passed(d, r, ib, g, sup, i)
  <2>1. j \in DOMAIN r
    BY <1>3 DEF Emitted
  <2>2. Before(rows, i, j)
    BY <1>3, <1>4, <1>5, <2>1 DEF Before, Later
  <2>3. i \in ids \/ Passed(d, rows, ib, g, sup, i)
    BY <1>1, <1>4, <2>2 DEF PendingOK
  <2> QED BY <1>3, <1>4, <2>3 DEF Later
<1>6. \A j \in ids : j \in DOMAIN r /\ r[j].stream = stream /\ r[j].epoch = ep /\ r[j].state \in Sent
  BY <1>1, <1>3 DEF Emitted, PendingOK, Sent
<1>7. BatchOK(d, r, ib, g, sup, stream, ep, ids)
  BY <1>5, <1>6 DEF BatchOK
<1> QED BY <1>3, <1>7

\* The endpoint that is acknowledged next.
LEMMA EndpointIs ==
    ASSUME NEW rows \in Seq(Row), NEW ib, NEW S, S \subseteq ib, S \subseteq DOMAIN rows
    PROVE  EndpointOK(ib, {Top(S)}) /\ Top(S) \in Nat
<1>1. S \in SUBSET Nat /\ IsFiniteSet(S)
  BY RowIds
<1>2. Top(S) \in S \cup {0} /\ Top(S) \in Nat
  BY <1>1, TopIs
<1> QED BY <1>2 DEF EndpointOK

\* A position that was accepted stays one while the inbox grows.
LEMMA EndpointLater ==
    ASSUME NEW b1, NEW b2, b1 \subseteq b2, NEW ids, EndpointOK(b1, ids)
    PROVE  EndpointOK(b2, ids)
BY DEF EndpointOK

\* The end of an endpoint is what was accepted.
LEMMA EndpointTop ==
    ASSUME NEW rows \in Seq(Row), NEW ib, ib \subseteq DOMAIN rows, NEW ids, EndpointOK(ib, ids)
    PROVE  Top(ids) \in {0} \cup ib
<1>1. PICK x \in {0} \cup ib : ids = {x}
  BY DEF EndpointOK
<1>2. x \in Nat
  BY <1>1
<1>3. Top({x}) = x
  <2>1. {x} # {} /\ x <= x
    BY <1>2
  <2> QED BY <2>1 DEF Top
<1> QED BY <1>1, <1>3

---------------------------------------------------------------------------
(* All hops                                                                *)

\* Both directions of every hop are in order, and what they carry is known.
Flows(rows, ib, gr, cf, sp, E, R) ==
    /\ rows \in [Hops -> [Dirs -> Seq(Row)]]
    /\ \A h \in Hops : \A d \in Dirs :
          /\ LinkOK(d, rows[h][d], ib[h][d], gr[h], cf[h], sp[h])
          /\ AllKnown(rows[h][d], E, R)

Flow(r1, b1, g1, s1, r2, b2, g2, s2) ==
    \A h \in Hops : \A d \in Dirs :
        Later(d, r1[h][d], b1[h][d], g1[h], s1[h], r2[h][d], b2[h][d], g2[h], s2[h])

\* Hops that stay as they are go on.
LEMMA FlowReflexive ==
    ASSUME NEW r \in [Hops -> [Dirs -> Seq(Row)]], NEW b, NEW g, NEW s
    PROVE  Flow(r, b, g, s, r, b, g, s)
<1>1. \A h \in Hops : \A d \in Dirs : r[h][d] \in Seq(Row)
  OBVIOUS
<1> QED BY <1>1, LaterReflexive DEF Flow

\* Hops that go on twice go on.
LEMMA FlowTransitive ==
    ASSUME NEW r1 \in [Hops -> [Dirs -> Seq(Row)]], NEW b1, NEW g1, NEW s1,
           NEW r2 \in [Hops -> [Dirs -> Seq(Row)]], NEW b2, NEW g2, NEW s2, NEW r3, NEW b3, NEW g3,
           NEW s3,
           Flow(r1, b1, g1, s1, r2, b2, g2, s2), Flow(r2, b2, g2, s2, r3, b3, g3, s3)
    PROVE  Flow(r1, b1, g1, s1, r3, b3, g3, s3)
<1>1. \A h \in Hops : \A d \in Dirs : r1[h][d] \in Seq(Row) /\ r2[h][d] \in Seq(Row)
  OBVIOUS
<1>2. ASSUME NEW h \in Hops, NEW d \in Dirs
      PROVE  Later(d, r1[h][d], b1[h][d], g1[h], s1[h], r3[h][d], b3[h][d], g3[h], s3[h])
  <2>1. /\ Later(d, r1[h][d], b1[h][d], g1[h], s1[h], r2[h][d], b2[h][d], g2[h], s2[h])
        /\ Later(d, r2[h][d], b2[h][d], g2[h], s2[h], r3[h][d], b3[h][d], g3[h], s3[h])
    BY DEF Flow
  <2>2. r1[h][d] \in Seq(Row) /\ r2[h][d] \in Seq(Row)
    BY <1>1
  <2> QED BY <2>1, <2>2, LaterTransitive
<1> QED BY <1>2 DEF Flow

\* What is known stays known when more is.
LEMMA KnownMore ==
    ASSUME NEW s, NEW E, NEW R, NEW E2, NEW R2, E \subseteq E2, R \subseteq R2, AllKnown(s, E, R)
    PROVE  AllKnown(s, E2, R2)
BY DEF AllKnown, Known

\* Hops stay in order when more is known.
LEMMA FlowsMore ==
    ASSUME NEW rows, NEW ib, NEW gr, NEW cf, NEW sp, NEW E, NEW R, NEW E2, NEW R2,
           Flows(rows, ib, gr, cf, sp, E, R), E \subseteq E2, R \subseteq R2
    PROVE  Flows(rows, ib, gr, cf, sp, E2, R2)
BY KnownMore DEF Flows

\* Rows that only change their states are as known as they were.
LEMMA StatesKnown ==
    ASSUME NEW d, NEW rows, NEW b1, NEW g1, NEW s1, NEW r, NEW b2, NEW g2, NEW s2,
           Later(d, rows, b1, g1, s1, r, b2, g2, s2), DOMAIN r = DOMAIN rows,
           NEW E, NEW R, AllKnown(rows, E, R)
    PROVE  AllKnown(r, E, R)
BY DEF Later, AllKnown, Known

\* The rows of one direction of one hop are replaced.
Puts(rows, h, d, r, r2) ==
    /\ r2 \in [Hops -> [Dirs -> Seq(Row)]]
    /\ \A f \in Hops : \A e \in Dirs : r2[f][e] = IF f = h /\ e = d THEN r ELSE rows[f][e]

\* Replacing the outbox of a hop upwards replaces no other.
LEMMA PutUp ==
    ASSUME NEW rows \in [Hops -> [Dirs -> Seq(Row)]], NEW h \in Hops, NEW r \in Seq(Row),
           NEW r2, r2 = [rows EXCEPT ![h].up = r]
    PROVE  Puts(rows, h, "up", r, r2)
BY DEF Puts, Dirs

\* Replacing the outbox of a hop downwards replaces no other.
LEMMA PutDown ==
    ASSUME NEW rows \in [Hops -> [Dirs -> Seq(Row)]], NEW h \in Hops, NEW r \in Seq(Row),
           NEW r2, r2 = [rows EXCEPT ![h].down = r]
    PROVE  Puts(rows, h, "down", r, r2)
BY DEF Puts, Dirs

\* One direction of one hop goes on.
LEMMA OneFlows ==
    ASSUME NEW rows, NEW ib, NEW gr, NEW cf, NEW sp, NEW E, NEW R,
           Flows(rows, ib, gr, cf, sp, E, R), NEW h \in Hops, NEW d \in Dirs,
           NEW r, LinkOK(d, r, ib[h][d], gr[h], cf[h], sp[h]), AllKnown(r, E, R),
           Later(d, rows[h][d], ib[h][d], gr[h], sp[h], r, ib[h][d], gr[h], sp[h]),
           NEW r2, Puts(rows, h, d, r, r2)
    PROVE  /\ Flows(r2, ib, gr, cf, sp, E, R)
           /\ Flow(rows, ib, gr, sp, r2, ib, gr, sp)
<1>1. r \in Seq(Row) /\ rows \in [Hops -> [Dirs -> Seq(Row)]]
  BY DEF LinkOK, RowsOK, Flows
<1>2. r2 \in [Hops -> [Dirs -> Seq(Row)]]
  BY DEF Puts
<1>3. \A f \in Hops : \A e \in Dirs : r2[f][e] = IF f = h /\ e = d THEN r ELSE rows[f][e]
  BY DEF Puts
<1>4. ASSUME NEW f \in Hops, NEW e \in Dirs
      PROVE  /\ LinkOK(e, r2[f][e], ib[f][e], gr[f], cf[f], sp[f])
             /\ AllKnown(r2[f][e], E, R)
             /\ Later(e, rows[f][e], ib[f][e], gr[f], sp[f], r2[f][e], ib[f][e], gr[f], sp[f])
  <2>1. CASE f = h /\ e = d
    <3>1. r2[f][e] = r
      BY <1>3, <2>1
    <3> QED BY <2>1, <3>1
  <2>2. CASE ~(f = h /\ e = d)
    <3>1. r2[f][e] = rows[f][e] /\ rows[f][e] \in Seq(Row)
      BY <1>1, <1>3, <2>2
    <3>2. LinkOK(e, rows[f][e], ib[f][e], gr[f], cf[f], sp[f]) /\ AllKnown(rows[f][e], E, R)
      BY DEF Flows
    <3>3. Later(e, rows[f][e], ib[f][e], gr[f], sp[f], rows[f][e], ib[f][e], gr[f], sp[f])
      BY <3>1, LaterReflexive
    <3> QED BY <3>1, <3>2, <3>3
  <2> QED BY <2>1, <2>2
<1> QED BY <1>2, <1>4 DEF Flows, Flow

\* A daemon's write goes to every hop it sends on.
LEMMA QueueFlows ==
    ASSUME NEW rows, NEW ib, NEW gr \in [Hops -> Nat], NEW sp, NEW E, NEW R,
           config \in [Hops -> Nat], Flows(rows, ib, gr, config, sp, E, R),
           NEW n, NEW bodies \in Seq(Body), AllKnown(bodies, E, R),
           NEW r2, r2 = QueueAt(n, rows, gr, bodies)
    PROVE  /\ Flows(r2, ib, gr, config, sp, E, R)
           /\ Flow(rows, ib, gr, sp, r2, ib, gr, sp)
<1>1. rows \in [Hops -> [Dirs -> Seq(Row)]]
  BY DEF Flows
<1> DEFINE Ep(h, d) == IF d = "up" THEN config[h] ELSE gr[h]
<1>2. ASSUME NEW h \in Hops, NEW d \in Dirs
      PROVE  r2[h][d] = IF Sender(h, d) = n THEN Enqueue(rows[h][d], Receiver(h, d), Ep(h, d), bodies)
                        ELSE rows[h][d]
  BY DEF QueueAt
<1>3. ASSUME NEW h \in Hops, NEW d \in Dirs
      PROVE  /\ LinkOK(d, r2[h][d], ib[h][d], gr[h], config[h], sp[h])
             /\ AllKnown(r2[h][d], E, R)
             /\ Later(d, rows[h][d], ib[h][d], gr[h], sp[h], r2[h][d], ib[h][d], gr[h], sp[h])
  <2>1. LinkOK(d, rows[h][d], ib[h][d], gr[h], config[h], sp[h]) /\ AllKnown(rows[h][d], E, R)
    BY DEF Flows
  <2>2. rows[h][d] \in Seq(Row) /\ gr[h] \in Nat /\ config[h] \in Nat
    BY <1>1
  <2>3. CASE Sender(h, d) = n
    <3> DEFINE ep == Ep(h, d)
               r == r2[h][d]
    <3>1. r = Enqueue(rows[h][d], Receiver(h, d), ep, bodies)
      BY <1>2, <2>3
    <3>2. ep \in Nat /\ ep <= (IF d = "up" THEN config[h] ELSE gr[h] + 1)
      BY <2>2
    <3> HIDE DEF ep, r
    <3>3. LinkOK(d, r, ib[h][d], gr[h], config[h], sp[h])
          /\ Later(d, rows[h][d], ib[h][d], gr[h], sp[h], r, ib[h][d], gr[h], sp[h])
      BY <2>1, <2>2, <3>1, <3>2, EnqueueLink
    <3>4. AllKnown(r, E, R)
      BY <2>1, <2>2, <3>1, <3>2, EnqueueKnown
    <3> QED BY <3>3, <3>4 DEF r
  <2>4. CASE Sender(h, d) # n
    <3>1. r2[h][d] = rows[h][d]
      BY <1>2, <2>4
    <3>2. Later(d, rows[h][d], ib[h][d], gr[h], sp[h], rows[h][d], ib[h][d], gr[h], sp[h])
      BY <2>2, LaterReflexive
    <3> QED BY <2>1, <3>1, <3>2
  <2> QED BY <2>3, <2>4
<1>4. r2 \in [Hops -> [Dirs -> Seq(Row)]]
  <2>1. \A h \in Hops : \A d \in Dirs : r2[h][d] \in Seq(Row)
    BY <1>3 DEF LinkOK, RowsOK
  <2>2. r2 = [h \in Hops |-> [d \in Dirs |-> r2[h][d]]]
    BY DEF QueueAt
  <2> QED BY <2>1, <2>2
<1> QED BY <1>3, <1>4 DEF Flows, Flow

\* Ids are added to one inbox.
Adds(ib, h, d, ids, ib2) ==
    /\ ib2 \in [Hops -> [Dirs -> SUBSET Nat]]
    /\ \A f \in Hops : \A e \in Dirs : ib2[f][e] = IF f = h /\ e = d THEN ib[h][d] \cup ids ELSE ib[f][e]

\* A batch is accepted on one hop.
LEMMA InboxFlows ==
    ASSUME NEW rows, NEW ib, NEW gr \in [Hops -> Nat],
           NEW cf \in [Hops -> Nat], NEW sp, NEW E, NEW R,
           Flows(rows, ib, gr, cf, sp, E, R), NEW h \in Hops, NEW d \in Dirs,
           NEW stream, NEW ep, NEW ids,
           BatchOK(d, rows[h][d], ib[h][d], gr[h], sp[h], stream, ep, ids),
           NEW ib2, Adds(ib, h, d, ids, ib2)
    PROVE  /\ Flows(rows, ib2, gr, cf, sp, E, R)
           /\ Flow(rows, ib, gr, sp, rows, ib2, gr, sp)
<1>1. rows \in [Hops -> [Dirs -> Seq(Row)]]
  BY DEF Flows
<1>2. \A f \in Hops : \A e \in Dirs : ib2[f][e] = IF f = h /\ e = d THEN ib[h][d] \cup ids ELSE ib[f][e]
  BY DEF Adds
<1>3. ASSUME NEW f \in Hops, NEW e \in Dirs
      PROVE  /\ LinkOK(e, rows[f][e], ib2[f][e], gr[f], cf[f], sp[f])
             /\ Later(e, rows[f][e], ib[f][e], gr[f], sp[f], rows[f][e], ib2[f][e], gr[f], sp[f])
  <2>1. LinkOK(e, rows[f][e], ib[f][e], gr[f], cf[f], sp[f])
    BY DEF Flows
  <2>2. rows[f][e] \in Seq(Row) /\ gr[f] \in Nat /\ cf[f] \in Nat
    BY <1>1
  <2>3. CASE f = h /\ e = d
    <3>1. ib2[f][e] = ib[f][e] \cup ids
      BY <1>2, <2>3
    <3>2. BatchOK(e, rows[f][e], ib[f][e], gr[f], sp[f], stream, ep, ids)
      BY <2>3
    <3>3. /\ LinkOK(e, rows[f][e], ib[f][e] \cup ids, gr[f], cf[f], sp[f])
          /\ Later(e, rows[f][e], ib[f][e], gr[f], sp[f], rows[f][e], ib[f][e] \cup ids, gr[f], sp[f])
      BY <2>1, <2>2, <3>2, AcceptLink
    <3> QED BY <3>1, <3>3
  <2>4. CASE ~(f = h /\ e = d)
    <3>1. ib2[f][e] = ib[f][e]
      BY <1>2, <2>4
    <3>2. Later(e, rows[f][e], ib[f][e], gr[f], sp[f], rows[f][e], ib[f][e], gr[f], sp[f])
      BY <2>2, LaterReflexive
    <3> QED BY <2>1, <3>1, <3>2
  <2> QED BY <2>3, <2>4
<1> QED BY <1>1, <1>3 DEF Flows, Flow

---------------------------------------------------------------------------
(* The invariant of the stores                                             *)

Signed == Elements(issued)

Types ==
    /\ born \in Seq(Nodes) /\ issued \in Seq(Nat) /\ purged \subseteq DOMAIN born
    /\ log \in [Nodes -> SUBSET Nat] /\ receipts \in [Nodes -> SUBSET Nat]
    /\ inbox \in [Hops -> [Dirs -> SUBSET Nat]]
    /\ checkpoints \in Seq(Checkpoint)
    /\ prepared \in [Hops -> [cp : Nat, epoch : Nat]]
    /\ superseded \in [Hops -> Record]
    /\ installed \in [Nodes -> Nat]

Linked == Flows(out, inbox, grant, config, superseded, DOMAIN born, Signed)

\* The root has what it signed, unless it purged it; receipts are of what it signed; and a
\* checkpoint holds what was signed before it, unless it was purged.
Rooted ==
    /\ Signed \subseteq DOMAIN born
    /\ Signed \subseteq log[Root] \cup purged
    /\ \A n \in Nodes : receipts[n] \subseteq Signed
    /\ \A c \in DOMAIN checkpoints :
          /\ checkpoints[c].high <= Len(issued)
          /\ \A k \in 1..checkpoints[c].high : issued[k] \in checkpoints[c].events \cup purged

OwnRow(n, e) == \E i \in DOMAIN out[n].up : out[n].up[i].event = e /\ out[n].up[i].epoch = config[n]

\* A daemon has what its users wrote, and until it has the receipt a row for its hub.
Owned ==
    \A e \in DOMAIN born \ purged :
        /\ e \in log[born[e]]
        /\ born[e] # Root => e \in receipts[born[e]] \/ OwnRow(born[e], e)

Forwardable(h) == IsRoot(h) \/ installed[Parent[h]] # 0

\* A hop has a checkpoint kept for it only if there is one above, and before its lower
\* side moves on.
Prepared ==
    /\ \A n \in Nodes : installed[n] <= Len(checkpoints)
    /\ \A h \in Hops :
          /\ superseded[h].epoch <= grant[h]
          /\ prepared[h].cp <= Len(checkpoints)
          /\ prepared[h].cp # 0 => Forwardable(h)
          /\ config[h] # grant[h] => prepared[h].cp # 0

StoreInv == Types /\ Linked /\ Rooted /\ Owned /\ Prepared

\* What a step of the stores keeps of what turns and late calls hold.
Steady ==
    /\ Flow(out, inbox, grant, superseded, out', inbox', grant', superseded')
    /\ \A h \in Hops : prepared[h].cp # 0 => prepared'[h].cp # 0
    /\ \A n \in Nodes : installed[n] # 0 => installed'[n] # 0
    /\ Len(checkpoints) <= Len(checkpoints')

\* The hop moves on, if the call is for the next epoch.
LEMMA CarryFlows ==
    ASSUME EpochInv, StoreInv, NEW h \in Hops, NEW ep \in Nat, Moved(h, ep),
           NEW C, C = Carried(h, ep)
    PROVE  /\ Flows(C, inbox, grant', config, superseded', DOMAIN born, Signed)
           /\ Flow(out, inbox, grant, superseded, C, inbox, grant', superseded')
           /\ superseded' \in [Hops -> Record] /\ grant' \in [Hops -> Nat]
           /\ \A g \in Hops : superseded'[g].epoch <= grant'[g]
           /\ \A g \in Hops : C[g]["up"] = out[g]["up"]
           /\ grant' = [grant EXCEPT ![h] = ep] /\ grant'[h] = ep
<1>1. /\ Flows(out, inbox, grant, config, superseded, DOMAIN born, Signed)
      /\ out \in [Hops -> [Dirs -> Seq(Row)]]
      /\ grant \in [Hops -> Nat] /\ config \in [Hops -> Nat] /\ superseded \in [Hops -> Record]
  BY DEF StoreInv, Linked, Flows, EpochInv, Types
<1>2. grant' = [grant EXCEPT ![h] = ep] /\ (ep = grant[h] \/ ep = grant[h] + 1)
  BY DEF Moved, Admitted
<1>3. grant' \in [Hops -> Nat] /\ grant'[h] = ep /\ \A g \in Hops : g # h => grant'[g] = grant[g]
  BY <1>1, <1>2
<1>4. /\ superseded' \in [Hops -> Record]
      /\ \A g \in Hops : superseded'[g] = superseded[g] \/ superseded'[g] = NoRecord
      /\ \A g \in Hops : g # h => superseded'[g] = superseded[g]
      /\ ep = grant[h] => superseded' = superseded
  BY <1>1 DEF Moved, NoRecord, Record
<1>5. \A g \in Hops : superseded[g].epoch \in Nat /\ superseded[g].epoch <= grant[g] /\ grant[g] \in Nat
  BY <1>1 DEF Record, StoreInv, Prepared
<1>6. ASSUME NEW g \in Hops PROVE superseded'[g].epoch <= grant'[g]
  <2>1. grant[g] <= grant'[g]
    BY <1>2, <1>3, <1>5
  <2>2. superseded'[g].epoch = superseded[g].epoch \/ superseded'[g].epoch = 0
    BY <1>4 DEF NoRecord
  <2> QED BY <1>3, <1>5, <2>1, <2>2
<1>7. CASE ep = grant[h]
  <2>1. C = out /\ grant' = grant /\ superseded' = superseded
    BY <1>1, <1>2, <1>4, <1>7 DEF Carried
  <2>2. Flow(out, inbox, grant, superseded, out, inbox, grant, superseded)
    BY <1>1, FlowReflexive
  <2> QED BY <1>1, <1>2, <1>3, <1>4, <1>6, <2>1, <2>2
<1>8. CASE ep # grant[h]
  <2> DEFINE rows == out[h]["down"]
             owed == Owed(h, ep)
             bodies == Bodies(rows, owed, Parent[h])
             r == Enqueue(rows, h, ep, bodies)
  <2>1. ep = grant[h] + 1
    BY <1>2, <1>8
  <2>2. C = [out EXCEPT ![h].down = r]
    BY <1>8 DEF Carried
  <2>3. "down" \in Dirs /\ Parent[h] \in Nodes
    BY TreeAssumption DEF Dirs
  <2>4. LinkOK("down", rows, inbox[h]["down"], grant[h], config[h], superseded[h])
        /\ AllKnown(rows, DOMAIN born, Signed) /\ rows \in Seq(Row)
    BY <1>1, <2>3 DEF Flows
  <2>5. owed \in SUBSET DOMAIN rows
    BY DEF Owed, Unacked, InEpoch
  <2> HIDE DEF owed
  <2>6. bodies \in Seq(Body) /\ AllKnown(bodies, DOMAIN born, Signed)
    <3> HIDE DEF rows
    <3> QED BY <2>3, <2>4, <2>5, BodiesIs
  <2>7. "down" # "up" /\ grant[h] \in Nat /\ config[h] \in Nat
    BY <1>1
  <2>8. /\ LinkOK("down", r, inbox[h]["down"], grant[h], config[h], superseded[h])
        /\ Later("down", rows, inbox[h]["down"], grant[h], superseded[h], r, inbox[h]["down"], grant[h], superseded[h])
    <3>1. r = Enqueue(rows, h, ep, bodies)
      OBVIOUS
    <3> HIDE DEF rows, bodies, r
    <3>2. ep <= (IF "down" = "up" THEN config[h] ELSE grant[h] + 1)
      BY <2>1, <2>7
    <3> QED BY <2>3, <2>4, <2>6, <2>7, <3>1, <3>2, EnqueueLink
  <2>9. AllKnown(r, DOMAIN born, Signed)
    <3>1. r = Enqueue(rows, h, ep, bodies)
      OBVIOUS
    <3> HIDE DEF rows, bodies, r
    <3> QED BY <2>4, <2>6, <3>1, EnqueueKnown
  <2> HIDE DEF r
  <2>10. /\ Flows(C, inbox, grant, config, superseded, DOMAIN born, Signed)
         /\ Flow(out, inbox, grant, superseded, C, inbox, grant, superseded)
    <3>1. r \in Seq(Row)
      BY <2>8 DEF LinkOK, RowsOK
    <3>2. Puts(out, h, "down", r, C)
      BY <1>1, <2>2, <3>1, PutDown
    <3> QED BY <1>1, <2>3, <2>8, <2>9, <3>2, OneFlows
  <2>11. ASSUME NEW f \in Hops, NEW d \in Dirs
         PROVE  /\ LinkOK(d, C[f][d], inbox[f][d], grant'[f], config[f], superseded'[f])
                /\ Later(d, C[f][d], inbox[f][d], grant[f], superseded[f], C[f][d], inbox[f][d], grant'[f], superseded'[f])
    <3>1. LinkOK(d, C[f][d], inbox[f][d], grant[f], config[f], superseded[f]) /\ C[f][d] \in Seq(Row)
      BY <2>10 DEF Flows
    <3>2. CASE f = h
      <4>1. grant'[f] = grant[f] + 1 /\ config[f] \in Nat
        BY <1>1, <1>3, <2>1, <3>2
      <4>2. /\ LinkOK(d, C[f][d], inbox[f][d], grant[f] + 1, config[f], superseded'[f])
            /\ Later(d, C[f][d], inbox[f][d], grant[f], superseded[f], C[f][d], inbox[f][d], grant[f] + 1, superseded'[f])
        BY <1>5, <3>1, <4>1, MoveLink
      <4> QED BY <4>1, <4>2
    <3>3. CASE f # h
      <4>1. grant'[f] = grant[f] /\ superseded'[f] = superseded[f]
        BY <1>3, <1>4, <3>3
      <4> QED BY <3>1, <4>1, LaterReflexive
    <3> QED BY <3>2, <3>3
  <2>12. C \in [Hops -> [Dirs -> Seq(Row)]]
    BY <2>10 DEF Flows
  <2>13. Flows(C, inbox, grant', config, superseded', DOMAIN born, Signed)
    BY <2>10, <2>11, <2>12 DEF Flows
  <2>14. Flow(C, inbox, grant, superseded, C, inbox, grant', superseded')
    BY <2>11 DEF Flow
  <2>15. Flow(out, inbox, grant, superseded, C, inbox, grant', superseded')
    BY <1>1, <2>10, <2>12, <2>14, FlowTransitive
  <2>16. \A g \in Hops : C[g]["up"] = out[g]["up"]
    BY <1>1, <2>2
  <2> QED BY <1>2, <1>3, <1>4, <1>6, <2>13, <2>15, <2>16
<1> QED BY <1>7, <1>8

Extends(a, c) == Len(a) <= Len(c) /\ \A k \in 1..Len(a) : c[k] = a[k]

\* What a concatenation holds.
LEMMA ConcatElements ==
    ASSUME NEW a \in Seq(Nat), NEW b \in Seq(Nat), NEW c, c = a \o b
    PROVE  /\ c \in Seq(Nat) /\ Elements(c) = Elements(a) \cup Elements(b) /\ Extends(a, c)
<1>1. /\ c \in Seq(Nat) /\ Len(c) = Len(a) + Len(b)
      /\ \A i \in 1 .. Len(a) + Len(b) : c[i] = IF i <= Len(a) THEN a[i] ELSE b[i - Len(a)]
  BY ConcatProperties
<1>2. /\ Len(a) \in Nat /\ Len(b) \in Nat /\ DOMAIN a = 1..Len(a) /\ DOMAIN b = 1..Len(b)
      /\ DOMAIN c = 1 .. Len(a) + Len(b)
  BY <1>1
<1>3. Len(a) <= Len(c) /\ \A k \in 1..Len(a) : k \in DOMAIN c /\ c[k] = a[k]
  BY <1>1, <1>2
<1>4. \A k \in DOMAIN b : Len(a) + k \in DOMAIN c /\ c[Len(a) + k] = b[k]
  <2> SUFFICES ASSUME NEW k \in DOMAIN b PROVE Len(a) + k \in DOMAIN c /\ c[Len(a) + k] = b[k]
    OBVIOUS
  <2>1. Len(a) + k \in 1 .. Len(a) + Len(b) /\ ~(Len(a) + k <= Len(a)) /\ (Len(a) + k) - Len(a) = k
    BY <1>2
  <2> QED BY <1>1, <1>2, <2>1
<1>5. \A k \in DOMAIN c : (k \in DOMAIN a /\ c[k] = a[k]) \/ (k - Len(a) \in DOMAIN b /\ c[k] = b[k - Len(a)])
  BY <1>1, <1>2
<1>6. Elements(c) = Elements(a) \cup Elements(b)
  <2>1. \A x : x \in Elements(a) \cup Elements(b) => x \in Elements(c)
    BY <1>2, <1>3, <1>4 DEF Elements
  <2>2. \A x : x \in Elements(c) => x \in Elements(a) \cup Elements(b)
    BY <1>5 DEF Elements
  <2> QED BY <2>1, <2>2
<1> QED BY <1>1, <1>3, <1>6 DEF Extends

\* The elements a sequence has at some positions, in their order.
LEMMA PickedIs ==
    ASSUME NEW s \in Seq(Nat), NEW ids \in SUBSET DOMAIN s,
           NEW t, t = [k \in 1..Cardinality(ids) |-> s[Nth(ids, k)]]
    PROVE  t \in Seq(Nat) /\ Elements(t) = {s[k] : k \in ids}
<1> DEFINE c == Cardinality(ids)
<1>1. ids \in SUBSET Nat /\ IsFiniteSet(ids) /\ c \in Nat
  BY RowIds
<1>2. /\ \A k \in 1..c : Nth(ids, k) \in ids
      /\ \A x \in ids : \E k \in 1..c : Nth(ids, k) = x
  BY <1>1, NthIs
<1>3. t \in [1..c -> Nat]
  BY <1>2
<1>4. t \in Seq(Nat) /\ DOMAIN t = 1..c
  <2> HIDE DEF c
  <2> QED BY <1>1, <1>3, FunIsSeq
<1>5. \A k \in 1..c : t[k] = s[Nth(ids, k)]
  OBVIOUS
<1>6. Elements(t) = {s[k] : k \in ids}
  <2> HIDE DEF c
  <2>1. \A k \in ids : \E j \in 1..c : t[j] = s[k]
    BY <1>2, <1>5
  <2>2. \A j \in 1..c : \E k \in ids : t[j] = s[k]
    BY <1>2, <1>5
  <2>3. \A x : x \in Elements(t) <=> \E j \in 1..c : x = t[j]
    BY <1>4 DEF Elements
  <2>4. ASSUME NEW x, x \in Elements(t) PROVE x \in {s[k] : k \in ids}
    <3>1. PICK j \in 1..c : x = t[j]
      BY <2>3, <2>4
    <3>2. PICK k \in ids : t[j] = s[k]
      BY <2>2
    <3> QED BY <3>1, <3>2
  <2>5. ASSUME NEW k \in ids PROVE s[k] \in Elements(t)
    <3>1. PICK j \in 1..c : t[j] = s[k]
      BY <2>1
    <3> QED BY <2>3, <3>1
  <2> QED BY <2>4, <2>5
<1> QED BY <1>4, <1>6

\* The events of a set of rows, in the order of their sequence numbers.
LEMMA EventsIs ==
    ASSUME NEW rows \in Seq(Row), NEW ids \in SUBSET DOMAIN rows,
           NEW t, t = [k \in 1..Cardinality(ids) |-> rows[Nth(ids, k)].event]
    PROVE  t \in Seq(Nat) /\ Elements(t) = {rows[i].event : i \in ids}
<1> DEFINE s == [i \in DOMAIN rows |-> rows[i].event]
<1>1. Len(rows) \in Nat /\ DOMAIN rows = 1..Len(rows) /\ \A i \in DOMAIN rows : rows[i] \in Row
  OBVIOUS
<1>2. s \in [1..Len(rows) -> Nat]
  BY <1>1 DEF Row
<1>3. s \in Seq(Nat) /\ DOMAIN s = DOMAIN rows
  <2> HIDE DEF s
  <2> QED BY <1>1, <1>2, FunIsSeq
<1>4. ids \in SUBSET Nat /\ IsFiniteSet(ids)
  BY RowIds
<1>5. \A k \in 1..Cardinality(ids) : Nth(ids, k) \in ids
  BY <1>4, NthIs
<1>6. \A i \in DOMAIN rows : s[i] = rows[i].event
  OBVIOUS
<1> HIDE DEF s
<1>7. t = [k \in 1..Cardinality(ids) |-> s[Nth(ids, k)]]
  BY <1>5, <1>6
<1>8. t \in Seq(Nat) /\ Elements(t) = {s[i] : i \in ids}
  BY <1>3, <1>7, PickedIs
<1> QED BY <1>6, <1>8

---------------------------------------------------------------------------
(* Storing a batch                                                         *)

\* The root's receipts grow, and so does what is known.
Grown ==
    /\ issued' \in Seq(Nat) /\ Extends(issued, issued')
    /\ Signed \subseteq Signed' /\ Signed' \subseteq DOMAIN born
    /\ Signed' \subseteq log'[Root] \cup purged
    /\ log' \in [Nodes -> SUBSET Nat] /\ receipts' \in [Nodes -> SUBSET Nat]
    /\ \A n \in Nodes : /\ log[n] \subseteq log'[n] /\ receipts[n] \subseteq receipts'[n]
                        /\ receipts'[n] \subseteq Signed'

\* Accepting a batch that may be accepted keeps all hops in order.
LEMMA StoreFlows ==
    ASSUME Types, Rooted, config \in [Hops -> Nat], out \in [Hops -> [Dirs -> Seq(Row)]],
           NEW rows, NEW gr \in [Hops -> Nat], NEW sp,
           Flows(rows, inbox, gr, config, sp, DOMAIN born, Signed),
           NEW n \in Nodes, NEW h \in Hops, NEW d \in Dirs, rows[h][d] = out[h][d],
           NEW stream, NEW ep, NEW ids,
           BatchOK(d, rows[h][d], inbox[h][d], gr[h], sp[h], stream, ep, ids),
           n = Root => stream = "events",
           Store(n, h, d, ids, rows, gr)
    PROVE  /\ Flows(out', inbox', gr, config, sp, DOMAIN born, Signed')
           /\ Flow(rows, inbox, gr, sp, out', inbox', gr, sp)
           /\ inbox' \in [Hops -> [Dirs -> SUBSET Nat]]
           /\ inbox'[h][d] = inbox[h][d] \cup ids
           /\ Grown
<1> DEFINE mine == out[h][d]
           new == {i \in ids \ inbox[h][d] : mine[i].stream = "events" /\ mine[i].event \notin log[n]}
           unsigned == IF n # Root THEN {}
                       ELSE {i \in ids \ inbox[h][d] : mine[i].event \notin receipts[Root]}
           proofs == {i \in ids \ inbox[h][d] : mine[i].stream = "receipts"}
           signed == [k \in 1..Cardinality(unsigned) |-> mine[Nth(unsigned, k)].event]
           bodies == Bodies(mine, new, n) \o Proofs(signed) \o Bodies(mine, proofs, n)
<1>1. /\ log' = [log EXCEPT ![n] = @ \cup {mine[i].event : i \in new}]
      /\ receipts' = [receipts EXCEPT ![n] = @ \cup {mine[i].event : i \in unsigned \cup proofs}]
      /\ issued' = issued \o signed
      /\ inbox' = [inbox EXCEPT ![h][d] = @ \cup ids]
      /\ out' = QueueAt(n, rows, gr, bodies)
  BY DEF Store
<1>2. /\ mine \in Seq(Row) /\ AllKnown(mine, DOMAIN born, Signed)
      /\ ids \subseteq DOMAIN mine /\ \A i \in ids : mine[i].stream = stream
  BY DEF Flows, BatchOK
<1>3. new \in SUBSET DOMAIN mine /\ unsigned \in SUBSET DOMAIN mine /\ proofs \in SUBSET DOMAIN mine
  BY <1>2
<1>4. \A i \in new : mine[i].stream = "events" /\ mine[i].event \notin log[n]
  OBVIOUS
<1>5. \A i \in unsigned : n = Root /\ i \in ids /\ i \notin inbox[h][d]
  OBVIOUS
<1>6. \A i \in ids \ inbox[h][d] : mine[i].stream = "events" => mine[i].event \in log[n] \/ i \in new
  OBVIOUS
<1>7. \A i \in proofs : mine[i].stream = "receipts"
  OBVIOUS
<1>8. signed = [k \in 1..Cardinality(unsigned) |-> mine[Nth(unsigned, k)].event]
  OBVIOUS
<1>9. bodies = Bodies(mine, new, n) \o Proofs(signed) \o Bodies(mine, proofs, n)
  OBVIOUS
<1> HIDE DEF mine, new, unsigned, proofs, signed, bodies
<1>10. \A i \in DOMAIN mine : /\ mine[i] \in Row /\ mine[i].event \in Nat /\ mine[i].event \in DOMAIN born
                              /\ mine[i].stream = "receipts" => mine[i].event \in Signed
  <2>1. \A i \in DOMAIN mine : mine[i] \in Row
    BY <1>2
  <2> QED BY <1>2, <2>1 DEF AllKnown, Known, Row
<1>11. signed \in Seq(Nat) /\ Elements(signed) = {mine[i].event : i \in unsigned}
  BY <1>2, <1>3, <1>8, EventsIs
<1>12. issued \in Seq(Nat) /\ log \in [Nodes -> SUBSET Nat] /\ receipts \in [Nodes -> SUBSET Nat]
       /\ inbox \in [Hops -> [Dirs -> SUBSET Nat]]
  BY DEF Types
<1>13. /\ issued' \in Seq(Nat) /\ Extends(issued, issued')
       /\ Signed' = Signed \cup {mine[i].event : i \in unsigned}
  <2>1. /\ issued' \in Seq(Nat) /\ Elements(issued') = Elements(issued) \cup Elements(signed)
        /\ Extends(issued, issued')
    BY <1>1, <1>11, <1>12, ConcatElements
  <2> QED BY <1>11, <2>1 DEF Signed
<1>14. Signed \subseteq Signed' /\ Signed' \subseteq DOMAIN born
  BY <1>3, <1>10, <1>13 DEF Rooted
<1>15. log' \in [Nodes -> SUBSET Nat] /\ receipts' \in [Nodes -> SUBSET Nat]
  BY <1>1, <1>3, <1>10, <1>12
<1>16. \A m \in Nodes : log[m] \subseteq log'[m] /\ receipts[m] \subseteq receipts'[m]
  BY <1>1, <1>12
<1>17. Signed' \subseteq log'[Root] \cup purged
  <2>1. Root \in Nodes
    BY TreeAssumption
  <2>2. Signed \subseteq log'[Root] \cup purged
    BY <1>16, <2>1 DEF Rooted
  <2>3. ASSUME NEW i \in unsigned PROVE mine[i].event \in log'[Root]
    <3>1. n = Root /\ i \in ids \ inbox[h][d] /\ mine[i].stream = "events"
      BY <1>2, <1>5
    <3>2. mine[i].event \in log[Root] \/ i \in new
      BY <1>6, <3>1
    <3> QED BY <1>1, <1>12, <1>16, <2>1, <3>1, <3>2
  <2> QED BY <1>13, <2>2, <2>3
<1>18. ASSUME NEW m \in Nodes PROVE receipts'[m] \subseteq Signed'
  <2>1. receipts[m] \subseteq Signed'
    BY <1>14 DEF Rooted
  <2>2. \A i \in unsigned \cup proofs : mine[i].event \in Signed'
    BY <1>3, <1>7, <1>10, <1>13, <1>14
  <2> QED BY <1>1, <1>12, <2>1, <2>2
<1>19. Grown
  BY <1>13, <1>14, <1>15, <1>16, <1>17, <1>18 DEF Grown
<1>20. bodies \in Seq(Body) /\ AllKnown(bodies, DOMAIN born, Signed')
  <2>1. AllKnown(mine, DOMAIN born, Signed')
    BY <1>2, <1>14, KnownMore
  <2>2. Bodies(mine, new, n) \in Seq(Body) /\ AllKnown(Bodies(mine, new, n), DOMAIN born, Signed')
    BY <1>2, <1>3, <2>1, BodiesIs
  <2>3. Bodies(mine, proofs, n) \in Seq(Body) /\ AllKnown(Bodies(mine, proofs, n), DOMAIN born, Signed')
    BY <1>2, <1>3, <2>1, BodiesIs
  <2>4. Elements(signed) \subseteq DOMAIN born \cap Signed'
    BY <1>11, <1>13, <1>14
  <2>5. Proofs(signed) \in Seq(Body) /\ AllKnown(Proofs(signed), DOMAIN born, Signed')
    BY <1>11, <2>4, ProofsIs, TreeAssumption
  <2>6. Bodies(mine, new, n) \o Proofs(signed) \in Seq(Body)
        /\ AllKnown(Bodies(mine, new, n) \o Proofs(signed), DOMAIN born, Signed')
    BY <2>2, <2>5, ConcatKnown
  <2> QED BY <1>9, <2>3, <2>6, ConcatKnown
<1>21. Flows(rows, inbox, gr, config, sp, DOMAIN born, Signed')
  BY <1>14, FlowsMore
<1>22. /\ Flows(out', inbox, gr, config, sp, DOMAIN born, Signed')
       /\ Flow(rows, inbox, gr, sp, out', inbox, gr, sp)
  BY <1>1, <1>20, <1>21, QueueFlows
<1>23. BatchOK(d, out'[h][d], inbox[h][d], gr[h], sp[h], stream, ep, ids)
  <2>1. Later(d, rows[h][d], inbox[h][d], gr[h], sp[h], out'[h][d], inbox[h][d], gr[h], sp[h])
    BY <1>22 DEF Flow
  <2>2. rows[h][d] \in Seq(Row)
    BY <1>2 DEF mine
  <2> QED BY <2>1, <2>2, LaterBatch
<1>24. /\ Flows(out', inbox', gr, config, sp, DOMAIN born, Signed')
       /\ Flow(out', inbox, gr, sp, out', inbox', gr, sp)
       /\ inbox' \in [Hops -> [Dirs -> SUBSET Nat]]
  <2>1. ids \subseteq Nat
    BY <1>2
  <2>2. Adds(inbox, h, d, ids, inbox')
    BY <1>1, <1>12, <2>1 DEF Adds
  <2>3. /\ Flows(out', inbox', gr, config, sp, DOMAIN born, Signed')
        /\ Flow(out', inbox, gr, sp, out', inbox', gr, sp)
    BY <1>22, <1>23, <2>2, InboxFlows
  <2> QED BY <2>2, <2>3 DEF Adds
<1>25. Flow(rows, inbox, gr, sp, out', inbox', gr, sp)
  <2>1. rows \in [Hops -> [Dirs -> Seq(Row)]] /\ out' \in [Hops -> [Dirs -> Seq(Row)]]
    BY <1>22 DEF Flows
  <2> QED BY <1>22, <1>24, <2>1, FlowTransitive
<1>26. inbox'[h][d] = inbox[h][d] \cup ids
  BY <1>1, <1>12
<1> QED BY <1>19, <1>24, <1>25, <1>26

---------------------------------------------------------------------------
(* The steps of the stores                                                 *)

\* A daemon's row of an event stays while its epoch does.
LEMMA OwnRowKeeps ==
    ASSUME out \in [Hops -> [Dirs -> Seq(Row)]], UNCHANGED config,
           Flow(out, inbox, grant, superseded, out', inbox', grant', superseded'),
           NEW n \in Hops, NEW e, OwnRow(n, e)
    PROVE  OwnRow(n, e)'
<1>1. PICK i \in DOMAIN out[n]["up"] : out[n]["up"][i].event = e /\ out[n]["up"][i].epoch = config[n]
  BY DEF OwnRow
<1>2. "up" \in Dirs
  BY DEF Dirs
<1> DEFINE r1 == out[n]["up"]
           r2 == out'[n]["up"]
<1>3. Later("up", r1, inbox[n]["up"], grant[n], superseded[n], r2, inbox'[n]["up"], grant'[n], superseded'[n])
  BY <1>2 DEF Flow
<1>4. r1 \in Seq(Row)
  BY <1>2
<1>5. r2 \in Seq(Row) /\ Len(r1) <= Len(r2) /\ i \in DOMAIN r1
      /\ r2[i].event = r1[i].event /\ r2[i].epoch = r1[i].epoch
  BY <1>1, <1>3 DEF Later
<1>6. i \in DOMAIN r2
  <2> HIDE DEF r1, r2
  <2> QED BY <1>4, <1>5
<1>7. i \in DOMAIN out'[n]["up"] /\ out'[n]["up"][i].event = e /\ out'[n]["up"][i].epoch = config'[n]
  BY <1>1, <1>5, <1>6
<1> QED BY <1>7 DEF OwnRow

\* A daemon keeps what its users wrote while logs, receipts and rows go on.
LEMMA OwnedKeeps ==
    ASSUME Types, Owned, out \in [Hops -> [Dirs -> Seq(Row)]],
           UNCHANGED <<born, config>>, purged \subseteq purged',
           \A n \in Nodes : \A e \in DOMAIN born \ purged' : e \in log[n] => e \in log'[n],
           \A n \in Nodes : receipts[n] \subseteq receipts'[n],
           Flow(out, inbox, grant, superseded, out', inbox', grant', superseded')
    PROVE  Owned'
<1> SUFFICES ASSUME NEW e \in DOMAIN born \ purged'
             PROVE  /\ e \in log'[born[e]]
                    /\ born[e] # Root => e \in receipts'[born[e]] \/ OwnRow(born[e], e)'
  BY DEF Owned
<1> DEFINE n == born[e]
<1>1. n \in Nodes
  BY DEF Types
<1>2. e \in log[n] /\ (n # Root => e \in receipts[n] \/ OwnRow(n, e))
  BY DEF Owned
<1>3. ASSUME n \in Hops, OwnRow(n, e) PROVE OwnRow(n, e)'
  BY <1>3, OwnRowKeeps
<1>4. n # Root => n \in Hops
  BY <1>1 DEF Hops
<1> HIDE DEF n
<1>5. e \in log'[n] /\ (n # Root => e \in receipts'[n] \/ OwnRow(n, e)')
  BY <1>1, <1>2, <1>3, <1>4
<1> QED BY <1>5 DEF n

\* Rows go on, and the epoch above, and nothing else.
LEMMA QuietKeeps ==
    ASSUME StoreInv,
           UNCHANGED <<born, log, receipts, issued, purged, inbox, config, resetVars>>,
           Flows(out', inbox, grant', config, superseded', DOMAIN born, Signed),
           Flow(out, inbox, grant, superseded, out', inbox, grant', superseded'),
           superseded' \in [Hops -> Record],
           \A g \in Hops : superseded'[g].epoch <= grant'[g],
           \A g \in Hops : config[g] # grant'[g] => config[g] # grant[g]
    PROVE  StoreInv' /\ Steady
<1>1. UNCHANGED <<checkpoints, prepared, installed>>
  BY DEF resetVars
<1>2. Types'
  BY <1>1 DEF StoreInv, Types
<1>3. Signed' = Signed
  BY DEF Signed
<1>4. Linked'
  BY <1>3 DEF Linked
<1>5. Rooted'
  BY <1>1, <1>3 DEF StoreInv, Rooted
<1>6. Owned'
  <2>1. out \in [Hops -> [Dirs -> Seq(Row)]]
    BY DEF StoreInv, Linked, Flows
  <2> QED BY <2>1, OwnedKeeps DEF StoreInv
<1>7. Prepared'
  BY <1>1 DEF StoreInv, Prepared, Forwardable, IsRoot
<1>8. Len(checkpoints) \in Nat
  BY DEF StoreInv, Types
<1>9. Steady
  BY <1>1, <1>8 DEF Steady
<1> QED BY <1>2, <1>4, <1>5, <1>6, <1>7, <1>9 DEF StoreInv

\* What the steps use of the two invariants.
LEMMA Bases ==
    ASSUME EpochInv, StoreInv
    PROVE  /\ Flows(out, inbox, grant, config, superseded, DOMAIN born, Signed)
           /\ out \in [Hops -> [Dirs -> Seq(Row)]] /\ inbox \in [Hops -> [Dirs -> SUBSET Nat]]
           /\ grant \in [Hops -> Nat] /\ config \in [Hops -> Nat] /\ superseded \in [Hops -> Record]
           /\ \A h \in Hops : config[h] = grant[h] \/ config[h] = grant[h] + 1
           /\ \A h \in Hops : superseded[h].epoch \in Nat /\ superseded[h].epoch <= grant[h]
           /\ "up" \in Dirs /\ "down" \in Dirs /\ \A h \in Hops : h \in Nodes /\ Parent[h] \in Nodes
<1>1. /\ Flows(out, inbox, grant, config, superseded, DOMAIN born, Signed)
      /\ out \in [Hops -> [Dirs -> Seq(Row)]] /\ inbox \in [Hops -> [Dirs -> SUBSET Nat]]
      /\ grant \in [Hops -> Nat] /\ config \in [Hops -> Nat] /\ superseded \in [Hops -> Record]
  BY DEF StoreInv, Linked, Flows, EpochInv, Types
<1>2. \A h \in Hops : config[h] = grant[h] \/ config[h] = grant[h] + 1
  BY <1>1 DEF EpochInv
<1>3. \A h \in Hops : superseded[h].epoch \in Nat /\ superseded[h].epoch <= grant[h]
  BY <1>1 DEF Record, StoreInv, Prepared
<1>4. "up" \in Dirs /\ "down" \in Dirs /\ \A h \in Hops : h \in Nodes /\ Parent[h] \in Nodes
  BY TreeAssumption DEF Dirs, Hops
<1> QED BY <1>1, <1>2, <1>3, <1>4

\* Every hop and direction of flows that are in order.
LEMMA FlowsAt ==
    ASSUME NEW rows, NEW ib, NEW gr, NEW cf, NEW sp, NEW E, NEW R,
           Flows(rows, ib, gr, cf, sp, E, R),
           NEW h \in Hops, NEW d \in Dirs
    PROVE  /\ LinkOK(d, rows[h][d], ib[h][d], gr[h], cf[h], sp[h]) /\ AllKnown(rows[h][d], E, R)
           /\ rows[h][d] \in Seq(Row) /\ ib[h][d] \subseteq DOMAIN rows[h][d]
BY DEF Flows, LinkOK, RowsOK

\* A batch is read at the lower side.
LEMMA ReadKeeps ==
    ASSUME EpochInv, StoreInv, NEW h \in Hops,
           NEW ids, ids = Pending(out[h].up, "events", config[h], 0),
           out' = [out EXCEPT ![h].up = Emit(@, ids)],
           UNCHANGED <<born, log, receipts, rootVars, inbox, grant, config, superseded, prepared, installed>>
    PROVE  /\ StoreInv' /\ Steady
           /\ BatchOK("up", out'[h]["up"], inbox'[h]["up"], grant'[h], superseded'[h], "events", config'[h], ids)
<1> DEFINE rows == out[h]["up"]
           r == Emit(rows, ids)
<1>1. r = Emit(rows, ids) /\ ids = Pending(rows, "events", config[h], 0) /\ out' = [out EXCEPT ![h].up = r]
  OBVIOUS
<1>2. /\ LinkOK("up", rows, inbox[h]["up"], grant[h], config[h], superseded[h])
      /\ AllKnown(rows, DOMAIN born, Signed) /\ rows \in Seq(Row)
      /\ "up" \in Dirs /\ grant[h] \in Nat /\ config[h] \in Nat /\ "up" # "down"
  BY Bases, FlowsAt
<1> HIDE DEF rows, r
<1>3. PendingOK("up", rows, inbox[h]["up"], grant[h], superseded[h], "events", config[h], 0, ids)
  BY <1>1, <1>2, PendingIs
<1>4. /\ LinkOK("up", r, inbox[h]["up"], grant[h], config[h], superseded[h])
      /\ Later("up", rows, inbox[h]["up"], grant[h], superseded[h], r, inbox[h]["up"], grant[h], superseded[h])
      /\ BatchOK("up", r, inbox[h]["up"], grant[h], superseded[h], "events", config[h], ids)
  BY <1>1, <1>2, <1>3, PendingBatch
<1>5. AllKnown(r, DOMAIN born, Signed) /\ r \in Seq(Row)
  <2>1. DOMAIN r = DOMAIN rows
    BY <1>1 DEF Emit
  <2>2. AllKnown(r, DOMAIN born, Signed)
    BY <1>2, <1>4, <2>1, StatesKnown
  <2> QED BY <1>4, <2>2 DEF LinkOK, RowsOK
<1>6. Puts(out, h, "up", r, out')
  BY <1>1, <1>5, Bases, PutUp
<1>7. /\ Flows(out', inbox, grant, config, superseded, DOMAIN born, Signed)
      /\ Flow(out, inbox, grant, superseded, out', inbox, grant, superseded)
  BY <1>2, <1>4, <1>5, <1>6, Bases, OneFlows DEF rows
<1>8. StoreInv' /\ Steady
  <2>1. UNCHANGED <<issued, purged, checkpoints, prepared, installed>>
    BY DEF rootVars
  <2>2. UNCHANGED <<born, log, receipts, issued, purged, inbox, config, resetVars>>
    BY <2>1 DEF resetVars
  <2>3. /\ superseded' \in [Hops -> Record]
        /\ \A g \in Hops : superseded'[g].epoch <= grant'[g]
        /\ \A g \in Hops : config[g] # grant'[g] => config[g] # grant[g]
    BY Bases
  <2>4. /\ Flows(out', inbox, grant', config, superseded', DOMAIN born, Signed)
        /\ Flow(out, inbox, grant, superseded, out', inbox, grant', superseded')
    BY <1>7
  <2> QED BY <2>2, <2>3, <2>4, QuietKeeps
<1>9. out'[h]["up"] = r
  BY <1>6, <1>2 DEF Puts
<1> QED BY <1>4, <1>8, <1>9
\* The peer's answer is taken at the lower side.
LEMMA TakeKeeps ==
    ASSUME EpochInv, StoreInv, NEW h \in Hops, NEW through, through \in {0} \cup inbox[h]["up"],
           AckAllowed(out[h].up, "events", config[h], through, 0),
           out' = [out EXCEPT ![h].up = Acknowledge(@, "events", config[h], through, 0)],
           UNCHANGED <<born, log, receipts, rootVars, inbox, grant, config, superseded, prepared, installed>>
    PROVE  StoreInv' /\ Steady
<1> DEFINE rows == out[h]["up"]
           r == Acknowledge(rows, "events", config[h], through, 0)
<1>1. r = Acknowledge(rows, "events", config[h], through, 0) /\ out' = [out EXCEPT ![h].up = r]
  OBVIOUS
<1>2. /\ LinkOK("up", rows, inbox[h]["up"], grant[h], config[h], superseded[h])
      /\ AllKnown(rows, DOMAIN born, Signed) /\ rows \in Seq(Row)
      /\ "up" \in Dirs /\ grant[h] \in Nat /\ config[h] \in Nat /\ "up" # "down"
  BY Bases, FlowsAt
<1>3. through \in DOMAIN rows /\ rows[through].stream = "events" /\ rows[through].epoch = config[h]
  BY DEF AckAllowed
<1> HIDE DEF rows, r
<1>4. through \in inbox[h]["up"]
  <2>1. 0 \notin DOMAIN rows
    BY <1>2
  <2> QED BY <1>3, <2>1
<1>5. /\ LinkOK("up", r, inbox[h]["up"], grant[h], config[h], superseded[h])
      /\ Later("up", rows, inbox[h]["up"], grant[h], superseded[h], r, inbox[h]["up"], grant[h], superseded[h])
  BY <1>1, <1>2, <1>3, <1>4, AcknowledgeLink
<1>6. AllKnown(r, DOMAIN born, Signed) /\ r \in Seq(Row)
  <2>1. DOMAIN r = DOMAIN rows
    BY <1>1 DEF Acknowledge
  <2>2. AllKnown(r, DOMAIN born, Signed)
    BY <1>2, <1>5, <2>1, StatesKnown
  <2> QED BY <1>5, <2>2 DEF LinkOK, RowsOK
<1>7. Puts(out, h, "up", r, out')
  BY <1>1, <1>6, Bases, PutUp
<1>8. /\ Flows(out', inbox, grant, config, superseded, DOMAIN born, Signed)
      /\ Flow(out, inbox, grant, superseded, out', inbox, grant, superseded)
  BY <1>2, <1>5, <1>6, <1>7, Bases, OneFlows DEF rows
<1>9. UNCHANGED <<born, log, receipts, issued, purged, inbox, config, resetVars>>
  BY DEF resetVars, rootVars
<1>10. /\ superseded' \in [Hops -> Record]
       /\ \A g \in Hops : superseded'[g].epoch <= grant'[g]
       /\ \A g \in Hops : config[g] # grant'[g] => config[g] # grant[g]
  BY Bases
<1>11. /\ Flows(out', inbox, grant', config, superseded', DOMAIN born, Signed)
       /\ Flow(out, inbox, grant, superseded, out', inbox, grant', superseded')
  BY <1>8
<1> QED BY <1>9, <1>10, <1>11, QuietKeeps

\* The boundary of the epoch the hop is in after the call is what its record says.
LEMMA BoundaryIs ==
    ASSUME EpochInv, StoreInv, NEW h \in Hops, NEW ep \in Nat, Moved(h, ep), NEW stream \in Streams,
           NEW b, b = BoundaryAt(h, stream, ep)
    PROVE  /\ b \in Nat
           /\ \/ b = 0
              \/ "down" = "down" /\ stream = "events" /\ superseded'[h].epoch = ep /\ superseded'[h].through = b
<1>1. superseded[h] \in Record
  BY Bases
<1>2. CASE ep = grant[h]
  <2>1. superseded' = superseded
    BY <1>2 DEF Moved
  <2>2. b = Boundary(h, "down", stream, ep, ep)
    BY <1>2 DEF BoundaryAt
  <2>3. superseded[h].through \in Nat
    BY <1>1 DEF Record
  <2>4. \/ b = 0
        \/ stream # "receipts" /\ superseded[h].epoch = ep /\ b = superseded[h].through
    BY <2>2 DEF Boundary
  <2> QED BY <2>1, <2>3, <2>4 DEF Streams
<1>3. CASE ep # grant[h]
  BY <1>3 DEF BoundaryAt
<1> QED BY <1>2, <1>3

\* What the epochs and records are after a call.
LEMMA AfterMove ==
    ASSUME EpochInv, StoreInv, NEW h \in Hops, NEW ep \in Nat, ep <= config[h], Moved(h, ep)
    PROVE  /\ superseded' \in [Hops -> Record] /\ grant' \in [Hops -> Nat] /\ grant'[h] = ep
           /\ \A g \in Hops : superseded'[g].epoch <= grant'[g]
           /\ \A g \in Hops : config[g] # grant'[g] => config[g] # grant[g]
<1>1. PICK C : C = Carried(h, ep)
  OBVIOUS
<1>2. /\ superseded' \in [Hops -> Record] /\ grant' \in [Hops -> Nat] /\ grant'[h] = ep
      /\ \A g \in Hops : superseded'[g].epoch <= grant'[g]
      /\ grant' = [grant EXCEPT ![h] = ep]
  BY <1>1, CarryFlows
<1>3. \A g \in Hops : g # h => grant'[g] = grant[g]
  BY <1>2, Bases
<1>4. ep = grant[h] \/ ep = grant[h] + 1
  BY DEF Moved, Admitted
<1>5. config[h] # grant'[h] => config[h] # grant[h]
  BY <1>2, <1>4, Bases
<1> QED BY <1>2, <1>3, <1>5

\* An offer keeps the stores, and is a batch that may be accepted.
LEMMA OfferKeeps ==
    ASSUME EpochInv, StoreInv, NEW h \in Hops, NEW ep \in Nat, ep <= config[h], NEW stream \in Streams,
           Offer(h, stream, ep), NEW ids, ids = Offered(h, stream, ep)
    PROVE  /\ StoreInv' /\ Steady
           /\ BatchOK("down", out'[h]["down"], inbox'[h]["down"], grant'[h], superseded'[h], stream, ep, ids)
<1> DEFINE C == Carried(h, ep)
           b == BoundaryAt(h, stream, ep)
           rows == C[h]["down"]
           r == Emit(rows, ids)
<1>1. /\ Moved(h, ep) /\ out' = [C EXCEPT ![h].down = r]
      /\ UNCHANGED <<born, log, receipts, issued, purged, inbox, config, resetVars>>
      /\ ids = Pending(rows, stream, ep, b) /\ r = Emit(rows, ids)
      /\ C = Carried(h, ep) /\ b = BoundaryAt(h, stream, ep)
  BY DEF Offer, Offered
<1>2. rows = C[h]["down"]
  OBVIOUS
<1> HIDE DEF C, b, rows, r
<1>3. /\ Flows(C, inbox, grant', config, superseded', DOMAIN born, Signed)
      /\ Flow(out, inbox, grant, superseded, C, inbox, grant', superseded')
  BY <1>1, CarryFlows
<1>4. /\ superseded' \in [Hops -> Record] /\ grant' \in [Hops -> Nat] /\ grant'[h] = ep
      /\ \A g \in Hops : superseded'[g].epoch <= grant'[g]
      /\ \A g \in Hops : config[g] # grant'[g] => config[g] # grant[g]
  BY <1>1, AfterMove
<1>5. /\ "down" \in Dirs /\ grant'[h] \in Nat /\ config[h] \in Nat
      /\ C \in [Hops -> [Dirs -> Seq(Row)]] /\ out \in [Hops -> [Dirs -> Seq(Row)]]
      /\ LinkOK("down", rows, inbox[h]["down"], grant'[h], config[h], superseded'[h])
      /\ AllKnown(rows, DOMAIN born, Signed) /\ rows \in Seq(Row)
  <2>1. "down" \in Dirs /\ grant'[h] \in Nat /\ config[h] \in Nat /\ out \in [Hops -> [Dirs -> Seq(Row)]]
    BY <1>4, Bases
  <2>2. C \in [Hops -> [Dirs -> Seq(Row)]]
    BY <1>3 DEF Flows
  <2> QED BY <1>2, <1>3, <2>1, <2>2, FlowsAt
<1>6. /\ b \in Nat
      /\ \/ b = 0
         \/ "down" = "down" /\ stream = "events" /\ superseded'[h].epoch = ep /\ superseded'[h].through = b
  BY <1>1, BoundaryIs
<1>7. PendingOK("down", rows, inbox[h]["down"], grant'[h], superseded'[h], stream, ep, b, ids)
  BY <1>1, <1>5, <1>6, PendingIs
<1>8. /\ LinkOK("down", r, inbox[h]["down"], grant'[h], config[h], superseded'[h])
      /\ Later("down", rows, inbox[h]["down"], grant'[h], superseded'[h],
               r, inbox[h]["down"], grant'[h], superseded'[h])
      /\ BatchOK("down", r, inbox[h]["down"], grant'[h], superseded'[h], stream, ep, ids)
  <2>1. ep <= grant'[h]
    BY <1>4
  <2> QED BY <1>1, <1>5, <1>7, <2>1, PendingBatch
<1>9. AllKnown(r, DOMAIN born, Signed) /\ r \in Seq(Row)
  <2>1. DOMAIN r = DOMAIN rows
    BY <1>1 DEF Emit
  <2>2. AllKnown(r, DOMAIN born, Signed)
    BY <1>5, <1>8, <2>1, StatesKnown
  <2> QED BY <1>8, <2>2 DEF LinkOK, RowsOK
<1>10. Puts(C, h, "down", r, out')
  BY <1>1, <1>5, <1>9, PutDown
<1>11. /\ Flows(out', inbox, grant', config, superseded', DOMAIN born, Signed)
       /\ Flow(C, inbox, grant', superseded', out', inbox, grant', superseded')
  BY <1>2, <1>3, <1>5, <1>8, <1>9, <1>10, OneFlows
<1>12. Flow(out, inbox, grant, superseded, out', inbox, grant', superseded')
  BY <1>3, <1>5, <1>11, FlowTransitive
<1>13. StoreInv' /\ Steady
  BY <1>1, <1>4, <1>11, <1>12, QuietKeeps
<1>14. out'[h]["down"] = r
  BY <1>5, <1>10 DEF Puts
<1> QED BY <1>1, <1>8, <1>13, <1>14

\* An acknowledgement of a position that was accepted keeps the stores.
LEMMA AckKeeps ==
    ASSUME EpochInv, StoreInv, NEW h \in Hops, NEW ep \in Nat, ep <= config[h], NEW stream \in Streams,
           NEW through, through \in {0} \cup inbox[h]["down"], Ack(h, stream, ep, through)
    PROVE  StoreInv' /\ Steady
<1> DEFINE C == Carried(h, ep)
           b == BoundaryAt(h, stream, ep)
           rows == C[h]["down"]
           r == Acknowledge(rows, stream, ep, through, b)
<1>1. /\ Moved(h, ep) /\ out' = [out EXCEPT ![h].down = r]
      /\ UNCHANGED <<born, log, receipts, issued, purged, inbox, config, resetVars>>
      /\ AckAllowed(rows, stream, ep, through, b)
      /\ r = Acknowledge(rows, stream, ep, through, b) /\ C = Carried(h, ep)
  BY DEF Ack
<1>2. rows = C[h]["down"]
  OBVIOUS
<1>3. out \in [Hops -> [Dirs -> Seq(Row)]] /\ C = Carried(h, ep)
  BY Bases
<1>4. \A x : [out EXCEPT ![h].down = x] = [C EXCEPT ![h].down = x]
  <2>1. \A y : [[out EXCEPT ![h].down = y] EXCEPT ![h].down = r] = [out EXCEPT ![h].down = r]
    BY <1>3
  <2> QED BY <1>3 DEF Carried
<1> HIDE DEF C, b, rows, r
<1>5. /\ Flows(C, inbox, grant', config, superseded', DOMAIN born, Signed)
      /\ Flow(out, inbox, grant, superseded, C, inbox, grant', superseded')
  BY <1>1, CarryFlows
<1>6. /\ superseded' \in [Hops -> Record] /\ grant' \in [Hops -> Nat] /\ grant'[h] = ep
      /\ \A g \in Hops : superseded'[g].epoch <= grant'[g]
      /\ \A g \in Hops : config[g] # grant'[g] => config[g] # grant[g]
  BY <1>1, AfterMove
<1>7. /\ "down" \in Dirs /\ grant'[h] \in Nat /\ config[h] \in Nat
      /\ C \in [Hops -> [Dirs -> Seq(Row)]] /\ out \in [Hops -> [Dirs -> Seq(Row)]]
      /\ LinkOK("down", rows, inbox[h]["down"], grant'[h], config[h], superseded'[h])
      /\ AllKnown(rows, DOMAIN born, Signed) /\ rows \in Seq(Row)
  <2>1. "down" \in Dirs /\ grant'[h] \in Nat /\ config[h] \in Nat /\ out \in [Hops -> [Dirs -> Seq(Row)]]
    BY <1>6, Bases
  <2>2. C \in [Hops -> [Dirs -> Seq(Row)]]
    BY <1>5 DEF Flows
  <2> QED BY <1>2, <1>5, <2>1, <2>2, FlowsAt
<1>8. through \in DOMAIN rows /\ rows[through].stream = stream /\ rows[through].epoch = ep
  BY <1>1 DEF AckAllowed
<1>9. through \in inbox[h]["down"]
  <2>1. 0 \notin DOMAIN rows
    BY <1>7
  <2> QED BY <1>8, <2>1
<1>10. /\ LinkOK("down", r, inbox[h]["down"], grant'[h], config[h], superseded'[h])
       /\ Later("down", rows, inbox[h]["down"], grant'[h], superseded'[h],
                r, inbox[h]["down"], grant'[h], superseded'[h])
  <2>1. ep <= grant'[h]
    BY <1>6
  <2> QED BY <1>1, <1>7, <1>8, <1>9, <2>1, AcknowledgeLink
<1>11. AllKnown(r, DOMAIN born, Signed) /\ r \in Seq(Row)
  <2>1. DOMAIN r = DOMAIN rows
    BY <1>1 DEF Acknowledge
  <2>2. AllKnown(r, DOMAIN born, Signed)
    BY <1>7, <1>10, <2>1, StatesKnown
  <2> QED BY <1>10, <2>2 DEF LinkOK, RowsOK
<1>12. Puts(C, h, "down", r, out')
  BY <1>1, <1>4, <1>7, <1>11, PutDown
<1>13. /\ Flows(out', inbox, grant', config, superseded', DOMAIN born, Signed)
       /\ Flow(C, inbox, grant', superseded', out', inbox, grant', superseded')
  BY <1>2, <1>5, <1>7, <1>10, <1>11, <1>12, OneFlows
<1>14. Flow(out, inbox, grant, superseded, out', inbox, grant', superseded')
  BY <1>5, <1>7, <1>13, FlowTransitive
<1> QED BY <1>1, <1>6, <1>13, <1>14, QuietKeeps

\* What is known grows, rows and inboxes go on, and nobody's log shrinks.
LEMMA GrownKeeps ==
    ASSUME EpochInv, StoreInv, UNCHANGED <<born, purged, config, checkpoints, prepared, installed>>,
           Grown, inbox' \in [Hops -> [Dirs -> SUBSET Nat]],
           Flows(out', inbox', grant', config, superseded', DOMAIN born, Signed'),
           Flow(out, inbox, grant, superseded, out', inbox', grant', superseded'),
           superseded' \in [Hops -> Record],
           \A g \in Hops : superseded'[g].epoch <= grant'[g],
           \A g \in Hops : config[g] # grant'[g] => config[g] # grant[g]
    PROVE  StoreInv' /\ Steady
<1>1. Types'
  BY DEF StoreInv, Types, Grown
<1>2. Linked'
  BY DEF Linked
<1>3. Rooted'
  <2>1. /\ Signed' \subseteq DOMAIN born' /\ Signed' \subseteq log'[Root] \cup purged'
        /\ \A n \in Nodes : receipts'[n] \subseteq Signed'
    BY DEF Grown
  <2>2. ASSUME NEW c \in DOMAIN checkpoints
        PROVE  /\ checkpoints[c].high <= Len(issued')
               /\ \A k \in 1..checkpoints[c].high : issued'[k] \in checkpoints[c].events \cup purged
    <3>1. /\ checkpoints[c].high <= Len(issued) /\ checkpoints[c].high \in Nat
          /\ \A k \in 1..checkpoints[c].high : issued[k] \in checkpoints[c].events \cup purged
      <4>1. checkpoints[c] \in Checkpoint
        BY DEF StoreInv, Types
      <4> QED BY <4>1 DEF StoreInv, Rooted, Checkpoint
    <3>2. Len(issued) \in Nat /\ Len(issued') \in Nat /\ Len(issued) <= Len(issued')
          /\ \A k \in 1..Len(issued) : issued'[k] = issued[k]
      BY DEF StoreInv, Types, Grown, Extends
    <3>3. \A k \in 1..checkpoints[c].high : k \in 1..Len(issued)
      BY <3>1, <3>2
    <3> QED BY <3>1, <3>2, <3>3
  <2> QED BY <2>1, <2>2 DEF Rooted
<1>4. Owned'
  <2>1. out \in [Hops -> [Dirs -> Seq(Row)]]
    BY Bases
  <2>2. \A n \in Nodes : log[n] \subseteq log'[n] /\ receipts[n] \subseteq receipts'[n]
    BY DEF Grown
  <2> QED BY <2>1, <2>2, OwnedKeeps DEF StoreInv
<1>5. Prepared'
  BY DEF StoreInv, Prepared, Forwardable, IsRoot
<1>6. Steady
  <2>1. Len(checkpoints) \in Nat
    BY DEF StoreInv, Types
  <2> QED BY <2>1 DEF Steady
<1> QED BY <1>1, <1>2, <1>3, <1>4, <1>5, <1>6 DEF StoreInv

\* The daemon above accepts a batch.
LEMMA AcceptKeeps ==
    ASSUME EpochInv, StoreInv, NEW h \in Hops, NEW ep \in Nat, ep <= config[h], NEW ids,
           BatchOK("up", out[h]["up"], inbox[h]["up"], grant[h], superseded[h], "events", ep, ids),
           Accept(h, ep, ids)
    PROVE  /\ StoreInv' /\ Steady /\ UNCHANGED config
           /\ inbox'[h]["up"] = inbox[h]["up"] \cup ids
<1> DEFINE C == Carried(h, ep)
           gr == [grant EXCEPT ![h] = ep]
<1>1. /\ Moved(h, ep) /\ C = Carried(h, ep)
      /\ Store(Parent[h], h, "up", ids, C, gr)
      /\ UNCHANGED <<born, purged, config, resetVars>>
  BY DEF Accept
<1> HIDE DEF C
<1>2. /\ Flows(C, inbox, grant', config, superseded', DOMAIN born, Signed)
      /\ Flow(out, inbox, grant, superseded, C, inbox, grant', superseded')
      /\ \A g \in Hops : C[g]["up"] = out[g]["up"]
      /\ grant' = gr
  BY <1>1, CarryFlows
<1>3. /\ superseded' \in [Hops -> Record] /\ grant' \in [Hops -> Nat]
      /\ \A g \in Hops : superseded'[g].epoch <= grant'[g]
      /\ \A g \in Hops : config[g] # grant'[g] => config[g] # grant[g]
  BY <1>1, AfterMove
<1> HIDE DEF gr
<1>4. /\ "up" \in Dirs /\ Parent[h] \in Nodes /\ config \in [Hops -> Nat]
      /\ out \in [Hops -> [Dirs -> Seq(Row)]] /\ C[h]["up"] = out[h]["up"]
  BY <1>2, Bases
<1>5. BatchOK("up", C[h]["up"], inbox[h]["up"], grant'[h], superseded'[h], "events", ep, ids)
  <2>1. Later("up", out[h]["up"], inbox[h]["up"], grant[h], superseded[h],
              C[h]["up"], inbox[h]["up"], grant'[h], superseded'[h])
    BY <1>2, <1>4 DEF Flow
  <2>2. out[h]["up"] \in Seq(Row)
    BY <1>4
  <2> QED BY <2>1, <2>2, LaterBatch
<1>6. Store(Parent[h], h, "up", ids, C, grant')
  BY <1>1, <1>2
<1>7. Types /\ Rooted
  BY DEF StoreInv
<1>8. /\ Flows(out', inbox', grant', config, superseded', DOMAIN born, Signed')
      /\ Flow(C, inbox, grant', superseded', out', inbox', grant', superseded')
      /\ inbox' \in [Hops -> [Dirs -> SUBSET Nat]]
      /\ inbox'[h]["up"] = inbox[h]["up"] \cup ids
      /\ Grown
  <2>1. /\ Flows(C, inbox, grant', config, superseded', DOMAIN born, Signed)
        /\ grant' \in [Hops -> Nat]
    BY <1>2, <1>3
  <2>2. Parent[h] = Root => "events" = "events"
    OBVIOUS
  <2> QED BY <1>4, <1>5, <1>6, <1>7, <2>1, <2>2, StoreFlows
<1>9. Flow(out, inbox, grant, superseded, out', inbox', grant', superseded')
  <2>1. C \in [Hops -> [Dirs -> Seq(Row)]]
    BY <1>2 DEF Flows
  <2> QED BY <1>2, <1>4, <1>8, <2>1, FlowTransitive
<1>10. UNCHANGED <<born, purged, config, checkpoints, prepared, installed>>
  BY <1>1 DEF resetVars
<1>11. StoreInv' /\ Steady
  BY <1>3, <1>8, <1>9, <1>10, GrownKeeps
<1> QED BY <1>8, <1>10, <1>11

\* The lower side stores what it was offered.
LEMMA OfferedKeeps ==
    ASSUME EpochInv, StoreInv, NEW h \in Hops, NEW stream, NEW ep, NEW ids,
           BatchOK("down", out[h]["down"], inbox[h]["down"], grant[h], superseded[h], stream, ep, ids),
           Store(h, h, "down", ids, out, grant),
           UNCHANGED <<born, purged, grant, config, superseded, resetVars>>
    PROVE  StoreInv' /\ Steady /\ inbox'[h]["down"] = inbox[h]["down"] \cup ids
<1>1. /\ "down" \in Dirs /\ h \in Nodes /\ h # Root /\ Types /\ Rooted
      /\ config \in [Hops -> Nat] /\ grant \in [Hops -> Nat] /\ superseded \in [Hops -> Record]
      /\ out \in [Hops -> [Dirs -> Seq(Row)]]
      /\ Flows(out, inbox, grant, config, superseded, DOMAIN born, Signed)
      /\ \A g \in Hops : superseded[g].epoch <= grant[g]
  BY Bases DEF Hops, StoreInv
<1>2. /\ Flows(out', inbox', grant, config, superseded, DOMAIN born, Signed')
      /\ Flow(out, inbox, grant, superseded, out', inbox', grant, superseded)
      /\ inbox' \in [Hops -> [Dirs -> SUBSET Nat]]
      /\ inbox'[h]["down"] = inbox[h]["down"] \cup ids
      /\ Grown
  BY <1>1, StoreFlows
<1>3. /\ UNCHANGED <<born, purged, config, checkpoints, prepared, installed>>
      /\ grant' = grant /\ superseded' = superseded
  BY DEF resetVars
<1>4. StoreInv' /\ Steady
  BY <1>1, <1>2, <1>3, GrownKeeps
<1> QED BY <1>2, <1>4

---------------------------------------------------------------------------
(* A checkpoint is prepared for a hop                                      *)

\* A checkpoint stands in for rows downwards only.
LEMMA UpLink ==
    ASSUME NEW rows, NEW ib, NEW g, NEW c, NEW sup, NEW sup2, LinkOK("up", rows, ib, g, c, sup)
    PROVE  LinkOK("up", rows, ib, g, c, sup2) /\ Later("up", rows, ib, g, sup, rows, ib, g, sup2)
<1>1. \A i : Passed("up", rows, ib, g, sup, i) <=> Passed("up", rows, ib, g, sup2, i)
  BY DEF Passed
<1>2. rows \in Seq(Row)
  BY DEF LinkOK, RowsOK
<1>3. LinkOK("up", rows, ib, g, c, sup2)
  BY <1>1 DEF LinkOK, OrderOK
<1>4. Later("up", rows, ib, g, sup, rows, ib, g, sup2)
  BY <1>1, <1>2 DEF Later
<1> QED BY <1>3, <1>4

\* A checkpoint stands in for the rows some hops have in their epoch.
StandsIn(rows, gr, sp, sp2) ==
    \A h \in Hops : \/ sp2[h] = sp[h]
                    \/ /\ sp2[h].epoch = gr[h]
                       /\ \A i \in InEpoch(rows[h]["down"], gr[h]) : i <= sp2[h].through

\* Hops stay in order when a checkpoint stands in for rows the receiver gets with it.
LEMMA SupersedeFlows ==
    ASSUME NEW rows, NEW ib, NEW gr \in [Hops -> Nat], NEW cf \in [Hops -> Nat], NEW sp, NEW E,
           NEW R,
           Flows(rows, ib, gr, cf, sp, E, R), \A h \in Hops : sp[h].epoch \in Nat /\ sp[h].epoch <= gr[h],
           NEW sp2, StandsIn(rows, gr, sp, sp2)
    PROVE  Flows(rows, ib, gr, cf, sp2, E, R) /\ Flow(rows, ib, gr, sp, rows, ib, gr, sp2)
<1>1. ASSUME NEW h \in Hops, NEW d \in Dirs
      PROVE  /\ LinkOK(d, rows[h][d], ib[h][d], gr[h], cf[h], sp2[h]) /\ AllKnown(rows[h][d], E, R)
             /\ Later(d, rows[h][d], ib[h][d], gr[h], sp[h], rows[h][d], ib[h][d], gr[h], sp2[h])
  <2>1. /\ LinkOK(d, rows[h][d], ib[h][d], gr[h], cf[h], sp[h]) /\ AllKnown(rows[h][d], E, R)
        /\ rows[h][d] \in Seq(Row)
    BY FlowsAt
  <2>2. gr[h] \in Nat /\ cf[h] \in Nat /\ sp[h].epoch \in Nat /\ sp[h].epoch <= gr[h]
    OBVIOUS
  <2>3. CASE d = "up"
    BY <2>1, <2>3, UpLink
  <2>4. CASE d = "down" /\ sp2[h] = sp[h]
    BY <2>1, <2>4, LaterReflexive
  <2>5. CASE d = "down" /\ sp2[h] # sp[h]
    <3>1. sp2[h].epoch = gr[h] /\ \A i \in InEpoch(rows[h][d], gr[h]) : i <= sp2[h].through
      BY <2>5 DEF StandsIn
    <3>2. /\ LinkOK(d, rows[h][d], ib[h][d], gr[h], cf[h], sp2[h])
          /\ Later(d, rows[h][d], ib[h][d], gr[h], sp[h], rows[h][d], ib[h][d], gr[h], sp2[h])
      BY <2>1, <2>2, <3>1, SupersedeLink
    <3> QED BY <2>1, <3>2
  <2> QED BY <2>3, <2>4, <2>5 DEF Dirs
<1>2. rows \in [Hops -> [Dirs -> Seq(Row)]]
  BY DEF Flows
<1> QED BY <1>1, <1>2 DEF Flows, Flow

\* Checkpoints stay or are signed now; the one kept for a hop changes.
SignedNow(cps) ==
    \A c \in DOMAIN cps : \/ c \in DOMAIN checkpoints /\ cps[c] = checkpoints[c]
                          \/ cps[c] = Snapshot
KeptFor(h, prep, cps) ==
    \A g \in Hops : \/ prep[g] = prepared[g]
                    \/ g = h /\ prep[g].cp # 0 /\ prep[g].cp <= Len(cps)

\* A hop's checkpoint changes, perhaps to one signed now, and no more than rows with it.
LEMMA RenewKeeps ==
    ASSUME EpochInv, StoreInv, NEW h \in Hops, Forwardable(h),
           UNCHANGED <<born, log, receipts, issued, purged, inbox, grant, config, installed>>,
           checkpoints' \in Seq(Checkpoint), Len(checkpoints) <= Len(checkpoints'),
           SignedNow(checkpoints'),
           Flows(out', inbox, grant, config, superseded', DOMAIN born, Signed),
           Flow(out, inbox, grant, superseded, out', inbox, grant, superseded'),
           superseded' \in [Hops -> Record], \A g \in Hops : superseded'[g].epoch <= grant[g],
           prepared' \in [Hops -> [cp : Nat, epoch : Nat]],
           KeptFor(h, prepared', checkpoints')
    PROVE  StoreInv' /\ Steady
<1>1. Types'
  BY DEF StoreInv, Types
<1>2. Signed' = Signed
  BY DEF Signed
<1>3. Linked'
  BY <1>2 DEF Linked
<1>4. Rooted'
  <2>1. /\ Signed' \subseteq DOMAIN born' /\ Signed' \subseteq log'[Root] \cup purged'
        /\ \A n \in Nodes : receipts'[n] \subseteq Signed'
    BY <1>2 DEF StoreInv, Rooted
  <2>2. Snapshot.high = Len(issued) /\ Snapshot.events = log[Root]
    BY DEF Snapshot
  <2>3. \A k \in 1..Len(issued) : issued[k] \in log[Root] \cup purged
    BY DEF StoreInv, Rooted, Signed, Elements, Types
  <2>4. Len(issued) \in Nat
    BY DEF StoreInv, Types
  <2>5. ASSUME NEW c \in DOMAIN checkpoints'
        PROVE  /\ checkpoints'[c].high <= Len(issued)
               /\ \A k \in 1..checkpoints'[c].high : issued[k] \in checkpoints'[c].events \cup purged
    BY <2>2, <2>3, <2>4 DEF StoreInv, Rooted, SignedNow
  <2> QED BY <2>1, <2>5 DEF Rooted
<1>5. Owned'
  <2>1. out \in [Hops -> [Dirs -> Seq(Row)]]
    BY Bases
  <2>2. Flow(out, inbox, grant, superseded, out', inbox', grant', superseded')
    OBVIOUS
  <2>3. \A n \in Nodes : receipts[n] \subseteq receipts'[n]
    OBVIOUS
  <2>4. Types /\ Owned
    BY DEF StoreInv
  <2> QED BY <2>1, <2>2, <2>3, <2>4, OwnedKeeps
<1>6. Prepared'
  <2>1. Len(checkpoints) \in Nat /\ Len(checkpoints') \in Nat
    BY DEF StoreInv, Types
  <2>2. \A n \in Nodes : installed'[n] <= Len(checkpoints')
    BY <2>1 DEF StoreInv, Prepared, Types
  <2>3. ASSUME NEW g \in Hops
        PROVE  /\ superseded'[g].epoch <= grant'[g]
               /\ prepared'[g].cp <= Len(checkpoints')
               /\ prepared'[g].cp # 0 => Forwardable(g)'
               /\ config'[g] # grant'[g] => prepared'[g].cp # 0
    <3>1. /\ prepared[g].cp <= Len(checkpoints) /\ prepared[g].cp \in Nat
          /\ prepared[g].cp # 0 => Forwardable(g)
          /\ config[g] # grant[g] => prepared[g].cp # 0
      BY DEF StoreInv, Prepared, Types
    <3>2. Forwardable(g)' <=> Forwardable(g)
      BY DEF Forwardable, IsRoot
    <3>3. \/ prepared'[g] = prepared[g]
          \/ g = h /\ prepared'[g].cp # 0 /\ prepared'[g].cp <= Len(checkpoints')
      BY DEF KeptFor
    <3>4. superseded'[g].epoch <= grant'[g] /\ config'[g] = config[g] /\ grant'[g] = grant[g]
      OBVIOUS
    <3>5. prepared'[g].cp <= Len(checkpoints') /\ (prepared[g].cp # 0 => prepared'[g].cp # 0)
          /\ (prepared'[g].cp # 0 => Forwardable(g))
      BY <2>1, <3>1, <3>3
    <3> QED BY <3>1, <3>2, <3>4, <3>5
  <2> QED BY <2>2, <2>3 DEF Prepared
<1>7. Steady
  <2>1. Flow(out, inbox, grant, superseded, out', inbox', grant', superseded')
    OBVIOUS
  <2>2. \A g \in Hops : prepared[g].cp # 0 => prepared'[g].cp # 0
    BY DEF KeptFor
  <2> QED BY <2>1, <2>2 DEF Steady
<1> QED BY <1>1, <1>3, <1>4, <1>5, <1>6, <1>7 DEF StoreInv

\* The rows of the epoch above that a relay forwards are as known as those it has.
LEMMA SeedsKnown ==
    ASSUME EpochInv, StoreInv, NEW n \in Hops, NEW bodies, bodies = Seeds(n)
    PROVE  bodies \in Seq(Body) /\ AllKnown(bodies, DOMAIN born, Signed)
<1> DEFINE down == {i \in inbox[n]["down"] : out[n]["down"][i].epoch = config[n]}
           up == {i \in DOMAIN out[n]["up"] : out[n]["up"][i].epoch = config[n]}
           In(stream) == {i \in down : out[n]["down"][i].stream = stream}
           a == Bodies(out[n]["down"], In("events"), n)
           b == Bodies(out[n]["down"], In("receipts"), n)
           c == Bodies(out[n]["up"], up, n)
<1>1. bodies = (a \o b) \o c
  BY Zenon DEF Seeds
<1>2. /\ out[n]["up"] \in Seq(Row) /\ AllKnown(out[n]["up"], DOMAIN born, Signed)
      /\ out[n]["down"] \in Seq(Row) /\ AllKnown(out[n]["down"], DOMAIN born, Signed)
      /\ inbox[n]["down"] \subseteq DOMAIN out[n]["down"] /\ n \in Nodes
  BY Bases, FlowsAt
<1>3. In("events") \in SUBSET DOMAIN out[n]["down"] /\ In("receipts") \in SUBSET DOMAIN out[n]["down"]
      /\ up \in SUBSET DOMAIN out[n]["up"]
  BY <1>2
<1> HIDE DEF In, down, up
<1>4. a \in Seq(Body) /\ AllKnown(a, DOMAIN born, Signed)
  BY <1>2, <1>3, BodiesIs
<1>5. b \in Seq(Body) /\ AllKnown(b, DOMAIN born, Signed)
  BY <1>2, <1>3, BodiesIs
<1>6. c \in Seq(Body) /\ AllKnown(c, DOMAIN born, Signed)
  BY <1>2, <1>3, BodiesIs
<1> HIDE DEF a, b, c
<1>7. a \o b \in Seq(Body) /\ AllKnown(a \o b, DOMAIN born, Signed)
  BY <1>4, <1>5, ConcatKnown
<1>8. PICK e : e = a \o b
  OBVIOUS
<1>9. e \in Seq(Body) /\ AllKnown(e, DOMAIN born, Signed)
  BY <1>7, <1>8
<1>10. bodies = e \o c
  BY <1>1, <1>8
<1>11. e \o c \in Seq(Body) /\ AllKnown(e \o c, DOMAIN born, Signed)
  BY <1>6, <1>9, ConcatKnown
<1> QED BY <1>10, <1>11, Zenon

\* Preparing a checkpoint keeps the stores.
LEMMA CheckpointKeeps ==
    ASSUME EpochInv, StoreInv, NEW h \in Hops, NEW says, Forwardable(h), Create(h, says)
    PROVE  StoreInv' /\ Steady /\ prepared'[h].cp # 0 /\ UNCHANGED config
<1>1. UNCHANGED <<born, log, receipts, issued, purged, inbox, grant, config, installed>>
  BY DEF Create
<1>2. /\ "down" \in Dirs /\ grant[h] \in Nat /\ config[h] \in Nat /\ out \in [Hops -> [Dirs -> Seq(Row)]]
      /\ superseded \in [Hops -> Record] /\ \A g \in Hops : superseded[g].epoch <= grant[g]
      /\ Flows(out, inbox, grant, config, superseded, DOMAIN born, Signed)
  BY Bases
<1>3. /\ checkpoints \in Seq(Checkpoint) /\ Len(checkpoints) \in Nat
      /\ SignedNow(checkpoints) /\ KeptFor(h, prepared, checkpoints)
      /\ prepared \in [Hops -> [cp : Nat, epoch : Nat]]
  BY DEF StoreInv, Types, SignedNow, KeptFor
<1>4. CASE ~Rebuild(h, says)
  <2>1. UNCHANGED <<checkpoints, prepared, superseded, out>> /\ prepared[h].cp # 0
    BY <1>4 DEF Create, Keep, Rebuild
  <2>2. Flow(out, inbox, grant, superseded, out', inbox, grant, superseded')
    BY <1>2, <2>1, FlowReflexive
  <2>3. /\ checkpoints' \in Seq(Checkpoint) /\ Len(checkpoints) <= Len(checkpoints')
        /\ SignedNow(checkpoints') /\ KeptFor(h, prepared', checkpoints')
        /\ prepared' \in [Hops -> [cp : Nat, epoch : Nat]]
        /\ superseded' \in [Hops -> Record] /\ \A g \in Hops : superseded'[g].epoch <= grant[g]
        /\ Flows(out', inbox, grant, config, superseded', DOMAIN born, Signed)
    BY <1>2, <1>3, <2>1
  <2>4. StoreInv' /\ Steady
    BY <1>1, <2>2, <2>3, RenewKeeps
  <2> QED BY <1>1, <2>1, <2>4
<1>5. CASE Rebuild(h, says) /\ IsRoot(h)
  <2>1. /\ checkpoints' = Append(checkpoints, Snapshot)
        /\ prepared' = [prepared EXCEPT ![h] = [cp |-> Len(checkpoints) + 1, epoch |-> grant[h] + 1]]
        /\ superseded' = [superseded EXCEPT ![h] =
               [epoch |-> grant[h], next |-> grant[h] + 1, through |-> Len(out[h]["down"])]]
        /\ UNCHANGED out
    BY <1>5 DEF Create, Capture
  <2>2. Snapshot \in Checkpoint
    <3>1. Cardinality(purged) \in Nat
      <4>1. born \in Seq(Nodes) /\ purged \in SUBSET DOMAIN born
        BY DEF StoreInv, Types
      <4> QED BY <4>1, RowIds
    <3>2. log[Root] \in SUBSET Nat /\ Len(issued) \in Nat
      BY TreeAssumption DEF StoreInv, Types
    <3> QED BY <3>1, <3>2 DEF Snapshot, Checkpoint
  <2>3. /\ checkpoints' \in Seq(Checkpoint) /\ Len(checkpoints') = Len(checkpoints) + 1
        /\ SignedNow(checkpoints')
    <3> HIDE DEF Snapshot
    <3> QED BY <1>3, <2>1, <2>2 DEF SignedNow
  <2>4. out[h]["down"] \in Seq(Row) /\ Len(out[h]["down"]) \in Nat
    BY <1>2
  <2>5. superseded' \in [Hops -> Record] /\ \A g \in Hops : superseded'[g].epoch <= grant[g]
    BY <1>2, <2>1, <2>4 DEF Record
  <2>6. StandsIn(out, grant, superseded, superseded')
    <3>1. \A i \in InEpoch(out[h]["down"], grant[h]) : i <= Len(out[h]["down"])
      BY <2>4 DEF InEpoch
    <3>2. /\ superseded'[h].epoch = grant[h] /\ superseded'[h].through = Len(out[h]["down"])
          /\ \A g \in Hops : g # h => superseded'[g] = superseded[g]
      BY <1>2, <2>1
    <3> QED BY <3>1, <3>2 DEF StandsIn
  <2>7. /\ Flows(out', inbox, grant, config, superseded', DOMAIN born, Signed)
        /\ Flow(out, inbox, grant, superseded, out', inbox, grant, superseded')
    <3>1. /\ grant \in [Hops -> Nat] /\ config \in [Hops -> Nat]
          /\ \A g \in Hops : superseded[g].epoch \in Nat /\ superseded[g].epoch <= grant[g]
      BY Bases
    <3>2. /\ Flows(out, inbox, grant, config, superseded', DOMAIN born, Signed)
          /\ Flow(out, inbox, grant, superseded, out, inbox, grant, superseded')
      BY <1>2, <2>6, <3>1, SupersedeFlows
    <3> QED BY <2>1, <3>2
  <2>8. /\ prepared' \in [Hops -> [cp : Nat, epoch : Nat]]
        /\ prepared'[h].cp = Len(checkpoints')
        /\ \A g \in Hops : g # h => prepared'[g] = prepared[g]
    BY <1>2, <1>3, <2>1, <2>3
  <2>9. Len(checkpoints) <= Len(checkpoints') /\ Len(checkpoints') # 0 /\ prepared'[h].cp # 0
        /\ Len(checkpoints') <= Len(checkpoints')
    BY <1>3, <2>3, <2>8
  <2>10. KeptFor(h, prepared', checkpoints')
    BY <2>8, <2>9 DEF KeptFor
  <2>11. StoreInv' /\ Steady
    BY <1>1, <2>3, <2>5, <2>7, <2>8, <2>9, <2>10, RenewKeeps
  <2> QED BY <1>1, <2>9, <2>11
<1>6. CASE Rebuild(h, says) /\ ~IsRoot(h)
  <2> DEFINE n == Parent[h]
             rows == out[h]["down"]
             bodies == Seeds(n)
             r == Enqueue(rows, h, grant[h] + 1, bodies)
  <2>1. /\ prepared' = [prepared EXCEPT ![h] = [cp |-> installed[n], epoch |-> grant[h] + 1]]
        /\ out' = [out EXCEPT ![h].down = r]
        /\ UNCHANGED <<checkpoints, superseded>>
    BY <1>6 DEF Create, Forward
  <2>2. /\ n \in Hops /\ n \in Nodes /\ installed[n] # 0
        /\ installed[n] \in Nat /\ installed[n] <= Len(checkpoints)
    BY <1>6, TreeAssumption DEF IsRoot, Forwardable, Hops, StoreInv, Types, Prepared
  <2>3. bodies = Seeds(n) /\ r = Enqueue(rows, h, grant[h] + 1, bodies)
    OBVIOUS
  <2>4. /\ LinkOK("down", rows, inbox[h]["down"], grant[h], config[h], superseded[h])
        /\ AllKnown(rows, DOMAIN born, Signed) /\ rows \in Seq(Row)
    BY <1>2, FlowsAt
  <2> HIDE DEF bodies, r
  <2>5. bodies \in Seq(Body) /\ AllKnown(bodies, DOMAIN born, Signed)
    BY <2>2, <2>3, SeedsKnown
  <2>6. grant[h] + 1 \in Nat /\ grant[h] + 1 <= (IF "down" = "up" THEN config[h] ELSE grant[h] + 1)
    BY <1>2
  <2>7. /\ LinkOK("down", r, inbox[h]["down"], grant[h], config[h], superseded[h])
        /\ Later("down", rows, inbox[h]["down"], grant[h], superseded[h],
                 r, inbox[h]["down"], grant[h], superseded[h])
    <3> HIDE DEF rows
    <3> QED BY <1>2, <2>3, <2>4, <2>5, <2>6, EnqueueLink
  <2>8. AllKnown(r, DOMAIN born, Signed) /\ r \in Seq(Row)
    <3> HIDE DEF rows
    <3>1. AllKnown(r, DOMAIN born, Signed)
      BY <2>3, <2>4, <2>5, <2>6, EnqueueKnown
    <3> QED BY <2>7, <3>1 DEF LinkOK, RowsOK
  <2>9. Puts(out, h, "down", r, out')
    BY <1>2, <2>1, <2>8, PutDown
  <2>10. /\ Flows(out', inbox, grant, config, superseded, DOMAIN born, Signed)
         /\ Flow(out, inbox, grant, superseded, out', inbox, grant, superseded)
    BY <1>2, <2>7, <2>8, <2>9, OneFlows
  <2>11. /\ prepared' \in [Hops -> [cp : Nat, epoch : Nat]]
         /\ prepared'[h].cp = installed[n]
         /\ \A g \in Hops : g # h => prepared'[g] = prepared[g]
    BY <1>2, <1>3, <2>1, <2>2
  <2>12. /\ KeptFor(h, prepared', checkpoints') /\ SignedNow(checkpoints')
         /\ checkpoints' \in Seq(Checkpoint) /\ Len(checkpoints) <= Len(checkpoints')
         /\ checkpoints' = checkpoints /\ superseded' = superseded
    BY <1>3, <2>1, <2>2, <2>11 DEF KeptFor
  <2>13. StoreInv' /\ Steady
    <3>1. /\ superseded' \in [Hops -> Record] /\ \A g \in Hops : superseded'[g].epoch <= grant[g]
          /\ Flows(out', inbox, grant, config, superseded', DOMAIN born, Signed)
          /\ Flow(out, inbox, grant, superseded, out', inbox, grant, superseded')
      BY <1>2, <2>10, <2>12
    <3> QED BY <1>1, <2>11, <2>12, <3>1, RenewKeeps
  <2> QED BY <1>1, <2>2, <2>11, <2>13
<1> QED BY <1>4, <1>5, <1>6

---------------------------------------------------------------------------
(* A checkpoint is installed                                               *)

\* What a daemon keeps beside a checkpoint are events the root signed.
LEMMA KeptIs ==
    ASSUME StoreInv, NEW n \in Nodes, NEW cp \in DOMAIN checkpoints, NEW kept, kept = Kept(n, cp)
    PROVE  /\ kept \in Seq(Nat) /\ Elements(kept) \subseteq Signed
           /\ \A k \in DOMAIN issued :
                 k > checkpoints[cp].high /\ issued[k] \in log[n] \cap receipts[n] => issued[k] \in Elements(kept)
<1> DEFINE later == {k \in DOMAIN issued : k > checkpoints[cp].high /\ issued[k] \in log[n] \cap receipts[n]}
<1>1. kept = [k \in 1..Cardinality(later) |-> issued[Nth(later, k)]]
  BY DEF Kept
<1>2. later \in SUBSET DOMAIN issued /\ issued \in Seq(Nat)
  BY DEF StoreInv, Types
<1>3. \A k \in DOMAIN issued :
         k > checkpoints[cp].high /\ issued[k] \in log[n] \cap receipts[n] => k \in later
  OBVIOUS
<1> HIDE DEF later
<1>4. kept \in Seq(Nat) /\ Elements(kept) = {issued[k] : k \in later}
  BY <1>1, <1>2, PickedIs
<1> QED BY <1>2, <1>3, <1>4 DEF Signed, Elements

\* A row of a hop below the daemon: what was seeded goes, what it keeps comes.
LEMMA ReseedLink ==
    ASSUME NEW rows, NEW ib, NEW g \in Nat, NEW c \in Nat, NEW sup, NEW sup2, NEW E, NEW R,
           LinkOK("down", rows, ib, g, c, sup), AllKnown(rows, E, R),
           sup.epoch \in Nat, sup.epoch <= g,
           sup2.epoch = g, \A i \in InEpoch(rows, g) : i <= sup2.through,
           NEW receiver, NEW bodies \in Seq(Body), AllKnown(bodies, E, R),
           NEW r, r = Enqueue(Unseed(rows, g + 1), receiver, g + 1, bodies)
    PROVE  /\ LinkOK("down", r, ib, g, c, sup2) /\ AllKnown(r, E, R)
           /\ Later("down", rows, ib, g, sup, r, ib, g, sup2)
<1>1. "down" \in Dirs /\ rows \in Seq(Row)
  BY DEF Dirs, LinkOK, RowsOK
<1>2. LinkOK("down", rows, ib, g, c, sup2) /\ Later("down", rows, ib, g, sup, rows, ib, g, sup2)
  BY <1>1, SupersedeLink
<1>3. PICK u : u = Unseed(rows, g + 1)
  OBVIOUS
<1>4. LinkOK("down", u, ib, g, c, sup2) /\ Later("down", rows, ib, g, sup2, u, ib, g, sup2)
  BY <1>2, <1>3, UnseedLink
<1>5. DOMAIN u = DOMAIN rows
  BY <1>3 DEF Unseed
<1>6. AllKnown(u, E, R) /\ u \in Seq(Row)
  <2>1. AllKnown(u, E, R)
    BY <1>4, <1>5, StatesKnown
  <2> QED BY <1>4, <2>1 DEF LinkOK, RowsOK
<1>7. r = Enqueue(u, receiver, g + 1, bodies)
  BY <1>3
<1>8. g + 1 \in Nat /\ g + 1 <= (IF "down" = "up" THEN c ELSE g + 1)
  OBVIOUS
<1>9. PICK ep \in Nat : ep = g + 1
  BY <1>8
<1>10. r = Enqueue(u, receiver, ep, bodies) /\ ep <= (IF "down" = "up" THEN c ELSE g + 1)
  BY <1>7, <1>8, <1>9
<1>11. LinkOK("down", r, ib, g, c, sup2) /\ Later("down", u, ib, g, sup2, r, ib, g, sup2)
  BY <1>1, <1>4, <1>10, EnqueueLink
<1>12. AllKnown(r, E, R)
  BY <1>6, <1>10, EnqueueKnown
<1>13. Later("down", rows, ib, g, sup, u, ib, g, sup2)
  BY <1>1, <1>2, <1>4, <1>6, LaterTransitive
<1>14. Later("down", rows, ib, g, sup, r, ib, g, sup2)
  BY <1>1, <1>6, <1>11, <1>13, LaterTransitive
<1> QED BY <1>11, <1>12, <1>14

\* Installing a checkpoint keeps the stores: what the daemon keeps beside it is its own.
LEMMA InstallStores ==
    ASSUME EpochInv, StoreInv, NEW n \in Hops, NEW cp \in DOMAIN checkpoints, NEW ep \in Nat,
           prepared[n].cp # 0, Install(n, cp, ep)
    PROVE  StoreInv' /\ Steady
<1> DEFINE kept == Kept(n, cp)
           bodies == Replayed(n, kept) \o Receipted(n, kept)
<1>1. /\ kept = Kept(n, cp) /\ Installable(n, cp, ep)
      /\ log' = [log EXCEPT ![n] = checkpoints[cp].events \cup Elements(kept)]
      /\ receipts' = [receipts EXCEPT ![n] = {issued[k] : k \in 1..checkpoints[cp].high} \cup Elements(kept)]
      /\ config' = [config EXCEPT ![n] = ep]
      /\ installed' = [installed EXCEPT ![n] = cp]
      /\ prepared' = [h \in Hops |-> IF Parent[h] = n THEN [cp |-> cp, epoch |-> grant[h] + 1]
                                     ELSE prepared[h]]
      /\ superseded' = [h \in Hops |->
             IF Parent[h] = n
             THEN [epoch |-> grant[h], next |-> grant[h] + 1, through |-> Top(InEpoch(out[h]["down"], grant[h]))]
             ELSE superseded[h]]
      /\ UNCHANGED <<born, rootVars, inbox, grant>>
  BY DEF Install
<1>2. out' = [h \in Hops |->
             IF Parent[h] = n
             THEN [out[h] EXCEPT !.down = Enqueue(Unseed(@, grant[h] + 1), h, grant[h] + 1, bodies)]
             ELSE out[h]]
  BY DEF Install
<1>3. bodies = Replayed(n, kept) \o Receipted(n, kept)
  OBVIOUS
<1> HIDE DEF kept, bodies
<1>4. /\ kept \in Seq(Nat) /\ Elements(kept) \subseteq Signed
      /\ \A k \in DOMAIN issued :
            k > checkpoints[cp].high /\ issued[k] \in log[n] \cap receipts[n] => issued[k] \in Elements(kept)
  BY <1>1, KeptIs DEF Hops
<1>5. /\ issued \in Seq(Nat) /\ log \in [Nodes -> SUBSET Nat] /\ receipts \in [Nodes -> SUBSET Nat]
      /\ born \in Seq(Nodes) /\ checkpoints \in Seq(Checkpoint) /\ installed \in [Nodes -> Nat]
      /\ prepared \in [Hops -> [cp : Nat, epoch : Nat]]
      /\ Signed \subseteq DOMAIN born /\ n \in Nodes /\ n # Root /\ Parent[n] # n
      /\ \A h \in Hops : Parent[h] \in Nodes
  BY TreeAssumption DEF StoreInv, Types, Rooted, Hops
<1>6. /\ checkpoints[cp].events \in SUBSET Nat /\ checkpoints[cp].high \in Nat
      /\ checkpoints[cp].high <= Len(issued) /\ cp \in Nat /\ cp # 0 /\ cp <= Len(checkpoints)
      /\ \A k \in 1..checkpoints[cp].high : issued[k] \in checkpoints[cp].events \cup purged
  <2>1. checkpoints[cp] \in Checkpoint /\ cp \in 1..Len(checkpoints)
    BY <1>5
  <2>2. checkpoints[cp].high <= Len(issued)
        /\ \A k \in 1..checkpoints[cp].high : issued[k] \in checkpoints[cp].events \cup purged
    BY DEF StoreInv, Rooted
  <2> QED BY <2>1, <2>2 DEF Checkpoint
<1>7. UNCHANGED <<issued, purged, checkpoints>> /\ Signed' = Signed
  BY <1>1 DEF rootVars, Signed
<1>8. \A k \in 1..checkpoints[cp].high : k \in DOMAIN issued /\ issued[k] \in Nat /\ issued[k] \in Signed
  <2>1. Len(issued) \in Nat /\ DOMAIN issued = 1..Len(issued)
    BY <1>5
  <2>2. \A k \in 1..checkpoints[cp].high : k \in 1..Len(issued)
    BY <1>6, <2>1
  <2> QED BY <1>5, <2>1, <2>2 DEF Signed, Elements
<1>9. \A x \in Signed : x \in Nat
  BY <1>5 DEF Signed, Elements
<1>10. bodies \in Seq(Body) /\ AllKnown(bodies, DOMAIN born, Signed)
  <2>1. Elements(kept) \subseteq DOMAIN born \cap Signed /\ Elements(kept) \subseteq DOMAIN born
    BY <1>4, <1>5
  <2>2. Replayed(n, kept) \in Seq(Body) /\ AllKnown(Replayed(n, kept), DOMAIN born, Signed)
    BY <1>4, <1>5, <2>1, ReplayedIs
  <2>3. Receipted(n, kept) \in Seq(Body) /\ AllKnown(Receipted(n, kept), DOMAIN born, Signed)
    BY <1>4, <1>5, <2>1, ProofsIs, TreeAssumption
  <2> QED BY <1>3, <2>2, <2>3, ConcatKnown
<1>11. /\ out \in [Hops -> [Dirs -> Seq(Row)]] /\ inbox \in [Hops -> [Dirs -> SUBSET Nat]]
       /\ grant \in [Hops -> Nat] /\ config \in [Hops -> Nat] /\ superseded \in [Hops -> Record]
       /\ \A h \in Hops : superseded[h].epoch \in Nat /\ superseded[h].epoch <= grant[h]
       /\ Flows(out, inbox, grant, config, superseded, DOMAIN born, Signed)
       /\ "down" \in Dirs /\ "up" \in Dirs
  BY Bases
<1>12. config' \in [Hops -> Nat] /\ \A h \in Hops : config[h] <= config'[h] /\ (h # n => config'[h] = config[h])
  <2>1. ep > config[n] /\ config[n] \in Nat
    BY <1>1, <1>11 DEF Installable
  <2> QED BY <1>1, <1>11, <2>1
<1>13. ASSUME NEW h \in Hops
       PROVE  /\ Parent[h] = n =>
                    /\ superseded'[h] \in Record /\ superseded'[h].epoch = grant[h]
                    /\ \A i \in InEpoch(out[h]["down"], grant[h]) : i <= superseded'[h].through
              /\ Parent[h] # n => superseded'[h] = superseded[h]
  <2>1. InEpoch(out[h]["down"], grant[h]) \in SUBSET DOMAIN out[h]["down"] /\ out[h]["down"] \in Seq(Row)
    BY <1>11 DEF InEpoch
  <2>2. InEpoch(out[h]["down"], grant[h]) \in SUBSET Nat /\ IsFiniteSet(InEpoch(out[h]["down"], grant[h]))
    BY <2>1, RowIds
  <2>3. /\ Top(InEpoch(out[h]["down"], grant[h])) \in Nat
        /\ \A i \in InEpoch(out[h]["down"], grant[h]) : i <= Top(InEpoch(out[h]["down"], grant[h]))
    BY <2>2, TopIs
  <2>4. grant[h] \in Nat /\ grant[h] + 1 \in Nat
    BY <1>11
  <2>5. CASE Parent[h] = n
    <3>1. superseded'[h] = [epoch |-> grant[h], next |-> grant[h] + 1,
                            through |-> Top(InEpoch(out[h]["down"], grant[h]))]
      BY <1>1, <2>5
    <3> HIDE DEF InEpoch
    <3> QED BY <2>3, <2>4, <2>5, <3>1 DEF Record
  <2>6. CASE Parent[h] # n
    BY <1>1, <2>6
  <2> QED BY <2>5, <2>6
<1>14. superseded' \in [Hops -> Record] /\ \A h \in Hops : superseded'[h].epoch <= grant[h]
  <2>1. \A h \in Hops : superseded'[h] \in Record
    BY <1>11, <1>13
  <2>2. superseded' = [h \in Hops |-> superseded'[h]]
    BY <1>1
  <2>3. ASSUME NEW h \in Hops PROVE superseded'[h].epoch <= grant[h]
    <3>1. superseded'[h].epoch = grant[h] \/ superseded'[h] = superseded[h]
      BY <1>13
    <3>2. superseded[h].epoch <= grant[h] /\ grant[h] \in Nat
      BY <1>11
    <3> QED BY <3>1, <3>2
  <2> QED BY <2>1, <2>2, <2>3
<1>15. ASSUME NEW h \in Hops
       PROVE  /\ out'[h]["up"] = out[h]["up"]
              /\ Parent[h] # n => out'[h]["down"] = out[h]["down"]
              /\ Parent[h] = n =>
                    out'[h]["down"] = Enqueue(Unseed(out[h]["down"], grant[h] + 1), h, grant[h] + 1, bodies)
              /\ DOMAIN out'[h] = Dirs
  <2>1. out[h] \in [Dirs -> Seq(Row)]
    BY <1>11
  <2> QED BY <1>2, <2>1 DEF Dirs
<1>16. ASSUME NEW h \in Hops, NEW d \in Dirs
       PROVE  /\ LinkOK(d, out'[h][d], inbox[h][d], grant[h], config'[h], superseded'[h])
              /\ AllKnown(out'[h][d], DOMAIN born, Signed)
              /\ Later(d, out[h][d], inbox[h][d], grant[h], superseded[h],
                       out'[h][d], inbox[h][d], grant[h], superseded'[h])
  <2>1. /\ LinkOK(d, out[h][d], inbox[h][d], grant[h], config[h], superseded[h])
        /\ AllKnown(out[h][d], DOMAIN born, Signed) /\ out[h][d] \in Seq(Row)
    BY <1>11, FlowsAt
  <2>2. grant[h] \in Nat /\ config[h] \in Nat /\ config'[h] \in Nat /\ config[h] <= config'[h]
    BY <1>11, <1>12
  <2>3. LinkOK(d, out[h][d], inbox[h][d], grant[h], config'[h], superseded[h])
    BY <2>1, <2>2, ConfigLink
  <2>4. CASE d = "up"
    <3>1. out'[h][d] = out[h][d]
      BY <1>15, <2>4
    <3> QED BY <2>1, <2>3, <2>4, <3>1, UpLink
  <2>5. CASE d = "down" /\ Parent[h] # n
    <3>1. out'[h][d] = out[h][d] /\ superseded'[h] = superseded[h]
      BY <1>13, <1>15, <2>5
    <3> QED BY <2>1, <2>3, <3>1, LaterReflexive
  <2>6. CASE d = "down" /\ Parent[h] = n
    <3>1. out'[h][d] = Enqueue(Unseed(out[h][d], grant[h] + 1), h, grant[h] + 1, bodies)
      BY <1>15, <2>6
    <3>2. superseded'[h].epoch = grant[h] /\ \A i \in InEpoch(out[h][d], grant[h]) : i <= superseded'[h].through
      BY <1>13, <2>6
    <3>3. LinkOK("down", out[h][d], inbox[h][d], grant[h], config'[h], superseded[h])
      BY <2>3, <2>6
    <3>4. superseded[h].epoch \in Nat /\ superseded[h].epoch <= grant[h]
      BY <1>11
    <3>5. /\ LinkOK("down", out'[h][d], inbox[h][d], grant[h], config'[h], superseded'[h])
          /\ AllKnown(out'[h][d], DOMAIN born, Signed)
          /\ Later("down", out[h][d], inbox[h][d], grant[h], superseded[h],
                   out'[h][d], inbox[h][d], grant[h], superseded'[h])
      BY <1>10, <2>1, <2>2, <3>1, <3>2, <3>3, <3>4, ReseedLink
    <3> QED BY <2>6, <3>5
  <2> QED BY <2>4, <2>5, <2>6 DEF Dirs
<1>17. out' \in [Hops -> [Dirs -> Seq(Row)]]
  <2>1. \A h \in Hops : \A d \in Dirs : out'[h][d] \in Seq(Row)
    BY <1>16 DEF LinkOK, RowsOK
  <2>2. \A h \in Hops : out'[h] \in [Dirs -> Seq(Row)]
    <3> SUFFICES ASSUME NEW h \in Hops PROVE out'[h] \in [Dirs -> Seq(Row)]
      OBVIOUS
    <3>1. out'[h] = [d \in Dirs |-> out'[h][d]]
      <4>1. CASE Parent[h] = n
        BY <1>2, <1>11, <4>1
      <4>2. CASE Parent[h] # n
        BY <1>2, <1>11, <4>2
      <4> QED BY <4>1, <4>2
    <3> QED BY <2>1, <3>1
  <2>3. out' = [h \in Hops |-> out'[h]]
    BY <1>2
  <2> QED BY <2>2, <2>3
<1>18. /\ Flows(out', inbox, grant, config', superseded', DOMAIN born, Signed)
       /\ Flow(out, inbox, grant, superseded, out', inbox, grant, superseded')
  BY <1>16, <1>17 DEF Flows, Flow
<1>19. UNCHANGED <<born, issued, purged, checkpoints, inbox, grant>>
  BY <1>1, <1>7
<1>20. Linked'
  BY <1>7, <1>18, <1>19 DEF Linked
<1>21. /\ log' \in [Nodes -> SUBSET Nat] /\ receipts' \in [Nodes -> SUBSET Nat]
       /\ log'[n] = checkpoints[cp].events \cup Elements(kept)
       /\ receipts'[n] = {issued[k] : k \in 1..checkpoints[cp].high} \cup Elements(kept)
       /\ receipts'[n] \subseteq Signed
       /\ \A m \in Nodes : m # n => log'[m] = log[m] /\ receipts'[m] = receipts[m]
  <2>1. Elements(kept) \in SUBSET Nat
    BY <1>4, <1>9
  <2>2. {issued[k] : k \in 1..checkpoints[cp].high} \in SUBSET Nat
        /\ {issued[k] : k \in 1..checkpoints[cp].high} \subseteq Signed
    BY <1>8
  <2> QED BY <1>1, <1>4, <1>5, <1>6, <2>1, <2>2
<1>22. prepared' \in [Hops -> [cp : Nat, epoch : Nat]] /\ installed' \in [Nodes -> Nat]
  <2>1. \A h \in Hops : grant[h] + 1 \in Nat
    BY <1>11
  <2> QED BY <1>1, <1>5, <1>6, <2>1
<1>23. Types'
  BY <1>14, <1>19, <1>21, <1>22 DEF StoreInv, Types
<1>24. Rooted'
  <2>1. Root \in Nodes /\ log'[Root] = log[Root]
    BY <1>5, <1>21, TreeAssumption
  <2>2. \A m \in Nodes : receipts'[m] \subseteq Signed
    BY <1>21 DEF StoreInv, Rooted
  <2> QED BY <1>7, <1>19, <2>1, <2>2 DEF StoreInv, Rooted
<1>25. Owned'
  <2> SUFFICES ASSUME NEW e \in DOMAIN born \ purged
               PROVE  /\ e \in log'[born[e]]
                      /\ born[e] # Root => e \in receipts'[born[e]] \/ OwnRow(born[e], e)'
    BY <1>19 DEF Owned
  <2>1. /\ e \in log[born[e]] /\ born[e] \in Nodes
        /\ born[e] # Root => e \in receipts[born[e]] \/ OwnRow(born[e], e)
    BY <1>5 DEF StoreInv, Owned
  <2>2. CASE born[e] # n
    <3>1. \A m \in Hops : m # n => out'[m]["up"] = out[m]["up"] /\ config'[m] = config[m]
      BY <1>12, <1>15
    <3>2. born[e] # Root => born[e] \in Hops
      BY <2>1 DEF Hops
    <3>3. born[e] # Root /\ OwnRow(born[e], e) => OwnRow(born[e], e)'
      BY <1>19, <2>2, <3>1, <3>2 DEF OwnRow
    <3>4. log'[born[e]] = log[born[e]] /\ receipts'[born[e]] = receipts[born[e]]
      BY <1>21, <2>1, <2>2
    <3>5. CASE born[e] = Root
      BY <2>1, <3>4, <3>5
    <3>6. CASE e \in receipts[born[e]]
      BY <2>1, <3>4, <3>6
    <3>7. CASE born[e] # Root /\ OwnRow(born[e], e)
      BY <2>1, <3>3, <3>4, <3>7
    <3> QED BY <2>1, <3>5, <3>6, <3>7
  <2>3. CASE born[e] = n
    <3>1. CASE e \in receipts[n]
      <4>1. PICK k \in DOMAIN issued : e = issued[k]
        BY <1>5, <3>1 DEF StoreInv, Rooted, Signed, Elements
      <4>2. CASE k > checkpoints[cp].high
        <5>1. e \in log[n] \cap receipts[n]
          BY <2>1, <2>3, <3>1
        <5>2. e \in Elements(kept)
          BY <1>4, <4>1, <4>2, <5>1
        <5> QED BY <1>21, <2>3, <5>2
      <4>3. CASE ~(k > checkpoints[cp].high)
        <5>0. k \in Nat /\ k >= 1 /\ checkpoints[cp].high \in Nat
          <6>1. DOMAIN issued = 1..Len(issued)
            BY <1>5
          <6> QED BY <1>6, <6>1
        <5>1. k \in 1..checkpoints[cp].high
          BY <4>3, <5>0
        <5>2. issued[k] \in checkpoints[cp].events \cup purged
          BY <1>6, <5>1
        <5> QED BY <1>21, <2>3, <4>1, <5>1, <5>2
      <4> QED BY <4>2, <4>3
    <3>2. CASE e \in Attested(n, cp)
      BY <1>1, <1>21, <2>3, <3>2 DEF Attested
    <3>3. CASE OwnRow(n, e)
      <4>1. e \in receipts[n] \cup Attested(n, cp)
        BY <1>1, <2>3, <3>3 DEF OwnRow, Installable
      <4> QED BY <3>1, <3>2, <4>1
    <3> QED BY <1>5, <2>1, <2>3, <3>1, <3>2, <3>3
  <2> QED BY <2>2, <2>3
<1>26. Prepared'
  <2>1. \A m \in Nodes : installed'[m] <= Len(checkpoints)
    BY <1>1, <1>5, <1>6 DEF StoreInv, Prepared
  <2>2. \A m \in Nodes : installed[m] # 0 => installed'[m] # 0
    BY <1>1, <1>5, <1>6
  <2>3. ASSUME NEW h \in Hops
        PROVE  /\ prepared'[h].cp <= Len(checkpoints)
               /\ prepared'[h].cp # 0 => Forwardable(h)'
               /\ config'[h] # grant[h] => prepared'[h].cp # 0
    <3>1. /\ prepared[h].cp <= Len(checkpoints)
          /\ prepared[h].cp # 0 => IsRoot(h) \/ installed[Parent[h]] # 0
          /\ config[h] # grant[h] => prepared[h].cp # 0
      BY DEF StoreInv, Prepared, Forwardable
    <3>2. CASE Parent[h] = n
      <4>1. prepared'[h].cp = cp /\ installed'[Parent[h]] = cp
        BY <1>1, <1>5, <3>2
      <4> QED BY <1>6, <4>1 DEF Forwardable
    <3>3. CASE Parent[h] # n
      <4>1. prepared'[h] = prepared[h] /\ (h # n => config'[h] = config[h])
        BY <1>1, <1>12, <3>3
      <4>2. installed[Parent[h]] # 0 => installed'[Parent[h]] # 0
        BY <1>5, <2>2
      <4> QED BY <3>1, <4>1, <4>2 DEF Forwardable, IsRoot
    <3> QED BY <3>2, <3>3
  <2> QED BY <1>14, <1>19, <2>1, <2>3 DEF Prepared
<1>27. Steady
  <2>1. Flow(out, inbox, grant, superseded, out', inbox', grant', superseded')
    BY <1>18, <1>19
  <2>2. \A h \in Hops : prepared[h].cp # 0 => prepared'[h].cp # 0
    BY <1>1, <1>6
  <2>3. \A m \in Nodes : installed[m] # 0 => installed'[m] # 0
    BY <1>1, <1>5, <1>6
  <2>4. Len(checkpoints) <= Len(checkpoints')
    BY <1>5, <1>19
  <2> QED BY <2>1, <2>2, <2>3, <2>4 DEF Steady
<1> QED BY <1>20, <1>23, <1>24, <1>25, <1>26, <1>27 DEF StoreInv

---------------------------------------------------------------------------
(* Users write, and the root purges                                        *)

\* A sequence of one event.
LEMMA OneElement ==
    ASSUME NEW e \in Nat
    PROVE  <<e>> \in Seq(Nat) /\ Elements(<<e>>) = {e}
BY DEF Elements

\* What a user's write sends on.
Written(n, e) == <<[stream |-> "events", event |-> e, path |-> {n}]>>

\* What a user's write queues: the event, with the daemon on its path.
LEMMA WrittenIs ==
    ASSUME NEW n \in Nodes, NEW e \in Nat, NEW E, NEW R, e \in E,
           NEW w, w = Written(n, e)
    PROVE  /\ w \in Seq(Body) /\ AllKnown(w, E, R) /\ DOMAIN w = {1}
           /\ w[1] = [stream |-> "events", event |-> e, path |-> {n}]
<1> DEFINE b == [stream |-> "events", event |-> e, path |-> {n}]
<1>1. b \in Body /\ b.event = e /\ b.stream = "events"
  BY DEF Body, Streams
<1>2. w = <<b>>
  BY DEF Written
<1> HIDE DEF b
<1>3. w \in Seq(Body) /\ DOMAIN w = {1} /\ w[1] = b
  BY <1>1, <1>2
<1>4. AllKnown(w, E, R)
  BY <1>1, <1>3 DEF AllKnown, Known
<1> QED BY <1>3, <1>4 DEF b

\* A write keeps the stores.
LEMMA EditStores ==
    ASSUME EpochInv, StoreInv, NEW n \in Nodes, Edit(n)
    PROVE  StoreInv' /\ Steady
<1>0. PICK e : e = Len(born) + 1
  OBVIOUS
<1> DEFINE bodies == IF n = Root THEN Written(n, e) \o Proofs(<<e>>) ELSE Written(n, e)
<1>1. /\ born' = Append(born, n)
      /\ log' = [log EXCEPT ![n] = @ \cup {e}]
      /\ receipts' = IF n = Root THEN [receipts EXCEPT ![n] = @ \cup {e}] ELSE receipts
      /\ issued' = IF n = Root THEN Append(issued, e) ELSE issued
      /\ out' = QueueAt(n, out, grant, bodies)
      /\ UNCHANGED <<purged, inbox, grant, config, superseded, resetVars>>
  BY <1>0 DEF Edit, Written
<1>2. bodies = IF n = Root THEN Written(n, e) \o Proofs(<<e>>) ELSE Written(n, e)
  OBVIOUS
<1>3. /\ born \in Seq(Nodes) /\ issued \in Seq(Nat) /\ purged \subseteq DOMAIN born
      /\ log \in [Nodes -> SUBSET Nat] /\ receipts \in [Nodes -> SUBSET Nat]
      /\ checkpoints \in Seq(Checkpoint)
  BY DEF StoreInv, Types
<1>4. /\ e \in Nat /\ born' \in Seq(Nodes) /\ DOMAIN born' = DOMAIN born \cup {e} /\ born'[e] = n
      /\ e \notin DOMAIN born /\ \A x \in DOMAIN born : born'[x] = born[x]
  BY <1>0, <1>1, <1>3
<1> HIDE DEF bodies
<1>5. UNCHANGED <<purged, inbox, grant, config, superseded, checkpoints, prepared, installed>>
  BY <1>1 DEF resetVars
<1>6. /\ issued' \in Seq(Nat) /\ Extends(issued, issued')
      /\ Signed' = IF n = Root THEN Signed \cup {e} ELSE Signed
  <2>1. CASE n = Root
    <3>1. <<e>> \in Seq(Nat) /\ Elements(<<e>>) = {e}
      BY <1>4, OneElement
    <3>2. issued' = issued \o <<e>>
      BY <1>1, <1>3, <1>4, <2>1
    <3>3. issued' \in Seq(Nat) /\ Elements(issued') = Elements(issued) \cup Elements(<<e>>)
          /\ Extends(issued, issued')
      BY <1>3, <3>1, <3>2, ConcatElements
    <3> QED BY <2>1, <3>1, <3>3 DEF Signed
  <2>2. CASE n # Root
    BY <1>1, <1>3, <2>2 DEF Signed, Extends
  <2> QED BY <2>1, <2>2
<1>7. /\ log' \in [Nodes -> SUBSET Nat] /\ receipts' \in [Nodes -> SUBSET Nat]
      /\ e \in log'[n] /\ \A m \in Nodes : log[m] \subseteq log'[m]
      /\ \A m \in Nodes : receipts[m] \subseteq receipts'[m]
      /\ \A m \in Nodes : receipts'[m] \subseteq receipts[m] \cup (IF n = Root THEN {e} ELSE {})
  BY <1>1, <1>3, <1>4
<1>8. Types'
  <2>1. purged \subseteq DOMAIN born'
    BY <1>3, <1>4
  <2> QED BY <1>4, <1>5, <1>6, <1>7, <2>1 DEF StoreInv, Types
<1>9. /\ Signed \subseteq Signed' /\ Signed' \subseteq DOMAIN born' /\ DOMAIN born \subseteq DOMAIN born'
      /\ Signed' \subseteq log'[Root] \cup purged
      /\ \A m \in Nodes : receipts'[m] \subseteq Signed'
  <2>1. Signed \subseteq DOMAIN born /\ Signed \subseteq log[Root] \cup purged /\ Root \in Nodes
        /\ \A m \in Nodes : receipts[m] \subseteq Signed
    BY TreeAssumption DEF StoreInv, Rooted
  <2>2. CASE n = Root
    BY <1>4, <1>6, <1>7, <2>1, <2>2
  <2>3. CASE n # Root
    BY <1>4, <1>6, <1>7, <2>1, <2>3
  <2> QED BY <2>2, <2>3
<1>10. bodies \in Seq(Body) /\ AllKnown(bodies, DOMAIN born', Signed')
  <2>1. e \in DOMAIN born'
    BY <1>4
  <2>2. Written(n, e) \in Seq(Body) /\ AllKnown(Written(n, e), DOMAIN born', Signed')
    BY <1>4, <2>1, WrittenIs
  <2>3. CASE n = Root
    <3>1. <<e>> \in Seq(Nat) /\ Elements(<<e>>) \subseteq DOMAIN born' \cap Signed'
      BY <1>4, <1>6, <2>1, <2>3, OneElement
    <3>2. Proofs(<<e>>) \in Seq(Body) /\ AllKnown(Proofs(<<e>>), DOMAIN born', Signed')
      BY <3>1, ProofsIs, TreeAssumption
    <3>3. Written(n, e) \o Proofs(<<e>>) \in Seq(Body)
          /\ AllKnown(Written(n, e) \o Proofs(<<e>>), DOMAIN born', Signed')
      BY <2>2, <3>2, ConcatKnown
    <3> QED BY <1>2, <2>3, <3>3
  <2>4. CASE n # Root
    BY <1>2, <2>2, <2>4
  <2> QED BY <2>3, <2>4
<1>11. /\ config \in [Hops -> Nat] /\ grant \in [Hops -> Nat] /\ out \in [Hops -> [Dirs -> Seq(Row)]]
       /\ Flows(out, inbox, grant, config, superseded, DOMAIN born, Signed)
       /\ \A h \in Hops : h \in Nodes /\ Parent[h] \in Nodes /\ Parent[h] # h
       /\ "up" \in Dirs
  BY Bases, TreeAssumption
<1>12. Flows(out, inbox, grant, config, superseded, DOMAIN born', Signed')
  BY <1>9, <1>11, FlowsMore
<1>13. /\ Flows(out', inbox, grant, config, superseded, DOMAIN born', Signed')
       /\ Flow(out, inbox, grant, superseded, out', inbox, grant, superseded)
  BY <1>1, <1>10, <1>11, <1>12, QueueFlows
<1>14. /\ Linked'
       /\ Flow(out, inbox, grant, superseded, out', inbox', grant', superseded')
  BY <1>5, <1>13 DEF Linked
<1>15. Rooted'
  <2>1. ASSUME NEW c \in DOMAIN checkpoints
        PROVE  /\ checkpoints[c].high <= Len(issued')
               /\ \A k \in 1..checkpoints[c].high : issued'[k] \in checkpoints[c].events \cup purged
    <3>1. /\ checkpoints[c].high <= Len(issued) /\ checkpoints[c].high \in Nat
          /\ \A k \in 1..checkpoints[c].high : issued[k] \in checkpoints[c].events \cup purged
      <4>1. checkpoints[c] \in Checkpoint
        BY <1>3
      <4> QED BY <4>1 DEF StoreInv, Rooted, Checkpoint
    <3>2. Len(issued) \in Nat /\ Len(issued') \in Nat /\ Len(issued) <= Len(issued')
          /\ \A k \in 1..Len(issued) : issued'[k] = issued[k]
      BY <1>3, <1>6 DEF Extends
    <3>3. \A k \in 1..checkpoints[c].high : k \in 1..Len(issued)
      BY <3>1, <3>2
    <3> QED BY <3>1, <3>2, <3>3
  <2> QED BY <1>5, <1>9, <2>1 DEF Rooted
<1>16. n # Root => OwnRow(n, e)'
  <2> SUFFICES ASSUME n # Root PROVE OwnRow(n, e)'
    OBVIOUS
  <2>1. n \in Hops /\ bodies = Written(n, e)
    BY <1>2 DEF Hops
  <2>2. out'[n]["up"] = Enqueue(out[n]["up"], Parent[n], config[n], bodies)
    BY <1>1, <1>11, <2>1 DEF QueueAt, Sender, Receiver
  <2>3. PICK r : r = Enqueue(out[n]["up"], Parent[n], config[n], bodies)
    OBVIOUS
  <2>4. out[n]["up"] \in Seq(Row) /\ config[n] \in Nat
    BY <1>11, <2>1
  <2>5. AllThere(r, Parent[n], config[n], bodies)
    BY <1>10, <2>3, <2>4, EnqueueIs
  <2>6. DOMAIN bodies = {1} /\ bodies[1] = [stream |-> "events", event |-> e, path |-> {n}]
    <3>1. e \in DOMAIN born'
      BY <1>4
    <3> QED BY <1>4, <2>1, <3>1, WrittenIs
  <2>7. bodies[1].event = e /\ Parent[n] \notin bodies[1].path
    BY <1>11, <2>1, <2>6
  <2>8. 1 \in DOMAIN bodies /\ \A j \in 1 .. (1 - 1) : ~Same(bodies[j], bodies[1])
    BY <2>6
  <2>9. \E i \in DOMAIN r : Same(r[i], bodies[1]) /\ r[i].epoch = config[n]
    BY <2>5, <2>7, <2>8 DEF AllThere
  <2>10. \E i \in DOMAIN r : r[i].event = e /\ r[i].epoch = config[n]
    BY <2>7, <2>9 DEF Same
  <2>11. \E i \in DOMAIN out'[n]["up"] : out'[n]["up"][i].event = e /\ out'[n]["up"][i].epoch = config'[n]
    BY <1>5, <2>2, <2>3, <2>10
  <2> QED BY <2>11 DEF OwnRow
<1>17. Owned'
  <2> SUFFICES ASSUME NEW x \in DOMAIN born' \ purged
               PROVE  /\ x \in log'[born'[x]]
                      /\ born'[x] # Root => x \in receipts'[born'[x]] \/ OwnRow(born[x], x)'
    BY <1>5 DEF Owned
  <2>1. CASE x = e
    <3>1. born'[x] = n /\ x \in log'[n] /\ (n # Root => OwnRow(n, x)')
      BY <1>4, <1>7, <1>16, <2>1
    <3> QED BY <3>1 DEF OwnRow
  <2>2. CASE x # e
    <3>1. x \in DOMAIN born \ purged /\ born'[x] = born[x] /\ born[x] \in Nodes
      BY <1>3, <1>4, <2>2
    <3>0. PICK m : m = born[x]
      OBVIOUS
    <3>2. x \in log[m] /\ (m # Root => x \in receipts[m] \/ OwnRow(m, x))
      BY <3>0, <3>1 DEF StoreInv, Owned
    <3>3. m # Root => m \in Hops
      BY <3>0, <3>1 DEF Hops
    <3>4. ASSUME m \in Hops, OwnRow(m, x) PROVE OwnRow(m, x)'
      BY <1>5, <1>11, <1>14, <3>4, OwnRowKeeps
    <3>5. m \in Nodes /\ born'[x] = m
      BY <3>0, <3>1
    <3>6. x \in log'[m] /\ (m # Root => x \in receipts'[m] \/ OwnRow(m, x)')
      BY <1>7, <3>2, <3>3, <3>4, <3>5
    <3> QED BY <3>5, <3>6 DEF OwnRow
  <2> QED BY <2>1, <2>2
<1>18. Prepared'
  BY <1>5 DEF StoreInv, Prepared, Forwardable, IsRoot
<1>19. Steady
  <2>1. Len(checkpoints) \in Nat
    BY <1>3
  <2> QED BY <1>5, <1>14, <2>1 DEF Steady
<1> QED BY <1>8, <1>14, <1>15, <1>17, <1>18, <1>19 DEF StoreInv

\* A purge at the root keeps the stores.
LEMMA PurgeStores ==
    ASSUME EpochInv, StoreInv, NEW e \in DOMAIN born, Purge(e)
    PROVE  StoreInv' /\ Steady
<1>1. /\ log' = [log EXCEPT ![Root] = @ \ {e}]
      /\ purged' = purged \cup {e}
      /\ UNCHANGED <<born, receipts, issued, out, inbox, grant, config, superseded,
                     checkpoints, prepared, installed>>
  BY DEF Purge, resetVars
<1>2. /\ log \in [Nodes -> SUBSET Nat] /\ Root \in Nodes /\ out \in [Hops -> [Dirs -> Seq(Row)]]
  BY Bases, TreeAssumption DEF StoreInv, Types
<1>3. /\ log' \in [Nodes -> SUBSET Nat]
      /\ \A n \in Nodes : \A x \in log[n] : x # e => x \in log'[n]
  BY <1>1, <1>2
<1>4. Types'
  BY <1>1, <1>3 DEF StoreInv, Types
<1>5. Signed' = Signed
  BY <1>1 DEF Signed
<1>6. Linked'
  BY <1>1, <1>5 DEF StoreInv, Linked
<1>7. Rooted'
  <2>1. Signed \subseteq log'[Root] \cup purged'
    BY <1>1, <1>2, <1>3 DEF StoreInv, Rooted
  <2> QED BY <1>1, <1>5, <2>1 DEF StoreInv, Rooted
<1>8. Flow(out, inbox, grant, superseded, out', inbox', grant', superseded')
  <2>1. Flow(out, inbox, grant, superseded, out, inbox, grant, superseded)
    BY <1>2, FlowReflexive
  <2> QED BY <1>1, <2>1
<1>9. Owned'
  <2>1. /\ UNCHANGED <<born, config>> /\ purged \subseteq purged'
        /\ \A n \in Nodes : \A x \in DOMAIN born \ purged' : x \in log[n] => x \in log'[n]
        /\ \A n \in Nodes : receipts[n] \subseteq receipts'[n]
    BY <1>1, <1>3
  <2> QED BY <1>2, <1>8, <2>1, OwnedKeeps DEF StoreInv
<1>10. Prepared'
  BY <1>1 DEF StoreInv, Prepared, Forwardable, IsRoot
<1>11. Steady
  <2>1. Len(checkpoints) \in Nat
    BY DEF StoreInv, Types
  <2> QED BY <1>1, <1>8, <2>1 DEF Steady
<1> QED BY <1>4, <1>6, <1>7, <1>9, <1>10, <1>11 DEF StoreInv

---------------------------------------------------------------------------
(* Turns and late calls                                                    *)

\* What a turn has in hand still fits the stores, and it resets only where a checkpoint
\* can be prepared.
Holds(h, t) ==
    /\ t \in Turn
    /\ t.pc = "send" =>
          BatchOK("up", out[h]["up"], inbox[h]["up"], grant[h], superseded[h], "events", config[h], t.batch)
    /\ t.pc = "answered" => EndpointOK(inbox[h]["up"], t.batch)
    /\ t.pc = "store" =>
          BatchOK("down", out[h]["down"], inbox[h]["down"], grant[h], superseded[h], t.stream, config[h], t.batch)
    /\ t.pc = "ack" => EndpointOK(inbox[h]["down"], t.batch)
    /\ t.pc = "install" => t.cp \in DOMAIN checkpoints /\ prepared[h].cp # 0
    /\ t.pc = "reset" => Forwardable(h)
    /\ t.pc \notin {"idle", "install"} /\ t.drain => Forwardable(h)

CallHolds(h, c) ==
    /\ c \in Call
    /\ c.kind = "accept" =>
          BatchOK("up", out[h]["up"], inbox[h]["up"], grant[h], superseded[h], "events", c.epoch, c.batch)
    /\ c.kind = "ack" => EndpointOK(inbox[h]["down"], c.batch)
    /\ c.kind = "create" => Forwardable(h)

TurnInv ==
    /\ turn \in [Hops -> Turn] /\ late \in [Hops -> SUBSET Call] /\ faults \in Nat
    /\ \A h \in Hops : Holds(h, turn[h]) /\ \A c \in late[h] : CallHolds(h, c)

\* Turns that have nothing in hand.
Free(h, t) ==
    /\ t \in Turn
    /\ \/ t.pc = "idle"
       \/ t.pc \in {"push", "pull"} /\ (t.drain => Forwardable(h))
       \/ t.pc = "reset" /\ Forwardable(h)

\* A turn with nothing in hand fits any stores.
LEMMA FreeHolds == ASSUME NEW h, NEW t, Free(h, t) PROVE Holds(h, t)
BY DEF Free, Holds

\* Between its calls a turn keeps whether it drains.
LEMMA TurnTypes ==
    ASSUME NEW t \in Turn
    PROVE  /\ Resting \in Turn /\ Resting.pc = "idle" /\ ~Resting.drain
           /\ Pushed(t) \in Turn /\ Pushed(t).pc = "pull" /\ Pushed(t).drain = t.drain
           /\ More(t) \in Turn /\ More(t).drain = t.drain
           /\ Left(t) \in Turn /\ Left(t).drain = t.drain
           /\ Pulled(t) \in Turn
           /\ \/ Pulled(t).pc = "idle"
              \/ Pulled(t).pc = "pull" /\ Pulled(t).drain = t.drain
              \/ Pulled(t).pc = "reset" /\ t.drain
<1>1. Resting \in Turn /\ Resting.pc = "idle" /\ ~Resting.drain
  BY DEF Resting, Turn, Streams
<1>2. Pushed(t) \in Turn /\ Pushed(t).pc = "pull" /\ Pushed(t).drain = t.drain
  BY DEF Pushed, Turn, Streams
<1>3. More(t) \in Turn /\ More(t).drain = t.drain
  <2> DEFINE s == [t EXCEPT !.batch = {}, !.batches = t.batches + 1]
  <2>1. More(t) = s
    BY DEF More
  <2>2. t.batches + 1 \in Nat
    BY DEF Turn
  <2>3. s \in Turn
    BY <2>2 DEF Turn
  <2>4. s.drain = t.drain
    BY DEF Turn
  <2> HIDE DEF s
  <2> QED BY <2>1, <2>3, <2>4
<1>4. Left(t) \in Turn /\ Left(t).drain = t.drain
  <2>1. Left(t) \in Turn
    BY DEF Left, Turn
  <2>2. Left(t).drain = t.drain
    BY DEF Left, Turn
  <2> QED BY <2>1, <2>2
<1>5. CASE t.stream = "events"
  <2> DEFINE s == [t EXCEPT !.pc = "pull", !.stream = "receipts", !.batch = {}, !.batches = 1]
  <2>1. Pulled(t) = s
    BY <1>5 DEF Pulled
  <2>2. s \in Turn
    BY DEF Turn, Streams
  <2>3. s.pc = "pull" /\ s.drain = t.drain
    BY DEF Turn
  <2> HIDE DEF s
  <2> QED BY <1>1, <1>2, <1>3, <1>4, <2>1, <2>2, <2>3
<1>6. CASE t.stream # "events" /\ t.drain /\ ~t.left
  <2>1. Pulled(t) = [t EXCEPT !.pc = "reset", !.batch = {}]
    BY <1>6 DEF Pulled
  <2>2. Pulled(t) \in Turn /\ Pulled(t).pc = "reset" /\ t.drain
    BY <1>6, <2>1 DEF Turn
  <2> QED BY <1>1, <1>2, <1>3, <1>4, <2>2
<1>7. CASE t.stream # "events" /\ ~(t.drain /\ ~t.left)
  <2>1. Pulled(t) = Resting
    BY <1>7 DEF Pulled
  <2> QED BY <1>1, <1>2, <1>3, <1>4, <2>1
<1> QED BY <1>5, <1>6, <1>7

\* Where a checkpoint can be prepared, it can be after any step of the stores.
LEMMA ForwardableOn ==
    ASSUME Steady, NEW h \in Hops, Forwardable(h)
    PROVE  Forwardable(h)'
<1>1. Parent[h] \in Nodes
  BY TreeAssumption
<1> QED BY <1>1 DEF Forwardable, IsRoot, Steady

\* Steps of the stores leave what turns and late calls hold.
LEMMA HoldsOn ==
    ASSUME EpochInv, StoreInv, StoreInv', Steady, NEW h \in Hops, config'[h] = config[h],
           NEW t, Holds(h, t)
    PROVE  Holds(h, t)'
<1>1. /\ out[h]["up"] \in Seq(Row) /\ out[h]["down"] \in Seq(Row) /\ "up" \in Dirs /\ "down" \in Dirs
      /\ Parent[h] \in Nodes
  BY Bases
<1>2. /\ Later("up", out[h]["up"], inbox[h]["up"], grant[h], superseded[h],
               out'[h]["up"], inbox'[h]["up"], grant'[h], superseded'[h])
      /\ Later("down", out[h]["down"], inbox[h]["down"], grant[h], superseded[h],
               out'[h]["down"], inbox'[h]["down"], grant'[h], superseded'[h])
  BY <1>1 DEF Steady, Flow
<1>3. inbox[h]["up"] \subseteq inbox'[h]["up"] /\ inbox[h]["down"] \subseteq inbox'[h]["down"]
  BY <1>2 DEF Later
<1>4. \A x \in DOMAIN checkpoints : x \in DOMAIN checkpoints'
  <2>1. checkpoints \in Seq(Checkpoint) /\ checkpoints' \in Seq(Checkpoint) /\ Len(checkpoints) <= Len(checkpoints')
    BY DEF StoreInv, Types, Steady
  <2> QED BY <2>1
<1>5. Forwardable(h) => Forwardable(h)'
  BY ForwardableOn
<1>6. prepared[h].cp # 0 => prepared'[h].cp # 0
  BY DEF Steady
<1>7. t.pc = "send" => BatchOK("up", out'[h]["up"], inbox'[h]["up"], grant'[h], superseded'[h],
                               "events", config'[h], t.batch)
  <2> SUFFICES ASSUME t.pc = "send"
               PROVE  BatchOK("up", out'[h]["up"], inbox'[h]["up"], grant'[h], superseded'[h],
                              "events", config[h], t.batch)
    OBVIOUS
  <2>1. BatchOK("up", out[h]["up"], inbox[h]["up"], grant[h], superseded[h], "events", config[h], t.batch)
    BY DEF Holds
  <2> QED BY <1>1, <1>2, <2>1, LaterBatch
<1>8. t.pc = "store" => BatchOK("down", out'[h]["down"], inbox'[h]["down"], grant'[h], superseded'[h],
                                t.stream, config'[h], t.batch)
  <2> SUFFICES ASSUME t.pc = "store"
               PROVE  BatchOK("down", out'[h]["down"], inbox'[h]["down"], grant'[h], superseded'[h],
                              t.stream, config[h], t.batch)
    OBVIOUS
  <2>1. BatchOK("down", out[h]["down"], inbox[h]["down"], grant[h], superseded[h], t.stream, config[h], t.batch)
    BY DEF Holds
  <2> QED BY <1>1, <1>2, <2>1, LaterBatch
<1>9. /\ t.pc = "answered" => EndpointOK(inbox'[h]["up"], t.batch)
      /\ t.pc = "ack" => EndpointOK(inbox'[h]["down"], t.batch)
  BY <1>3, EndpointLater DEF Holds
<1>10. /\ t \in Turn
       /\ t.pc = "install" => t.cp \in DOMAIN checkpoints' /\ prepared'[h].cp # 0
       /\ t.pc = "reset" => Forwardable(h)'
       /\ t.pc \notin {"idle", "install"} /\ t.drain => Forwardable(h)'
  BY <1>4, <1>5, <1>6 DEF Holds
<1> QED BY <1>7, <1>8, <1>9, <1>10 DEF Holds

\* A late call fits the stores after any step of theirs.
LEMMA CallHoldsOn ==
    ASSUME EpochInv, StoreInv, Steady, NEW h \in Hops, NEW c, CallHolds(h, c)
    PROVE  CallHolds(h, c)'
<1>1. /\ out[h]["up"] \in Seq(Row) /\ "up" \in Dirs /\ "down" \in Dirs /\ Parent[h] \in Nodes
  BY Bases
<1>2. /\ Later("up", out[h]["up"], inbox[h]["up"], grant[h], superseded[h],
               out'[h]["up"], inbox'[h]["up"], grant'[h], superseded'[h])
      /\ inbox[h]["down"] \subseteq inbox'[h]["down"]
  BY <1>1 DEF Steady, Flow, Later
<1>3. Forwardable(h) => Forwardable(h)'
  BY ForwardableOn
<1>4. c.kind = "accept" => BatchOK("up", out'[h]["up"], inbox'[h]["up"], grant'[h], superseded'[h],
                                   "events", c.epoch, c.batch)
  <2> SUFFICES ASSUME c.kind = "accept"
               PROVE  BatchOK("up", out'[h]["up"], inbox'[h]["up"], grant'[h], superseded'[h],
                              "events", c.epoch, c.batch)
    OBVIOUS
  <2>1. BatchOK("up", out[h]["up"], inbox[h]["up"], grant[h], superseded[h], "events", c.epoch, c.batch)
    BY DEF CallHolds
  <2> QED BY <1>1, <1>2, <2>1, LaterBatch
<1>5. c.kind = "ack" => EndpointOK(inbox'[h]["down"], c.batch)
  BY <1>2, EndpointLater DEF CallHolds
<1>6. c \in Call /\ (c.kind = "create" => Forwardable(h)')
  BY <1>3 DEF CallHolds
<1> QED BY <1>4, <1>5, <1>6 DEF CallHolds

\* A turn goes on.
LEMMA TurnGoesOn ==
    ASSUME EpochInv, StoreInv, TurnInv, StoreInv', Steady, NEW h \in Hops, NEW t, Goes(h, t),
           \A g \in Hops : g # h => config'[g] = config[g], Holds(h, t)'
    PROVE  TurnInv'
<1>1. turn' = [turn EXCEPT ![h] = t] /\ UNCHANGED <<late, faults>>
  BY DEF Goes
<1>2. turn \in [Hops -> Turn] /\ late \in [Hops -> SUBSET Call] /\ faults \in Nat
  BY DEF TurnInv
<1>3. t \in Turn
  BY DEF Holds
<1>4. turn' \in [Hops -> Turn] /\ late' \in [Hops -> SUBSET Call] /\ faults' \in Nat
  BY <1>1, <1>2, <1>3
<1>5. ASSUME NEW g \in Hops PROVE Holds(g, turn[g])'
  <2>1. CASE g = h
    <3>1. turn'[g] = t
      BY <1>1, <1>2, <2>1
    <3> QED BY <2>1, <3>1 DEF Holds
  <2>2. CASE g # h
    <3>1. PICK u : u = turn[g]
      OBVIOUS
    <3>2. turn'[g] = u /\ config'[g] = config[g]
      BY <1>1, <1>2, <2>2, <3>1
    <3>3. Holds(g, u)
      BY <3>1 DEF TurnInv
    <3>4. Holds(g, u)'
      BY <3>2, <3>3, HoldsOn
    <3> QED BY <3>2, <3>4 DEF Holds
  <2> QED BY <2>1, <2>2
<1>6. ASSUME NEW g \in Hops, NEW c \in late'[g] PROVE CallHolds(g, c)'
  <2>1. CallHolds(g, c)
    BY <1>1 DEF TurnInv
  <2> QED BY <2>1, CallHoldsOn
<1> QED BY <1>4, <1>5, <1>6 DEF TurnInv

\* Calls go and come.
LEMMA CallsGoOn ==
    ASSUME EpochInv, StoreInv, TurnInv, StoreInv', Steady, UNCHANGED config,
           \A g \in Hops : turn'[g] = turn[g] \/ turn'[g] = Resting,
           turn' \in [Hops -> Turn], late' \in [Hops -> SUBSET Call], faults' \in Nat,
           \A g \in Hops : \A c \in late'[g] : CallHolds(g, c)
    PROVE  TurnInv'
<1>1. ASSUME NEW g \in Hops PROVE Holds(g, turn[g])'
  <2>1. CASE turn'[g] = Resting
    <3>1. Resting \in Turn /\ Resting.pc = "idle"
      BY TurnTypes DEF TurnInv
    <3> QED BY <2>1, <3>1 DEF Holds
  <2>2. CASE turn'[g] = turn[g]
    <3>1. PICK u : u = turn[g]
      OBVIOUS
    <3>2. Holds(g, u) /\ turn'[g] = u /\ config'[g] = config[g]
      BY <2>2, <3>1 DEF TurnInv
    <3>3. Holds(g, u)'
      BY <3>2, HoldsOn
    <3> QED BY <3>2, <3>3 DEF Holds
  <2> QED BY <2>1, <2>2
<1>2. ASSUME NEW g \in Hops, NEW c \in late'[g] PROVE CallHolds(g, c)'
  BY CallHoldsOn
<1> QED BY <1>1, <1>2 DEF TurnInv

\* The stores stand still.
LEMMA StillKeeps ==
    ASSUME EpochInv, StoreInv, UNCHANGED storeVars
    PROVE  StoreInv' /\ Steady /\ UNCHANGED config
<1>1. /\ UNCHANGED <<born, log, receipts, issued, purged, inbox, config, resetVars>>
      /\ out' = out /\ grant' = grant /\ superseded' = superseded
  BY DEF storeVars, resetVars
<1>2. /\ Flows(out', inbox, grant', config, superseded', DOMAIN born, Signed)
      /\ Flow(out, inbox, grant, superseded, out', inbox, grant', superseded')
      /\ superseded' \in [Hops -> Record]
      /\ \A g \in Hops : superseded'[g].epoch <= grant'[g]
      /\ \A g \in Hops : config[g] # grant'[g] => config[g] # grant[g]
  BY <1>1, Bases, FlowReflexive
<1> QED BY <1>1, <1>2, QuietKeeps

\* A turn with a batch in hand.
With(t, pc, ids) == [t EXCEPT !.pc = pc, !.batch = ids]

\* Taking a batch in hand changes the step and the batch of the turn.
LEMMA TurnSets ==
    ASSUME NEW t \in Turn, NEW ids \in SUBSET Nat, NEW pc \in {"send", "answered", "store", "ack"},
           NEW s, s = With(t, pc, ids)
    PROVE  s \in Turn /\ s.pc = pc /\ s.batch = ids /\ s.drain = t.drain /\ s.stream = t.stream
<1>1. s \in Turn
  BY DEF Turn, With
<1>2. s.pc = pc /\ s.batch = ids
  BY DEF Turn, With
<1>3. s.drain = t.drain /\ s.stream = t.stream
  BY DEF Turn, With
<1> QED BY <1>1, <1>2, <1>3

\* A turn that begins to push.
LEMMA AtPush ==
    ASSUME NEW t \in Turn, NEW s, s = [t EXCEPT !.pc = "push"]
    PROVE  s \in Turn /\ s.pc = "push" /\ s.drain = t.drain
<1>1. s \in Turn
  BY DEF Turn
<1> QED BY <1>1 DEF Turn

\* A turn that begins to pull.
LEMMA AtPull ==
    ASSUME NEW t \in Turn, NEW s, s = [t EXCEPT !.pc = "pull"]
    PROVE  s \in Turn /\ s.pc = "pull" /\ s.drain = t.drain
<1>1. s \in Turn
  BY DEF Turn
<1> QED BY <1>1 DEF Turn

\* What the turn of a hop is and holds, for the steps below.
LEMMA TurnIs ==
    ASSUME TurnInv, NEW h \in Hops
    PROVE  turn[h] \in Turn /\ Holds(h, turn[h]) /\ turn[h].stream \in Streams
BY DEF TurnInv, Turn

\* The position answered after a batch was accepted is one that was.
LEMMA ThroughIs ==
    ASSUME EpochInv, StoreInv, NEW h \in Hops, NEW d \in Dirs, NEW stream, NEW st, NEW ep, NEW ids,
           ids = turn[h].batch,
           BatchOK(d, out[h][d], inbox[h][d], grant[h], superseded[h], st, ep, ids),
           inbox'[h][d] = inbox[h][d] \cup ids, NEW x, x = Through(h, d, stream)
    PROVE  EndpointOK(inbox'[h][d], {x}) /\ {x} \in SUBSET Nat
<1> DEFINE S == Accepted(h, d, stream, config[h]) \cup ids
<1>1. x = Top(S)
  BY DEF Through
<1>2. out[h][d] \in Seq(Row) /\ inbox[h][d] \subseteq DOMAIN out[h][d]
  BY Bases, FlowsAt
<1>3. ids \subseteq DOMAIN out[h][d]
  BY DEF BatchOK
<1>4. S \subseteq inbox'[h][d] /\ S \subseteq DOMAIN out[h][d]
  BY <1>2, <1>3 DEF Accepted
<1> HIDE DEF S
<1>5. EndpointOK(inbox'[h][d], {Top(S)}) /\ Top(S) \in Nat
  BY <1>2, <1>4, EndpointIs
<1> QED BY <1>1, <1>5

\* The rows of a batch are ids.
LEMMA BatchIds ==
    ASSUME NEW d, NEW rows \in Seq(Row), NEW ib, NEW g, NEW sup, NEW stream, NEW ep, NEW ids,
           BatchOK(d, rows, ib, g, sup, stream, ep, ids)
    PROVE  ids \in SUBSET Nat
<1>1. ids \in SUBSET DOMAIN rows
  BY DEF BatchOK
<1> QED BY <1>1, RowIds

\* The handshake: a turn drains only where a checkpoint can be prepared.
LEMMA HelloStands ==
    ASSUME EpochInv, StoreInv, TurnInv, NEW h \in Hops, Hello(h)
    PROVE  StoreInv' /\ TurnInv'
<1> DEFINE required == NeedsReset(h)
           same == grant[h] = config[h]
           pc == IF (required /\ grant[h] + 1 = config[h]) \/ same THEN "push" ELSE "reset"
<1>1. PICK t : t = [Resting EXCEPT !.pc = pc, !.required = required, !.seen = grant[h],
                                   !.drain = required /\ same, !.batches = 1]
  OBVIOUS
<1>2. Goes(h, t) /\ UNCHANGED storeVars
  BY <1>1 DEF Hello
<1>3. grant[h] \in Nat /\ config[h] \in Nat
  BY Bases
<1>4. required \in BOOLEAN
  BY DEF NeedsReset, NeedsRefresh
<1>5. t \in Turn /\ t.pc = pc /\ t.drain = (required /\ same)
  <2> DEFINE b == required /\ same
  <2>1. b \in BOOLEAN /\ pc \in {"push", "reset"}
    OBVIOUS
  <2>2. t = [Resting EXCEPT !.pc = pc, !.required = required, !.seen = grant[h], !.drain = b, !.batches = 1]
    BY <1>1
  <2> HIDE DEF pc, required, b
  <2>3. t = [pc |-> pc, required |-> required, seen |-> grant[h], drain |-> b, stream |-> "events",
             batch |-> {}, batches |-> 1, left |-> FALSE, cp |-> 0, epoch |-> 0]
    BY <2>2 DEF Resting
  <2>4. t \in Turn
    BY <1>3, <1>4, <2>1, <2>3 DEF Turn, Streams
  <2>5. t.pc = pc /\ t.drain = b
    BY <2>3
  <2> QED BY <2>4, <2>5 DEF b
<1>6. required => Forwardable(h)
  BY DEF NeedsReset, Forwardable, StoreInv, Prepared
<1>7. ~same => Forwardable(h)
  BY DEF StoreInv, Prepared
<1>8. Holds(h, t)
  <2>1. Free(h, t)
    BY <1>5, <1>6, <1>7 DEF Free
  <2> QED BY <2>1, FreeHolds
<1>9. StoreInv' /\ Steady /\ UNCHANGED config
  BY <1>2, StillKeeps
<1>10. Holds(h, t)'
  BY <1>8, <1>9, HoldsOn
<1> QED BY <1>2, <1>9, <1>10, TurnGoesOn

\* The batch read is one the hub may accept.
LEMMA ReadStands ==
    ASSUME EpochInv, StoreInv, TurnInv, NEW h \in Hops, ReadPending(h)
    PROVE  StoreInv' /\ TurnInv'
<1>1. PICK ids : ids = Pending(out[h].up, "events", config[h], 0)
  OBVIOUS
<1>2. PICK t : t = IF ids = {} THEN Pushed(turn[h]) ELSE With(turn[h], "send", ids)
  OBVIOUS
<1>3. /\ turn[h].pc = "push" /\ out' = [out EXCEPT ![h].up = Emit(@, ids)] /\ Goes(h, t)
      /\ UNCHANGED <<born, log, receipts, rootVars, inbox, grant, config, superseded, prepared, installed>>
  BY <1>1, <1>2 DEF ReadPending, With
<1>4. /\ StoreInv' /\ Steady
      /\ BatchOK("up", out'[h]["up"], inbox'[h]["up"], grant'[h], superseded'[h], "events", config'[h], ids)
  BY <1>1, <1>3, ReadKeeps
<1>5. turn[h] \in Turn /\ Holds(h, turn[h])
  BY TurnIs
<1>6. turn[h].drain => Forwardable(h)
  BY <1>3, <1>5 DEF Holds
<1>7. UNCHANGED config
  BY <1>3
<1>8. CASE ids = {}
  <2>1. Free(h, t)
    BY <1>2, <1>5, <1>6, <1>8, TurnTypes DEF Free
  <2>2. Holds(h, t)'
    BY <1>4, <1>7, <2>1, FreeHolds, HoldsOn
  <2> QED BY <1>3, <1>4, <1>7, <2>2, TurnGoesOn
<1>9. CASE ids # {}
  <2>1. out'[h]["up"] \in Seq(Row)
    BY <1>4, Bases DEF StoreInv, Linked, Flows
  <2>2. ids \in SUBSET Nat
    BY <1>4, <2>1, BatchIds
  <2>3. t \in Turn /\ t.pc = "send" /\ t.batch = ids /\ t.drain = turn[h].drain
    BY <1>2, <1>5, <1>9, <2>2, TurnSets
  <2>4. Forwardable(h) => Forwardable(h)'
    BY <1>4, ForwardableOn
  <2>5. Holds(h, t)'
    <3>1. t.drain => Forwardable(h)'
      BY <1>6, <2>3, <2>4
    <3> QED BY <1>4, <2>3, <3>1 DEF Holds
  <2> QED BY <1>3, <1>4, <1>7, <2>5, TurnGoesOn
<1> QED BY <1>8, <1>9

\* It still is when the hub gets it, and the answer is a position it accepted.
LEMMA PushStands ==
    ASSUME EpochInv, StoreInv, TurnInv, NEW h \in Hops, PushAccepted(h)
    PROVE  StoreInv' /\ TurnInv'
<1>1. PICK ids : ids = turn[h].batch
  OBVIOUS
<1>2. PICK x : x = Through(h, "up", "events")
  OBVIOUS
<1>3. PICK t : t = With(turn[h], "answered", {x})
  OBVIOUS
<1>4. turn[h].pc = "send" /\ Accept(h, config[h], ids) /\ Goes(h, t)
  BY <1>1, <1>2, <1>3 DEF PushAccepted, With
<1>5. turn[h] \in Turn /\ Holds(h, turn[h]) /\ config[h] \in Nat /\ config[h] <= config[h] /\ "up" \in Dirs
  BY TurnIs, Bases
<1>6. BatchOK("up", out[h]["up"], inbox[h]["up"], grant[h], superseded[h], "events", config[h], ids)
      /\ (turn[h].drain => Forwardable(h))
  BY <1>1, <1>4, <1>5 DEF Holds
<1>7. StoreInv' /\ Steady /\ UNCHANGED config /\ inbox'[h]["up"] = inbox[h]["up"] \cup ids
  BY <1>4, <1>5, <1>6, AcceptKeeps
<1>8. EndpointOK(inbox'[h]["up"], {x}) /\ {x} \in SUBSET Nat
  BY <1>1, <1>2, <1>5, <1>6, <1>7, ThroughIs
<1>9. t \in Turn /\ t.pc = "answered" /\ t.batch = {x} /\ t.drain = turn[h].drain
  BY <1>3, <1>5, <1>8, TurnSets
<1>10. Forwardable(h) => Forwardable(h)'
  BY <1>7, ForwardableOn
<1>11. Holds(h, t)'
  BY <1>6, <1>8, <1>9, <1>10 DEF Holds
<1> QED BY <1>4, <1>7, <1>11, TurnGoesOn

\* The answer marks rows the hub has.
LEMMA TakeStands ==
    ASSUME EpochInv, StoreInv, TurnInv, NEW h \in Hops, TakeAck(h)
    PROVE  StoreInv' /\ TurnInv'
<1>1. PICK through : through = Top(turn[h].batch)
  OBVIOUS
<1>2. PICK t : t = IF Spent(turn[h]) THEN Pushed(Left(turn[h])) ELSE [More(turn[h]) EXCEPT !.pc = "push"]
  OBVIOUS
<1>3. /\ turn[h].pc = "answered" /\ Goes(h, t)
      /\ AckAllowed(out[h].up, "events", config[h], through, 0)
      /\ out' = [out EXCEPT ![h].up = Acknowledge(@, "events", config[h], through, 0)]
      /\ UNCHANGED <<born, log, receipts, rootVars, inbox, grant, config, superseded, prepared, installed>>
  BY <1>1, <1>2 DEF TakeAck
<1>4. turn[h] \in Turn /\ Holds(h, turn[h])
  BY TurnIs
<1>5. EndpointOK(inbox[h]["up"], turn[h].batch) /\ (turn[h].drain => Forwardable(h))
  BY <1>3, <1>4 DEF Holds
<1>6. through \in {0} \cup inbox[h]["up"]
  <2>1. out[h]["up"] \in Seq(Row) /\ inbox[h]["up"] \subseteq DOMAIN out[h]["up"]
    BY Bases, FlowsAt
  <2> QED BY <1>1, <1>5, <2>1, EndpointTop
<1>7. StoreInv' /\ Steady
  BY <1>3, <1>6, TakeKeeps
<1>8. Free(h, t)
  <2>1. CASE Spent(turn[h])
    BY <1>2, <1>4, <1>5, <2>1, TurnTypes DEF Free
  <2>2. CASE ~Spent(turn[h])
    BY <1>2, <1>4, <1>5, <2>2, TurnTypes, AtPush DEF Free
  <2> QED BY <2>1, <2>2
<1>9. Holds(h, t)'
  BY <1>3, <1>7, <1>8, FreeHolds, HoldsOn
<1>10. \A g \in Hops : g # h => config'[g] = config[g]
  BY <1>3
<1> QED BY <1>3, <1>7, <1>9, <1>10, TurnGoesOn

\* The offer read is one the spoke may accept.
LEMMA AskStands ==
    ASSUME EpochInv, StoreInv, TurnInv, NEW h \in Hops, AskOffer(h)
    PROVE  StoreInv' /\ TurnInv'
<1>1. PICK stream : stream = turn[h].stream
  OBVIOUS
<1>2. PICK ids : ids = Offered(h, stream, config[h])
  OBVIOUS
<1>3. PICK t : t = IF ids = {} THEN Pulled(turn[h]) ELSE With(turn[h], "store", ids)
  OBVIOUS
<1>4. turn[h].pc = "pull" /\ Offer(h, stream, config[h]) /\ Goes(h, t)
  BY <1>1, <1>2, <1>3 DEF AskOffer, With
<1>5. /\ turn[h] \in Turn /\ Holds(h, turn[h]) /\ stream \in Streams
      /\ config[h] \in Nat /\ config[h] <= config[h]
  BY <1>1, TurnIs, Bases
<1>6. /\ StoreInv' /\ Steady
      /\ BatchOK("down", out'[h]["down"], inbox'[h]["down"], grant'[h], superseded'[h], stream, config[h], ids)
  BY <1>2, <1>4, <1>5, OfferKeeps
<1>7. UNCHANGED config
  BY <1>4 DEF Offer
<1>8. turn[h].drain => Forwardable(h)
  BY <1>4, <1>5 DEF Holds
<1>9. CASE ids = {}
  <2>1. Free(h, t)
    BY <1>3, <1>5, <1>8, <1>9, TurnTypes DEF Free
  <2>2. Holds(h, t)'
    BY <1>6, <1>7, <2>1, FreeHolds, HoldsOn
  <2> QED BY <1>4, <1>6, <1>7, <2>2, TurnGoesOn
<1>10. CASE ids # {}
  <2>1. out'[h]["down"] \in Seq(Row)
    BY <1>6, Bases DEF StoreInv, Linked, Flows
  <2>2. ids \in SUBSET Nat
    BY <1>6, <2>1, BatchIds
  <2>3. t \in Turn /\ t.pc = "store" /\ t.batch = ids /\ t.drain = turn[h].drain /\ t.stream = stream
    <3>1. t = With(turn[h], "store", ids)
      BY <1>3, <1>10
    <3>2. turn[h] \in Turn /\ "store" \in {"send", "answered", "store", "ack"}
      BY <1>5
    <3>3. t \in Turn /\ t.pc = "store" /\ t.batch = ids /\ t.drain = turn[h].drain /\ t.stream = turn[h].stream
      BY <2>2, <3>1, <3>2, TurnSets
    <3> QED BY <1>1, <3>3
  <2>4. t.drain => Forwardable(h)'
    BY <1>6, <1>8, <2>3, ForwardableOn
  <2>5. BatchOK("down", out'[h]["down"], inbox'[h]["down"], grant'[h], superseded'[h],
                t.stream, config'[h], t.batch)
    BY <1>6, <1>7, <2>3
  <2>6. Holds(h, t)'
    BY <2>3, <2>4, <2>5 DEF Holds
  <2> QED BY <1>4, <1>6, <1>7, <2>6, TurnGoesOn
<1> QED BY <1>9, <1>10

\* It still is when the spoke stores it.
LEMMA StoreStands ==
    ASSUME EpochInv, StoreInv, TurnInv, NEW h \in Hops, StoreOffer(h)
    PROVE  StoreInv' /\ TurnInv'
<1>1. PICK ids : ids = turn[h].batch
  OBVIOUS
<1>2. PICK x : x = Through(h, "down", turn[h].stream)
  OBVIOUS
<1>3. PICK t : t = With(turn[h], "ack", {x})
  OBVIOUS
<1>4. /\ turn[h].pc = "store" /\ Store(h, h, "down", ids, out, grant) /\ Goes(h, t)
      /\ UNCHANGED <<born, purged, grant, config, superseded, resetVars>>
  BY <1>1, <1>2, <1>3 DEF StoreOffer, With
<1>5. turn[h] \in Turn /\ Holds(h, turn[h]) /\ "down" \in Dirs
  BY TurnIs, Bases
<1>6. BatchOK("down", out[h]["down"], inbox[h]["down"], grant[h], superseded[h], turn[h].stream, config[h], ids)
      /\ (turn[h].drain => Forwardable(h))
  BY <1>1, <1>4, <1>5 DEF Holds
<1>7. StoreInv' /\ Steady /\ inbox'[h]["down"] = inbox[h]["down"] \cup ids
  BY <1>4, <1>6, OfferedKeeps
<1>8. EndpointOK(inbox'[h]["down"], {x}) /\ {x} \in SUBSET Nat
  BY <1>1, <1>2, <1>5, <1>6, <1>7, ThroughIs
<1>9. t \in Turn /\ t.pc = "ack" /\ t.batch = {x} /\ t.drain = turn[h].drain
  BY <1>3, <1>5, <1>8, TurnSets
<1>10. t.drain => Forwardable(h)'
  BY <1>6, <1>7, <1>9, ForwardableOn
<1>11. Holds(h, t)'
  BY <1>8, <1>9, <1>10 DEF Holds
<1>12. \A g \in Hops : g # h => config'[g] = config[g]
  BY <1>4
<1> QED BY <1>4, <1>7, <1>11, <1>12, TurnGoesOn

\* The position the spoke sends is one it accepted.
LEMMA AckStands ==
    ASSUME EpochInv, StoreInv, TurnInv, NEW h \in Hops, SendAck(h)
    PROVE  StoreInv' /\ TurnInv'
<1>1. PICK through : through = Top(turn[h].batch)
  OBVIOUS
<1>2. PICK stream : stream = turn[h].stream
  OBVIOUS
<1>3. PICK t : t = IF Spent(turn[h]) THEN Pulled(Left(turn[h])) ELSE [More(turn[h]) EXCEPT !.pc = "pull"]
  OBVIOUS
<1>4. turn[h].pc = "ack" /\ Ack(h, stream, config[h], through) /\ Goes(h, t)
  BY <1>1, <1>2, <1>3 DEF SendAck
<1>5. /\ turn[h] \in Turn /\ Holds(h, turn[h]) /\ stream \in Streams
      /\ config[h] \in Nat /\ config[h] <= config[h]
  BY <1>2, TurnIs, Bases
<1>6. EndpointOK(inbox[h]["down"], turn[h].batch) /\ (turn[h].drain => Forwardable(h))
  BY <1>4, <1>5 DEF Holds
<1>7. through \in {0} \cup inbox[h]["down"]
  <2>1. out[h]["down"] \in Seq(Row) /\ inbox[h]["down"] \subseteq DOMAIN out[h]["down"]
    BY Bases, FlowsAt
  <2> QED BY <1>1, <1>6, <2>1, EndpointTop
<1>8. StoreInv' /\ Steady
  BY <1>4, <1>5, <1>7, AckKeeps
<1>9. UNCHANGED config
  BY <1>4 DEF Ack
<1>10. Free(h, t)
  <2>1. CASE Spent(turn[h])
    <3>1. PICK s : s = Left(turn[h])
      OBVIOUS
    <3>2. s \in Turn /\ s.drain = turn[h].drain /\ t = Pulled(s)
      BY <1>3, <1>5, <2>1, <3>1, TurnTypes
    <3> QED BY <1>6, <3>2, TurnTypes DEF Free
  <2>2. CASE ~Spent(turn[h])
    BY <1>3, <1>5, <1>6, <2>2, TurnTypes, AtPull DEF Free
  <2> QED BY <2>1, <2>2
<1>11. Holds(h, t)'
  BY <1>8, <1>9, <1>10, FreeHolds, HoldsOn
<1> QED BY <1>4, <1>8, <1>9, <1>11, TurnGoesOn

\* A fetch prepares a checkpoint, or finds the one prepared.
LEMMA FetchStands ==
    ASSUME EpochInv, StoreInv, TurnInv, EpochInv', NEW h \in Hops, Fetch(h)
    PROVE  StoreInv' /\ TurnInv'
<1>1. PICK cp, ep : cp = prepared'[h].cp /\ ep = prepared'[h].epoch
  OBVIOUS
<1>2. PICK t : t = [turn[h] EXCEPT !.pc = "install", !.cp = cp, !.epoch = ep]
  OBVIOUS
<1>3. PICK says : Create(h, says)
  BY DEF Fetch
<1>4. turn[h].pc = "reset" /\ Goes(h, t)
  BY <1>1, <1>2 DEF Fetch
<1>5. turn[h] \in Turn /\ Holds(h, turn[h])
  BY TurnIs
<1>6. Forwardable(h)
  BY <1>4, <1>5 DEF Holds
<1>7. StoreInv' /\ Steady /\ prepared'[h].cp # 0 /\ UNCHANGED config
  BY <1>3, <1>6, CheckpointKeeps
<1>8. cp \in Nat /\ ep \in Nat /\ cp \in DOMAIN checkpoints' /\ prepared'[h].cp # 0
  <2>1. prepared'[h].cp \in Nat /\ prepared'[h].epoch \in Nat /\ prepared'[h].cp <= Len(checkpoints')
        /\ checkpoints' \in Seq(Checkpoint)
    BY <1>7 DEF StoreInv, Types, Prepared
  <2> QED BY <1>1, <1>7, <2>1
<1>9. t \in Turn /\ t.pc = "install" /\ t.cp = cp
  <2>1. t \in Turn
    BY <1>2, <1>5, <1>8 DEF Turn
  <2>2. t.pc = "install" /\ t.cp = cp
    BY <1>2, <1>5 DEF Turn
  <2> QED BY <2>1, <2>2
<1>10. Holds(h, t)'
  BY <1>8, <1>9 DEF Holds
<1> QED BY <1>4, <1>7, <1>10, TurnGoesOn

\* The checkpoint fetched is the one prepared for the hop, or it is dropped.
LEMMA InstallStands ==
    ASSUME EpochInv, StoreInv, TurnInv, NEW h \in Hops, InstallFetched(h)
    PROVE  StoreInv' /\ TurnInv'
<1>1. PICK cp, ep : cp = turn[h].cp /\ ep = turn[h].epoch
  OBVIOUS
<1>2. PICK t : t = [Resting EXCEPT !.pc = "push", !.batches = 1]
  OBVIOUS
<1>3. turn[h].pc = "install" /\ Install(h, cp, ep) /\ Goes(h, t)
  BY <1>1, <1>2 DEF InstallFetched
<1>4. turn[h] \in Turn /\ Holds(h, turn[h])
  BY TurnIs
<1>5. cp \in DOMAIN checkpoints /\ prepared[h].cp # 0 /\ ep \in Nat
  BY <1>1, <1>3, <1>4 DEF Holds, Turn
<1>6. StoreInv' /\ Steady
  BY <1>3, <1>5, InstallStores
<1>7. \A g \in Hops : g # h => config'[g] = config[g]
  BY <1>3, Bases DEF Install
<1>8. t \in Turn /\ t.pc = "push" /\ ~t.drain
  BY <1>2 DEF Resting, Turn, Streams
<1>9. Holds(h, t)'
  BY <1>8 DEF Holds
<1> QED BY <1>3, <1>6, <1>7, <1>9, TurnGoesOn

\* A refused call changes no store.
LEMMA RefusedStands ==
    ASSUME EpochInv, StoreInv, TurnInv, NEW h \in Hops, Refused(h)
    PROVE  StoreInv' /\ TurnInv'
<1>1. Goes(h, Resting) /\ UNCHANGED storeVars
  BY DEF Refused, Ends
<1>2. StoreInv' /\ Steady /\ UNCHANGED config
  BY <1>1, StillKeeps
<1>3. turn[h] \in Turn
  BY TurnIs
<1>4. Resting \in Turn /\ Resting.pc = "idle"
  BY <1>3, TurnTypes
<1>5. PICK t : t = Resting
  OBVIOUS
<1>6. Free(h, t)
  BY <1>4, <1>5 DEF Free
<1>7. Holds(h, t)'
  BY <1>2, <1>6, FreeHolds, HoldsOn
<1> QED BY <1>1, <1>2, <1>5, <1>7, TurnGoesOn

---------------------------------------------------------------------------
(* Turns that die, and late calls                                          *)

\* The call a turn is about to make fits the stores.
LEMMA CallOfHolds ==
    ASSUME EpochInv, StoreInv, TurnInv, NEW h \in Hops, NEW c \in CallOf(turn[h], config[h])
    PROVE  CallHolds(h, c)
<1> DEFINE t == turn[h]
<1>1. t \in Turn /\ Holds(h, t) /\ t.stream \in Streams /\ config[h] \in Nat /\ t.batch \in SUBSET Nat
  BY TurnIs, Bases DEF Turn
<1>2. CASE t.pc = "send"
  <2>1. c = [kind |-> "accept", stream |-> "events", epoch |-> config[h], batch |-> t.batch]
    BY <1>2 DEF CallOf
  <2>2. c \in Call /\ c.kind = "accept" /\ c.epoch = config[h] /\ c.batch = t.batch
    BY <1>1, <2>1 DEF Call, Calls, Streams
  <2> QED BY <1>1, <1>2, <2>2 DEF Holds, CallHolds
<1>3. CASE t.pc = "pull"
  <2>1. c = [kind |-> "offer", stream |-> t.stream, epoch |-> config[h], batch |-> {}]
    BY <1>3 DEF CallOf
  <2>2. c \in Call /\ c.kind = "offer"
    BY <1>1, <2>1 DEF Call, Calls
  <2> QED BY <2>2 DEF CallHolds
<1>4. CASE t.pc = "ack"
  <2>1. c = [kind |-> "ack", stream |-> t.stream, epoch |-> config[h], batch |-> t.batch]
    BY <1>4 DEF CallOf
  <2>2. c \in Call /\ c.kind = "ack" /\ c.batch = t.batch
    BY <1>1, <2>1 DEF Call, Calls
  <2> QED BY <1>1, <1>4, <2>2 DEF Holds, CallHolds
<1>5. CASE t.pc = "reset"
  <2>1. c = [kind |-> "create", stream |-> "events", epoch |-> config[h], batch |-> {}]
    BY <1>5 DEF CallOf
  <2>2. c \in Call /\ c.kind = "create"
    BY <1>1, <2>1 DEF Call, Calls, Streams
  <2> QED BY <1>1, <1>5, <2>2 DEF Holds, CallHolds
<1>6. t.pc \in {"send", "pull", "ack", "reset"}
  BY DEF CallOf
<1> QED BY <1>2, <1>3, <1>4, <1>5, <1>6

\* A turn that gives up leaves its call behind, or its answer.
LEMMA AbortStands ==
    ASSUME EpochInv, StoreInv, TurnInv, NEW h \in Hops, Abort(h)
    PROVE  StoreInv' /\ TurnInv'
<1>1. PICK calls \in SUBSET {c \in CallOf(turn[h], config[h]) : c.kind \in LateCalls} :
         late' = [late EXCEPT ![h] = @ \cup calls]
  BY DEF Abort
<1>2. turn' = [turn EXCEPT ![h] = Resting] /\ faults' = faults + 1 /\ UNCHANGED storeVars
  BY DEF Abort
<1>3. StoreInv' /\ Steady /\ UNCHANGED config
  BY <1>2, StillKeeps
<1>4. turn \in [Hops -> Turn] /\ late \in [Hops -> SUBSET Call] /\ faults \in Nat /\ turn[h] \in Turn
  BY DEF TurnInv
<1>5. Resting \in Turn
  BY <1>4, TurnTypes
<1>6. \A c \in calls : CallHolds(h, c)
  BY <1>1, CallOfHolds
<1>7. \A c \in calls : c \in Call
  BY <1>6 DEF CallHolds
<1>8. /\ \A g \in Hops : turn'[g] = turn[g] \/ turn'[g] = Resting
      /\ turn' \in [Hops -> Turn] /\ late' \in [Hops -> SUBSET Call] /\ faults' \in Nat
  BY <1>1, <1>2, <1>4, <1>5, <1>7
<1>9. ASSUME NEW g \in Hops, NEW c \in late'[g] PROVE CallHolds(g, c)
  <2>1. c \in late[g] \/ (g = h /\ c \in calls)
    BY <1>1, <1>4
  <2> QED BY <1>6, <2>1 DEF TurnInv
<1> QED BY <1>3, <1>8, <1>9, CallsGoOn

\* A late call that is served does to the stores what it does in time.
LEMMA ServedKeeps ==
    ASSUME EpochInv, StoreInv, TurnInv, NEW h \in Hops, NEW c \in late[h], NEW says, Served(h, c, says)
    PROVE  StoreInv' /\ Steady /\ UNCHANGED config
<1>1. CallHolds(h, c) /\ c \in Call /\ c.stream \in Streams /\ c.kind \in Calls
  BY DEF TurnInv, CallHolds, Call
<1>2. c.epoch \in Nat /\ c.epoch <= config[h]
  BY DEF EpochInv
<1>3. CASE c.kind = "accept"
  <2>1. Accept(h, c.epoch, c.batch)
    BY <1>3 DEF Served
  <2>2. BatchOK("up", out[h]["up"], inbox[h]["up"], grant[h], superseded[h], "events", c.epoch, c.batch)
    BY <1>1, <1>3 DEF CallHolds
  <2> QED BY <1>2, <2>1, <2>2, AcceptKeeps
<1>4. CASE c.kind = "offer"
  <2>1. Offer(h, c.stream, c.epoch)
    BY <1>4 DEF Served
  <2>2. StoreInv' /\ Steady
    BY <1>1, <1>2, <2>1, OfferKeeps
  <2> QED BY <2>1, <2>2 DEF Offer
<1>5. CASE c.kind = "ack"
  <2>1. Ack(h, c.stream, c.epoch, Top(c.batch))
    BY <1>5 DEF Served
  <2>2. Top(c.batch) \in {0} \cup inbox[h]["down"]
    <3>1. out[h]["down"] \in Seq(Row) /\ inbox[h]["down"] \subseteq DOMAIN out[h]["down"]
      BY Bases, FlowsAt
    <3>2. EndpointOK(inbox[h]["down"], c.batch)
      BY <1>1, <1>5 DEF CallHolds
    <3> QED BY <3>1, <3>2, EndpointTop
  <2>3. StoreInv' /\ Steady
    BY <1>1, <1>2, <2>1, <2>2, AckKeeps
  <2> QED BY <2>1, <2>3 DEF Ack
<1>6. CASE c.kind = "create"
  <2>1. Create(h, says)
    BY <1>6 DEF Served
  <2>2. Forwardable(h)
    BY <1>1, <1>6 DEF CallHolds
  <2> QED BY <2>1, <2>2, CheckpointKeeps
<1> QED BY <1>1, <1>3, <1>4, <1>5, <1>6 DEF Calls

\* A late call, served or lost, keeps the stores.
LEMMA LateStands ==
    ASSUME EpochInv, StoreInv, TurnInv, NEW h \in Hops, LateCall(h) \/ LateCallLost(h)
    PROVE  StoreInv' /\ TurnInv'
<1>1. StoreInv' /\ Steady /\ UNCHANGED config
  <2>1. CASE LateCall(h)
    <3>1. PICK c \in late[h], says \in RelayGrowth : Served(h, c, says)
      BY <2>1 DEF LateCall
    <3> QED BY <3>1, ServedKeeps
  <2>2. CASE LateCallLost(h)
    BY <2>2, StillKeeps DEF LateCallLost
  <2> QED BY <2>1, <2>2
<1>2. UNCHANGED <<turn, faults>> /\ \E c \in late[h] : late' = [late EXCEPT ![h] = @ \ {c}]
  BY DEF LateCall, LateCallLost
<1>3. turn \in [Hops -> Turn] /\ late \in [Hops -> SUBSET Call] /\ faults \in Nat
  BY DEF TurnInv
<1>4. /\ \A g \in Hops : turn'[g] = turn[g] \/ turn'[g] = Resting
      /\ turn' \in [Hops -> Turn] /\ late' \in [Hops -> SUBSET Call] /\ faults' \in Nat
      /\ \A g \in Hops : late'[g] \subseteq late[g]
  BY <1>2, <1>3
<1>5. \A g \in Hops : \A c \in late'[g] : CallHolds(g, c)
  BY <1>4 DEF TurnInv
<1> QED BY <1>1, <1>4, <1>5, CallsGoOn

\* Users write and the root purges under any turn.
LEMMA UsersStand ==
    ASSUME EpochInv, StoreInv, TurnInv, (\E n \in Nodes : Edit(n)) \/ (\E e \in DOMAIN born : Purge(e))
    PROVE  StoreInv' /\ TurnInv'
<1>1. StoreInv' /\ Steady
  BY EditStores, PurgeStores
<1>2. UNCHANGED <<config, turn, late, faults>>
  BY DEF Edit, Purge
<1>3. /\ \A g \in Hops : turn'[g] = turn[g] \/ turn'[g] = Resting
      /\ turn' \in [Hops -> Turn] /\ late' \in [Hops -> SUBSET Call] /\ faults' \in Nat
      /\ \A g \in Hops : \A c \in late'[g] : CallHolds(g, c)
  BY <1>2 DEF TurnInv
<1> QED BY <1>1, <1>2, <1>3, CallsGoOn

---------------------------------------------------------------------------
(* The theorems                                                            *)

RelayInv == EpochInv /\ StoreInv /\ TurnInv

\* The invariant holds at first.
LEMMA InitStands == Init => RelayInv
<1> SUFFICES ASSUME Init PROVE RelayInv
  OBVIOUS
<1>1. EpochInv
  BY InitEpochs
<1>2. /\ born = <<>> /\ issued = <<>> /\ purged = {} /\ checkpoints = <<>>
      /\ log = [n \in Nodes |-> {}] /\ receipts = [n \in Nodes |-> {}]
      /\ out = [h \in Hops |-> [d \in Dirs |-> <<>>]]
      /\ inbox = [h \in Hops |-> [d \in Dirs |-> {}]]
      /\ grant = [h \in Hops |-> 1] /\ config = [h \in Hops |-> 1]
      /\ prepared = [h \in Hops |-> [cp |-> 0, epoch |-> 0]]
      /\ superseded = [h \in Hops |-> NoRecord]
      /\ installed = [n \in Nodes |-> 0]
      /\ turn = [h \in Hops |-> Resting] /\ late = [h \in Hops |-> {}] /\ faults = 0
  BY DEF Init
<1>3. Signed = {}
  BY <1>2 DEF Signed, Elements
<1>4. Types
  BY <1>2 DEF Types, NoRecord, Record
<1>5. Linked
  <2>1. \A h \in Hops : \A d \in Dirs : out[h][d] = <<>> /\ inbox[h][d] = {}
    BY <1>2
  <2>2. \A d, g, c, sup : LinkOK(d, <<>>, {}, g, c, sup)
    BY DEF LinkOK, RowsOK, OrderOK
  <2>3. AllKnown(<<>>, DOMAIN born, Signed)
    BY DEF AllKnown
  <2>4. out \in [Hops -> [Dirs -> Seq(Row)]]
    BY <1>2
  <2>5. ASSUME NEW h \in Hops, NEW d \in Dirs
        PROVE  /\ LinkOK(d, out[h][d], inbox[h][d], grant[h], config[h], superseded[h])
               /\ AllKnown(out[h][d], DOMAIN born, Signed)
    <3>1. out[h][d] = <<>> /\ inbox[h][d] = {}
      BY <2>1
    <3>2. LinkOK(d, <<>>, {}, grant[h], config[h], superseded[h])
      BY <2>2
    <3> QED BY <2>3, <3>1, <3>2
  <2> QED BY <2>4, <2>5 DEF Linked, Flows
<1>6. Rooted
  BY <1>2, <1>3 DEF Rooted
<1>7. Owned
  BY <1>2 DEF Owned
<1>8. Prepared
  BY <1>2 DEF Prepared, NoRecord
<1>9. TurnInv
  <2>1. Resting \in Turn /\ Resting.pc = "idle"
    BY DEF Resting, Turn, Streams
  <2>2. PICK r : r = Resting
    OBVIOUS
  <2>3. \A h \in Hops : Holds(h, r)
    BY <2>1, <2>2 DEF Holds
  <2> QED BY <1>2, <2>1, <2>2, <2>3 DEF TurnInv
<1> QED BY <1>1, <1>4, <1>5, <1>6, <1>7, <1>8, <1>9 DEF RelayInv, StoreInv

\* Every step keeps it.
LEMMA StepStands == ASSUME RelayInv, [Next]_vars PROVE RelayInv'
<1>1. EpochInv /\ StoreInv /\ TurnInv
  BY DEF RelayInv
<1>2. EpochInv'
  BY <1>1, StepKeeps
<1>3. CASE (\E n \in Nodes : Edit(n)) \/ (\E e \in DOMAIN born : Purge(e))
  BY <1>1, <1>2, <1>3, UsersStand DEF RelayInv
<1>4. ASSUME NEW h \in Hops, Proceed(h) PROVE RelayInv'
  <2>1. StoreInv' /\ TurnInv'
    BY <1>1, <1>2, <1>4, HelloStands, ReadStands, PushStands, TakeStands, AskStands, StoreStands,
       AckStands, FetchStands, InstallStands, RefusedStands DEF Proceed
  <2> QED BY <1>2, <2>1 DEF RelayInv
<1>5. ASSUME NEW h \in Hops, Abort(h) PROVE RelayInv'
  BY <1>1, <1>2, <1>5, AbortStands DEF RelayInv
<1>6. ASSUME NEW h \in Hops, LateCall(h) \/ LateCallLost(h) PROVE RelayInv'
  BY <1>1, <1>2, <1>6, LateStands DEF RelayInv
<1>7. CASE UNCHANGED vars
  <2>1. UNCHANGED storeVars /\ UNCHANGED <<turn, late, faults>>
    BY <1>7 DEF vars, storeVars
  <2>2. StoreInv' /\ Steady /\ UNCHANGED config
    BY <1>1, <2>1, StillKeeps
  <2>3. /\ \A g \in Hops : turn'[g] = turn[g] \/ turn'[g] = Resting
        /\ turn' \in [Hops -> Turn] /\ late' \in [Hops -> SUBSET Call] /\ faults' \in Nat
        /\ \A g \in Hops : \A c \in late'[g] : CallHolds(g, c)
    BY <1>1, <2>1 DEF TurnInv
  <2>4. TurnInv'
    BY <1>1, <2>2, <2>3, CallsGoOn
  <2> QED BY <1>2, <2>2, <2>4 DEF RelayInv
<1> QED BY <1>3, <1>4, <1>5, <1>6, <1>7 DEF Next

\* So it always holds.
LEMMA RelayStands == Spec => []RelayInv
BY InitStands, StepStands, PTL DEF Spec

\* What was accepted of an outbox are sequence numbers of its rows.
LEMMA InboxType ==
    ASSUME EpochInv, StoreInv, NEW h \in Hops
    PROVE  DOMAIN inbox[h] = Dirs /\ \A d \in Dirs : inbox[h][d] \subseteq DOMAIN out[h][d]
<1>1. DOMAIN inbox[h] = Dirs
  BY Bases
<1>2. ASSUME NEW d \in Dirs PROVE inbox[h][d] \subseteq DOMAIN out[h][d]
  BY Bases, FlowsAt
<1> QED BY <1>1, <1>2

\* Every variable has its type, whatever the tree, its bounds and the lengths of batches
\* and turns: inboxes refer to rows of the outbox across, and a hop's epochs are adjacent.
THEOREM RelayTyped == Spec => []TypeOK
<1>1. RelayInv => TypeOK
  <2> SUFFICES ASSUME RelayInv PROVE TypeOK
    OBVIOUS
  <2>1. EpochInv /\ StoreInv /\ TurnInv
    BY DEF RelayInv
  <2>2. /\ born \in Seq(Nodes) /\ issued \in Seq(Nat) /\ purged \subseteq Nat
        /\ log \in [Nodes -> SUBSET Nat] /\ receipts \in [Nodes -> SUBSET Nat]
        /\ checkpoints \in Seq(Checkpoint)
        /\ prepared \in [Hops -> [cp : Nat, epoch : Nat]]
        /\ superseded \in [Hops -> [epoch : Nat, next : Nat, through : Nat]]
        /\ installed \in [Nodes -> Nat]
    BY <2>1 DEF StoreInv, Types, Record
  <2>3. out \in [Hops -> [Dirs -> Seq(Row)]] /\ grant \in [Hops -> Nat]
    BY <2>1, Bases
  <2>4. \A h \in Hops : config[h] \in grant[h] .. grant[h] + 1
    BY <2>1 DEF EpochInv
  <2>5. \A h \in Hops : DOMAIN inbox[h] = Dirs /\ \A d \in Dirs : inbox[h][d] \subseteq DOMAIN out[h][d]
    BY <2>1, InboxType
  <2>6. turn \in [Hops -> Turn] /\ late \in [Hops -> SUBSET Call] /\ faults \in Nat
    BY <2>1 DEF TurnInv
  <2> QED BY <2>2, <2>3, <2>4, <2>5, <2>6 DEF TypeOK
<1> QED BY <1>1, RelayStands, PTL

\* No reset loses local work: what a daemon's own users wrote stays in its log until the
\* root purges it.  A daemon that lacks the receipt of an event has a row for it in its
\* current epoch, so an install finds it among what must be shown to be the root's, and
\* a receipt's position puts the event inside the checkpoint or among what is kept.
THEOREM OwnWorkStays == Spec => []OwnWorkKept
<1>1. RelayInv => OwnWorkKept
  BY DEF RelayInv, StoreInv, Owned, OwnWorkKept
<1> QED BY <1>1, RelayStands, PTL

\* A batch that is pending is in order for its receiver: whatever precedes an accepted row
\* was accepted, deleted, left behind with its epoch or superseded, and is not pending.
LEMMA PendingInOrder ==
    ASSUME EpochInv, StoreInv, NEW h \in Hops, NEW d \in Dirs, NEW stream, NEW ep \in Nat, ep = grant[h] \/ d = "up",
           NEW boundary \in Nat,
           boundary = 0 \/ (d = "down" /\ stream = "events" /\ superseded[h].epoch = ep
                            /\ superseded[h].through = boundary),
           d = "down" /\ stream = "events" /\ superseded[h].epoch = ep => superseded[h].through <= boundary,
           NEW ids, ids = Pending(out[h][d], stream, ep, boundary)
    PROVE  InOrder(h, d, ids)
<1> DEFINE rows == out[h][d]
           ib == inbox[h][d]
<1>1. /\ LinkOK(d, rows, ib, grant[h], config[h], superseded[h]) /\ rows \in Seq(Row)
      /\ ib \subseteq DOMAIN rows /\ grant[h] \in Nat /\ config[h] \in Nat
  BY Bases, FlowsAt
<1>2. PendingOK(d, rows, ib, grant[h], superseded[h], stream, ep, boundary, ids)
  <2> HIDE DEF rows, ib
  <2>1. ids = Pending(rows, stream, ep, boundary)
    BY DEF rows
  <2> QED BY <1>1, <2>1, PendingIs
<1>3. ids \subseteq Unacked(rows, ep) /\ \A j \in ids : rows[j].stream = stream /\ j > boundary
  BY <1>2 DEF PendingOK
<1>4. \A j \in ids : j \in DOMAIN rows /\ rows[j].epoch = ep /\ rows[j].state # "deleted" /\ j \in Nat
  BY <1>1, <1>3 DEF Unacked, InEpoch
<1>5. ASSUME NEW i \in ids, i \notin ib
      PROVE  ~Passed(d, rows, ib, grant[h], superseded[h], i)
  <2>1. ~(rows[i].epoch < ep)
    BY <1>4
  <2>2. superseded[h].through \in Nat
    BY Bases DEF Record
  <2> QED BY <1>1, <1>3, <1>4, <1>5, <2>1, <2>2 DEF Passed
<1>6. ASSUME NEW i \in ids \ ib
      PROVE  i > Top(Accepted(h, d, rows[i].stream, rows[i].epoch))
  <2> DEFINE S == Accepted(h, d, rows[i].stream, rows[i].epoch)
             j == Top(S)
  <2>1. S \subseteq ib /\ \A k \in S : rows[k].stream = rows[i].stream /\ rows[k].epoch = rows[i].epoch
    BY DEF Accepted
  <2>2. S \in SUBSET DOMAIN rows
    BY <1>1, <2>1
  <2>3. j \in S \cup {0} /\ j \in Nat
    <3> HIDE DEF S, rows
    <3>1. S \in SUBSET Nat /\ IsFiniteSet(S)
      BY <1>1, <2>2, RowIds
    <3> QED BY <3>1, TopIs
  <2> HIDE DEF S, j, rows, ib
  <2>4. i \in Nat /\ i > 0 /\ i \in DOMAIN rows
    BY <1>1, <1>4
  <2>5. CASE j \in S
    <3>1. j \in ib /\ rows[j].stream = rows[i].stream /\ rows[j].epoch = rows[i].epoch
      BY <2>1, <2>5
    <3>2. i # j
      BY <3>1
    <3>3. CASE i < j
      <4>1. Before(rows, i, j)
        BY <3>1, <3>3 DEF Before
      <4>2. Passed(d, rows, ib, grant[h], superseded[h], i)
        BY <1>1, <2>4, <3>1, <4>1 DEF LinkOK, OrderOK
      <4> QED BY <1>5, <4>2
    <3> QED BY <2>3, <2>4, <3>2, <3>3 DEF j, S
  <2> QED BY <2>3, <2>4, <2>5 DEF j, S
<1>7. ASSUME NEW i \in ids \ ib, NEW j \in (Accepted(h, d, rows[i].stream, rows[i].epoch) \cup ids) \ {i}
      PROVE  rows[j].event # rows[i].event
  <2>1. j \in DOMAIN rows /\ rows[j].stream = rows[i].stream /\ rows[j].epoch = rows[i].epoch
        /\ rows[j].state # "deleted"
    <3>1. CASE j \in ids
      BY <1>3, <1>4, <3>1
    <3>2. CASE j \in Accepted(h, d, rows[i].stream, rows[i].epoch)
      <4>1. j \in ib /\ rows[j].stream = rows[i].stream /\ rows[j].epoch = rows[i].epoch
        BY <3>2 DEF Accepted
      <4>2. j \in DOMAIN rows /\ rows[j].state \in Sent
        BY <1>1, <4>1 DEF LinkOK, RowsOK
      <4> QED BY <4>1, <4>2 DEF Sent
    <3> QED BY <3>1, <3>2
  <2>2. i \in DOMAIN rows /\ rows[i].state # "deleted"
    BY <1>4
  <2>3. Same(rows[i], rows[j]) => i = j
    BY <1>1, <2>1, <2>2 DEF LinkOK, RowsOK
  <2> QED BY <2>1, <2>3 DEF Same
<1> QED BY <1>6, <1>7 DEF InOrder

\* What is offered next can be accepted, on every hop, in both directions and for both
\* streams: it is above what the peer accepted of the stream and epoch, under a sequence
\* number of its own, so no turn fails the same way for good.
THEOREM NothingGetsStuck == Spec => []NothingStuck
<1>1. RelayInv => NothingStuck
  <2> SUFFICES ASSUME RelayInv, NEW h \in Hops
               PROVE  /\ InOrder(h, "up", Pending(out[h].up, "events", config[h], 0))
                      /\ \A s \in Streams : InOrder(h, "down", Offered(h, s, grant[h]))
    BY DEF NothingStuck
  <2>1. EpochInv /\ StoreInv
    BY DEF RelayInv
  <2>2. config[h] \in Nat /\ grant[h] \in Nat /\ superseded[h] \in Record /\ "up" \in Dirs /\ "down" \in Dirs
    BY <2>1, Bases
  <2>3. InOrder(h, "up", Pending(out[h].up, "events", config[h], 0))
    BY <2>1, <2>2, PendingInOrder
  <2>4. ASSUME NEW s \in Streams PROVE InOrder(h, "down", Offered(h, s, grant[h]))
    <3>1. PICK b : b = Boundary(h, "down", s, grant[h], grant[h])
      OBVIOUS
    <3>2. PICK ids : ids = Offered(h, s, grant[h])
      OBVIOUS
    <3>3. ids = Pending(out[h]["down"], s, grant[h], b)
      BY <3>1, <3>2 DEF Offered, Carried, BoundaryAt
    <3>4. superseded[h].through \in Nat
      BY <2>2 DEF Record
    <3>5. b = IF s = "receipts" \/ superseded[h].epoch # grant[h] THEN 0 ELSE superseded[h].through
      BY <3>1 DEF Boundary
    <3>6. /\ b \in Nat
          /\ b = 0 \/ (s = "events" /\ superseded[h].epoch = grant[h] /\ superseded[h].through = b)
          /\ s = "events" /\ superseded[h].epoch = grant[h] => superseded[h].through <= b
      BY <3>4, <3>5 DEF Streams
    <3>7. InOrder(h, "down", ids)
      BY <2>1, <2>2, <3>3, <3>6, PendingInOrder
    <3> QED BY <3>2, <3>7
  <2> QED BY <2>3, <2>4
<1> QED BY <1>1, RelayStands, PTL

=============================================================================
