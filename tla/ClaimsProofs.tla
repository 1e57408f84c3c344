---------------------------- MODULE ClaimsProofs ----------------------------
(***************************************************************************)
(* The hub's side of Claims for every set of principals, spokes and calls, *)
(* whatever is retried, lost, reordered or committed out of clock order:   *)
(* types, one live lease, and that the hub implements the abstract Lease.  *)
(* The spokes' side follows.                                               *)
(***************************************************************************)
EXTENDS Claims, TLAPS

\* Ids follow insertion, and only the newest row can be in force.
RowsOK == \A i \in 1..Len(claims) : /\ claims[i].uid = i
                                    /\ claims[i].live => i = Len(claims)

\* An answer that speaks of a claim carries it.
Carries(a) == a \in Answer /\ (a.granted \/ a.held => a.claim \in Claim)

\* A call works with a clock reading of the past; its answer carries its claim.
CallsOK ==
    \A c \in Calls : calls[c] # Nothing =>
        /\ calls[c].at <= now
        /\ calls[c].phase = "answered" => Carries(calls[c].answer)

IInv == TypeOK /\ RowsOK /\ CallsOK

---------------------------------------------------------------------------
(* Rows                                                                    *)

LEMMA LastRow ==
    ASSUME NEW rows \in Seq(Claim), HasLive(rows)
    PROVE  /\ Len(rows) \in Nat /\ Len(rows) > 0
           /\ Last(rows) \in Claim /\ Last(rows).live
BY DEF HasLive, Last

LEMMA EndedRow ==
    ASSUME NEW row \in Claim, NEW t \in Nat
    PROVE  /\ Ended(row, t) \in Claim /\ ~Ended(row, t).live
           /\ Ended(row, t).uid = row.uid
BY DEF Ended, Claim

LEMMA SetLastRow ==
    ASSUME NEW rows \in Seq(Claim), HasLive(rows), NEW row \in Claim
    PROVE  /\ SetLast(rows, row) \in Seq(Claim)
           /\ Len(SetLast(rows, row)) = Len(rows)
           /\ Last(SetLast(rows, row)) = row
           /\ \A i \in 1..Len(rows) :
                SetLast(rows, row)[i] = IF i = Len(rows) THEN row ELSE rows[i]
BY LastRow DEF SetLast, HasLive, Last

\* Expire ends the newest row when it is due and leaves the rows alone otherwise.
LEMMA ExpireRows ==
    ASSUME NEW rows \in Seq(Claim), NEW t \in Nat
    PROVE  /\ Expire(rows, t) \in Seq(Claim)
           /\ Len(Expire(rows, t)) = Len(rows)
           /\ HasLive(Expire(rows, t)) => Expire(rows, t) = rows
           /\ Expire(rows, t) # rows =>
                /\ HasLive(rows) /\ DueAt(Last(rows), t) /\ ~HasLive(Expire(rows, t))
                /\ Expire(rows, t) = SetLast(rows, Ended(Last(rows), t))
<1>1. CASE HasLive(rows) /\ DueAt(Last(rows), t)
  <2>1. /\ Last(rows) \in Claim /\ Ended(Last(rows), t) \in Claim
        /\ ~Ended(Last(rows), t).live
    BY <1>1, LastRow, EndedRow
  <2>2. Expire(rows, t) = SetLast(rows, Ended(Last(rows), t))
    BY <1>1 DEF Expire
  <2>3. /\ Expire(rows, t) \in Seq(Claim) /\ Len(Expire(rows, t)) = Len(rows)
        /\ Last(Expire(rows, t)) = Ended(Last(rows), t)
    BY <1>1, <2>1, <2>2, SetLastRow
  <2>4. ~HasLive(Expire(rows, t))
    BY <2>1, <2>3 DEF HasLive, Last
  <2> QED
    BY <1>1, <2>2, <2>3, <2>4
<1>2. CASE ~(HasLive(rows) /\ DueAt(Last(rows), t))
  BY <1>2 DEF Expire
<1> QED
  BY <1>1, <1>2

\* Rows stay in id order, one in force, through every edit a transaction makes.
Ordered(rows) == \A i \in 1..Len(rows) : /\ rows[i].uid = i
                                         /\ rows[i].live => i = Len(rows)

LEMMA SetLastOrdered ==
    ASSUME NEW rows \in Seq(Claim), Ordered(rows), HasLive(rows),
           NEW row \in Claim, row.uid = Last(rows).uid
    PROVE  Ordered(SetLast(rows, row))
BY LastRow, SetLastRow DEF Ordered, Last

LEMMA ExpireOrdered ==
    ASSUME NEW rows \in Seq(Claim), Ordered(rows), NEW t \in Nat
    PROVE  Ordered(Expire(rows, t))
<1>1. CASE Expire(rows, t) = rows
  BY <1>1
<1>2. CASE Expire(rows, t) # rows
  <2>1. /\ HasLive(rows) /\ Last(rows) \in Claim
        /\ Expire(rows, t) = SetLast(rows, Ended(Last(rows), t))
    BY <1>2, ExpireRows, LastRow
  <2> QED
    BY <2>1, EndedRow, SetLastOrdered
<1> QED
  BY <1>1, <1>2

LEMMA AppendOrdered ==
    ASSUME NEW rows \in Seq(Claim), Ordered(rows), ~HasLive(rows),
           NEW row \in Claim, row.uid = Len(rows) + 1
    PROVE  /\ Append(rows, row) \in Seq(Claim) /\ Ordered(Append(rows, row))
           /\ Len(Append(rows, row)) = Len(rows) + 1
           /\ Last(Append(rows, row)) = row
BY DEF Ordered, HasLive, Last

LEMMA NewClaimRow ==
    ASSUME NEW rows \in Seq(Claim), NEW p \in Principals, NEW k \in {"hard", "timed"},
           NEW t \in Nat
    PROVE  /\ NewClaim(rows, p, k, t) \in Claim
           /\ NewClaim(rows, p, k, t).uid = Len(rows) + 1
           /\ NewClaim(rows, p, k, t).live
           /\ NewClaim(rows, p, k, t).kind = k /\ NewClaim(rows, p, k, t).holder = p
<1>1. t + TTL \in Nat
  BY BoundsAssumption
<1> QED
  BY <1>1 DEF NewClaim, Claim

---------------------------------------------------------------------------
(* Calls                                                                   *)

\* A call in flight is well formed and stamped in the past.
LEMMA CallInFlight ==
    ASSUME IInv, NEW c \in Calls, calls[c] # Nothing
    PROVE  /\ calls[c] \in Call /\ calls[c].who \in Principals
           /\ calls[c].kind \in {"hard", "timed"}
           /\ calls[c].at \in Nat /\ calls[c].at <= now
           /\ Stamp(c) \in Nat /\ Stamp(c) <= now
BY DEF IInv, TypeOK, CallsOK, Call, Stamp

LEMMA RunsInFlight ==
    ASSUME NEW c \in Calls, NEW ops, Runs(c, ops)
    PROVE  calls[c] # Nothing
BY DEF Runs, Phase, Idle

LEMMA SaysCarries ==
    ASSUME NEW g \in BOOLEAN, NEW h \in BOOLEAN, NEW claim \in Claim \cup {Nothing},
           g \/ h => claim \in Claim, NEW t \in Nat
    PROVE  Carries(Says(g, h, claim, t))
BY DEF Says, Carries, Answer

\* A transaction that leaves well-formed rows and a well-formed answer keeps IInv.
LEMMA CommitKeeps ==
    ASSUME IInv, NEW c \in Calls, calls[c] # Nothing,
           NEW rows \in Seq(Claim), Ordered(rows),
           NEW answer, answer = Nothing \/ Carries(answer),
           Commit(c, rows, answer)
    PROVE  IInv'
<1>1. claims' \in Seq(Claim) /\ RowsOK'
  BY DEF Commit, RowsOK, Ordered
<1>2. version' \in Nat /\ now' \in Nat /\ now <= now'
  BY DEF IInv, TypeOK, Commit
<1>3. UNCHANGED <<cache, seen, pending, sends, faults>>
  BY DEF Commit, spokeVars
<1>4. CASE calls' = Free(c)
  BY <1>1, <1>2, <1>3, <1>4 DEF IInv, TypeOK, CallsOK, Free, Call
<1>5. CASE calls' # Free(c)
  <2> DEFINE full == [answer EXCEPT !.version = version']
  <2>1. Carries(answer) /\ calls' = [calls EXCEPT ![c].phase = "answered", ![c].answer = full]
    BY <1>5 DEF Commit
  <2>2. Carries(full)
    BY <2>1, <1>2 DEF Carries, Answer
  <2> HIDE DEF full
  <2>3. calls[c] \in Call /\ calls[c].at <= now
    BY CallInFlight
  <2> DEFINE call == [[calls[c] EXCEPT !.phase = "answered"] EXCEPT !.answer = full]
  <2>4. call \in Call /\ call.at = calls[c].at /\ call.answer = full
    BY <2>2, <2>3 DEF Call, Carries
  <2>5. calls' = [calls EXCEPT ![c] = call]
    BY <2>1, <2>3 DEF IInv, TypeOK, Call
  <2> HIDE DEF call
  <2>6. calls' \in [Calls -> Call \cup {Nothing}]
    BY <2>4, <2>5 DEF IInv, TypeOK
  <2>7. CallsOK'
    BY <2>2, <2>3, <2>4, <2>5, <1>2 DEF IInv, TypeOK, CallsOK, Call
  <2> QED
    BY <1>1, <1>2, <1>3, <2>6, <2>7 DEF IInv, TypeOK
<1> QED
  BY <1>4, <1>5

---------------------------------------------------------------------------
(* The hub's transactions keep the invariant                               *)

LEMMA RowsNow ==
    ASSUME IInv, NEW t \in Nat
    PROVE  /\ claims \in Seq(Claim) /\ Ordered(claims)
           /\ Expire(claims, t) \in Seq(Claim) /\ Ordered(Expire(claims, t))
<1>1. claims \in Seq(Claim) /\ Ordered(claims)
  BY DEF IInv, TypeOK, RowsOK, Ordered
<1> QED
  BY <1>1, ExpireRows, ExpireOrdered

LEMMA RenewedRow ==
    ASSUME NEW row \in Claim, NEW t \in Nat
    PROVE  /\ Renewed(row, t) \in Claim
           /\ Renewed(row, t).uid = row.uid /\ Renewed(row, t).holder = row.holder
           /\ Renewed(row, t).kind = row.kind /\ Renewed(row, t).live
           /\ Renewed(row, t).expires = t + TTL
<1>1. t + TTL \in Nat
  BY BoundsAssumption
<1> QED
  BY <1>1 DEF Renewed, Claim

LEMMA HubKeeps ==
    ASSUME IInv, NEW c \in Calls, HubRun(c)
    PROVE  IInv'
<1> DEFINE t == Stamp(c)
           rows == Expire(claims, t)
<1>1. calls[c] # Nothing
  BY RunsInFlight DEF HubRun, AcquireNew, AcquireHeld, Renew, Release, Status, Lapse, Refuse
<1>2. t \in Nat /\ calls[c].who \in Principals /\ calls[c].kind \in {"hard", "timed"}
  BY <1>1, CallInFlight
<1>3. /\ claims \in Seq(Claim) /\ Ordered(claims)
      /\ rows \in Seq(Claim) /\ Ordered(rows) /\ Len(rows) = Len(claims)
      /\ HasLive(rows) => rows = claims
  BY <1>2, RowsNow, ExpireRows
<1>4. CASE AcquireNew(c)
  <2> DEFINE new == NewClaim(rows, calls[c].who, calls[c].kind, t)
  <2>1. ~HasLive(rows) /\ Commit(c, Append(rows, new), Says(TRUE, TRUE, new, t))
    BY <1>4 DEF AcquireNew
  <2>2. new \in Claim /\ new.uid = Len(rows) + 1
    BY <1>2, <1>3, NewClaimRow
  <2> HIDE DEF new, rows, t
  <2>3. Append(rows, new) \in Seq(Claim) /\ Ordered(Append(rows, new))
    BY <1>3, <2>1, <2>2, AppendOrdered
  <2>4. Carries(Says(TRUE, TRUE, new, t))
    BY <1>2, <2>2, SaysCarries
  <2> QED
    BY <1>1, <2>1, <2>3, <2>4, CommitKeeps
<1>5. CASE AcquireHeld(c)
  <2> DEFINE held == Says(Mine(c, Last(claims)), TRUE, Last(claims), Last(claims).updated)
  <2>1. HasLive(claims) /\ Commit(c, claims, held)
    BY <1>3, <1>5 DEF AcquireHeld
  <2>2. Last(claims) \in Claim /\ Last(claims).updated \in Nat
    BY <1>3, <2>1, LastRow DEF Claim
  <2>3. Mine(c, Last(claims)) \in BOOLEAN
    BY DEF Mine
  <2>4. Carries(held)
    BY <2>2, <2>3, SaysCarries
  <2> HIDE DEF held
  <2> QED
    BY <1>1, <1>3, <2>1, <2>4, CommitKeeps
<1>6. CASE Renew(c)
  <2> DEFINE row == Renewed(Last(claims), t)
  <2>1. /\ HasLive(claims)
        /\ Commit(c, SetLast(claims, row), Says(TRUE, TRUE, row, t))
    BY <1>3, <1>6 DEF Renew
  <2>2. row \in Claim /\ row.uid = Last(claims).uid
    BY <1>2, <1>3, <2>1, LastRow, RenewedRow
  <2> HIDE DEF row, t
  <2>3. SetLast(claims, row) \in Seq(Claim) /\ Ordered(SetLast(claims, row))
    BY <1>3, <2>1, <2>2, SetLastRow, SetLastOrdered
  <2>4. Carries(Says(TRUE, TRUE, row, t))
    BY <1>2, <2>2, SaysCarries
  <2> QED
    BY <1>1, <2>1, <2>3, <2>4, CommitKeeps
<1>7. CASE Release(c)
  <2> DEFINE row == Ended(Last(claims), t)
  <2>1. /\ HasLive(claims)
        /\ Commit(c, SetLast(claims, row), Says(TRUE, FALSE, row, t))
    BY <1>3, <1>7 DEF Release
  <2>2. row \in Claim /\ row.uid = Last(claims).uid
    BY <1>2, <1>3, <2>1, LastRow, EndedRow
  <2> HIDE DEF row, t
  <2>3. SetLast(claims, row) \in Seq(Claim) /\ Ordered(SetLast(claims, row))
    BY <1>3, <2>1, <2>2, SetLastRow, SetLastOrdered
  <2>4. Carries(Says(TRUE, FALSE, row, t))
    BY <1>2, <2>2, SaysCarries
  <2> QED
    BY <1>1, <2>1, <2>3, <2>4, CommitKeeps
<1>8. CASE Status(c)
  <2> DEFINE held == HasLive(rows)
             claim == IF HasLive(rows) THEN Last(rows) ELSE Nothing
  <2>1. Commit(c, rows, Says(FALSE, held, claim, t))
    BY <1>8 DEF Status
  <2>2. /\ held \in BOOLEAN /\ claim \in Claim \cup {Nothing}
        /\ held => claim \in Claim
    BY <1>3, LastRow DEF HasLive
  <2> HIDE DEF held, claim, rows, t
  <2>3. Carries(Says(FALSE, held, claim, t))
    BY <1>2, <2>2, SaysCarries
  <2> QED
    BY <1>1, <1>3, <2>1, <2>3, CommitKeeps
<1>9. CASE Lapse(c)
  BY <1>1, <1>3, <1>9, CommitKeeps DEF Lapse
<1>10. CASE Refuse(c)
  BY <1>1, <1>3, <1>10, CommitKeeps DEF Refuse
<1> QED
  BY <1>4, <1>5, <1>6, <1>7, <1>8, <1>9, <1>10 DEF HubRun

LEMMA CloseKeeps ==
    ASSUME IInv, CloseIssue
    PROVE  IInv'
<1>1. HasLive(claims) /\ claims' = SetLast(claims, Ended(Last(claims), now)) /\ now \in Nat
  BY DEF CloseIssue, IInv, TypeOK
<1>2. claims \in Seq(Claim) /\ Ordered(claims)
  BY <1>1, RowsNow
<1>3. claims' \in Seq(Claim) /\ RowsOK'
  <2>1. Ended(Last(claims), now) \in Claim /\ Ended(Last(claims), now).uid = Last(claims).uid
    BY <1>1, <1>2, LastRow, EndedRow
  <2> QED
    BY <1>1, <1>2, <2>1, SetLastRow, SetLastOrdered DEF RowsOK, Ordered
<1>4. /\ version' \in Nat /\ now' \in Nat /\ now <= now' /\ sends' \in Nat
      /\ UNCHANGED <<calls, cache, seen, pending, faults>>
  BY DEF CloseIssue, IInv, TypeOK, spokeVars
<1>5. CallsOK'
  BY <1>4 DEF IInv, TypeOK, CallsOK, Call, Carries
<1> QED
  BY <1>3, <1>4, <1>5 DEF IInv, TypeOK

---------------------------------------------------------------------------
(* The rest keeps it too                                                   *)

LEMMA PlaceKeeps ==
    ASSUME IInv, NEW c \in Calls, NEW p \in Principals, NEW k \in {"hard", "timed"},
           NEW op \in {"acquire", "renew", "release", "status", "force", "sweep", "gate", "retry"},
           Place(c, op, p, k)
    PROVE  /\ calls' \in [Calls -> Call \cup {Nothing}]
           /\ \A d \in Calls : calls'[d] # Nothing =>
                /\ calls'[d].at <= now
                /\ calls'[d].phase = "answered" => Carries(calls'[d].answer)
<1> DEFINE call == [op |-> op, who |-> p, kind |-> k, at |-> Reading, answer |-> Nothing,
                    phase |-> IF Home[p] = Hub THEN "queued" ELSE "sent"]
<1>1. Reading \in Nat /\ Reading <= now
  BY DEF Reading, IInv, TypeOK
<1>2. call \in Call /\ call.at <= now /\ call.phase # "answered"
  BY <1>1 DEF Call
<1>3. calls' = [calls EXCEPT ![c] = call]
  BY DEF Place
<1> HIDE DEF call
<1> QED
  BY <1>2, <1>3 DEF IInv, TypeOK, CallsOK

LEMMA SendKeeps ==
    ASSUME IInv, NEW c \in Calls, Send(c)
    PROVE  IInv'
<1>1. PICK p \in Principals : \E op \in OpsOf(p) :
        \E k \in IF op = "acquire" THEN Kinds[p] ELSE {"hard"} : Place(c, op, p, k)
  BY DEF Send
<1>2. PICK op \in OpsOf(p), k \in {"hard", "timed"} : Place(c, op, p, k)
  BY <1>1, KindsAssumption
<1>3. op \in {"acquire", "renew", "release", "status", "force", "sweep", "gate", "retry"}
  BY DEF OpsOf
<1>4. /\ sends' \in Nat
      /\ UNCHANGED <<now, claims, version, cache, seen, pending, faults>>
  BY DEF Send, IInv, TypeOK, hubVars, spokeVars
<1>5. /\ calls' \in [Calls -> Call \cup {Nothing}]
      /\ CallsOK'
  BY <1>2, <1>3, <1>4, PlaceKeeps DEF CallsOK, Carries
<1> QED
  BY <1>4, <1>5 DEF IInv, TypeOK, RowsOK

LEMMA RetryKeeps ==
    ASSUME IInv, NEW s \in Spokes, NEW c \in Calls, Retry(s, c)
    PROVE  IInv'
<1>1. PICK q \in pending[s] : Place(c, "retry", q.who, q.kind)
  BY DEF Retry
<1>2. q.who \in Principals /\ q.kind \in {"hard", "timed"}
  BY DEF IInv, TypeOK, Request
<1>3. UNCHANGED <<now, claims, version, cache, seen, pending, sends, faults>>
  BY DEF Retry, hubVars, spokeVars
<1>4. /\ calls' \in [Calls -> Call \cup {Nothing}]
      /\ CallsOK'
  BY <1>1, <1>2, <1>3, PlaceKeeps DEF CallsOK, Carries
<1> QED
  BY <1>3, <1>4 DEF IInv, TypeOK, RowsOK

\* Reaching the hub, going on to the check and being given up change only the call.
LEMMA PhaseKeeps ==
    ASSUME IInv, NEW c \in Calls, calls[c] # Nothing,
           NEW call \in Call, call.at <= now, call.phase # "answered",
           calls' = [calls EXCEPT ![c] = call], now' = now
    PROVE  (calls' \in [Calls -> Call \cup {Nothing}]) /\ CallsOK'
BY DEF IInv, TypeOK, CallsOK, Carries

LEMMA FreeKeeps ==
    ASSUME IInv, NEW c \in Calls, calls' = Free(c), now' = now
    PROVE  (calls' \in [Calls -> Call \cup {Nothing}]) /\ CallsOK'
BY DEF IInv, TypeOK, CallsOK, Carries, Free

LEMMA ArriveKeeps ==
    ASSUME IInv, NEW c \in Calls, Arrive(c)
    PROVE  IInv'
<1>1. calls[c] # Nothing
  BY DEF Arrive, Phase, Idle
<1>2. Reading \in Nat /\ Reading <= now /\ calls[c] \in Call
  BY <1>1, CallInFlight DEF Reading, IInv, TypeOK
<1> DEFINE call == [[calls[c] EXCEPT !.phase = "queued"] EXCEPT !.at = Reading]
<1>3. call \in Call /\ call.at <= now /\ call.phase # "answered"
  BY <1>2 DEF Call
<1>4. calls' = [calls EXCEPT ![c] = call]
  BY <1>2 DEF Arrive, IInv, TypeOK, Call
<1>5. UNCHANGED <<now, claims, version, cache, seen, pending, sends, faults>>
  BY DEF Arrive, hubVars, spokeVars
<1> HIDE DEF call
<1>6. calls' \in [Calls -> Call \cup {Nothing}] /\ CallsOK'
  BY <1>1, <1>3, <1>4, <1>5, PhaseKeeps
<1> QED
  BY <1>5, <1>6 DEF IInv, TypeOK, RowsOK

\* The cache holds claims only, whatever answer it takes.
LEMMA TakeKeeps ==
    ASSUME IInv, NEW s, NEW answer, Carries(answer), Take(s, answer)
    PROVE  cache' \in [Spokes -> SUBSET Claim] /\ seen' \in [Spokes -> Nat]
<1>1. CASE s \in Spokes
  <2>1. cache[s] \in SUBSET Claim /\ LiveRows(s) \subseteq cache[s]
    BY <1>1 DEF IInv, TypeOK, LiveRows
  <2>2. answer.hubNow \in Nat /\ answer.version \in Nat
        /\ (answer.held => answer.claim \in Claim)
    BY DEF Carries, Answer
  <2>3. \A row \in LiveRows(s) : Ended(row, answer.hubNow) \in Claim
    BY <2>1, <2>2, EndedRow
  <2>4. Applied(s, answer) \in SUBSET Claim
    <3> DEFINE ended == {Ended(row, answer.hubNow) : row \in LiveRows(s)}
               past == cache[s] \ LiveRows(s)
    <3>1. ended \in SUBSET Claim /\ past \in SUBSET Claim
      BY <2>1, <2>3
    <3>2. \/ Applied(s, answer) \in {cache[s], past \cup ended}
          \/ /\ answer.held
             /\ Applied(s, answer) \in {past \cup {answer.claim}, past \cup ended \cup {answer.claim}}
      BY DEF Applied
    <3> HIDE DEF ended, past
    <3> QED
      BY <2>1, <2>2, <3>1, <3>2
  <2> QED
    BY <2>2, <2>4 DEF Take, IInv, TypeOK
<1>2. CASE s \notin Spokes
  BY <1>2 DEF Take, IInv, TypeOK
<1> QED
  BY <1>1, <1>2

LEMMA AnsweredCall ==
    ASSUME IInv, NEW c \in Calls, Phase(c) = "answered"
    PROVE  calls[c] # Nothing /\ calls[c] \in Call /\ Carries(calls[c].answer)
BY DEF Phase, Idle, IInv, TypeOK, CallsOK

LEMMA DeliverKeeps ==
    ASSUME IInv, NEW c \in Calls, Deliver(c)
    PROVE  IInv'
<1>1. /\ Take(Spoke(c), calls[c].answer) /\ calls' = Free(c)
      /\ UNCHANGED <<now, claims, version, pending, sends, faults>>
  BY DEF Deliver, hubVars
<1>2. Carries(calls[c].answer)
  BY AnsweredCall DEF Deliver
<1>3. cache' \in [Spokes -> SUBSET Claim] /\ seen' \in [Spokes -> Nat]
  BY <1>1, <1>2, TakeKeeps
<1>4. calls' \in [Calls -> Call \cup {Nothing}] /\ CallsOK'
  BY <1>1, FreeKeeps
<1> QED
  BY <1>1, <1>3, <1>4 DEF IInv, TypeOK, RowsOK

LEMMA ResolveKeeps ==
    ASSUME IInv, NEW c \in Calls, Resolve(c)
    PROVE  IInv'
<1>1. /\ calls' = Free(c)
      /\ UNCHANGED <<now, claims, version, sends, faults>>
  BY DEF Resolve, hubVars
<1>2. Carries(calls[c].answer)
  BY AnsweredCall DEF Resolve
<1>3. /\ cache' \in [Spokes -> SUBSET Claim] /\ seen' \in [Spokes -> Nat]
      /\ pending' \in [Spokes -> SUBSET Request]
  <2>1. CASE UNCHANGED spokeVars
    BY <2>1 DEF spokeVars, IInv, TypeOK
  <2>2. CASE ~UNCHANGED spokeVars
    <3>1. /\ Take(Spoke(c), calls[c].answer)
          /\ pending' = [pending EXCEPT ![Spoke(c)] =
                           @ \ {[who |-> calls[c].who, kind |-> calls[c].kind]}]
      BY <2>2 DEF Resolve
    <3> QED
      BY <1>2, <3>1, TakeKeeps DEF IInv, TypeOK
  <2> QED
    BY <2>1, <2>2
<1>4. calls' \in [Calls -> Call \cup {Nothing}] /\ CallsOK'
  BY <1>1, FreeKeeps
<1> QED
  BY <1>1, <1>3, <1>4 DEF IInv, TypeOK, RowsOK

LEMMA RejectKeeps ==
    ASSUME IInv, NEW c \in Calls, Reject(c)
    PROVE  IInv'
<1>1. /\ calls' = Free(c)
      /\ UNCHANGED <<now, claims, version, cache, seen, sends, faults>>
  BY DEF Reject, hubVars
<1>2. pending' \in [Spokes -> SUBSET Request]
  BY DEF Reject, IInv, TypeOK
<1>3. calls' \in [Calls -> Call \cup {Nothing}] /\ CallsOK'
  BY <1>1, FreeKeeps
<1> QED
  BY <1>1, <1>2, <1>3 DEF IInv, TypeOK, RowsOK

\* The edit's check goes on, with the answer or with none.
LEMMA CheckingCall ==
    ASSUME NEW call \in Call
    PROVE  /\ [call EXCEPT !.phase = "checking"] \in Call
           /\ [call EXCEPT !.phase = "checking"].phase = "checking"
           /\ [call EXCEPT !.phase = "checking"].at = call.at
           /\ [[call EXCEPT !.phase = "checking"] EXCEPT !.answer = Nothing] \in Call
           /\ [[call EXCEPT !.phase = "checking"] EXCEPT !.answer = Nothing].phase = "checking"
           /\ [[call EXCEPT !.phase = "checking"] EXCEPT !.answer = Nothing].at = call.at
BY DEF Call

LEMMA DeliverGateKeeps ==
    ASSUME IInv, NEW c \in Calls, DeliverGate(c)
    PROVE  IInv'
<1>1. /\ Take(Spoke(c), calls[c].answer)
      /\ UNCHANGED <<now, claims, version, pending, sends, faults>>
  BY DEF DeliverGate, hubVars
<1>2. Carries(calls[c].answer) /\ calls[c] # Nothing /\ calls[c] \in Call /\ calls[c].at <= now
  BY AnsweredCall, CallInFlight DEF DeliverGate
<1>3. cache' \in [Spokes -> SUBSET Claim] /\ seen' \in [Spokes -> Nat]
  BY <1>1, <1>2, TakeKeeps
<1>4. calls' \in [Calls -> Call \cup {Nothing}] /\ CallsOK'
  <2>1. CASE calls' = Free(c)
    BY <1>1, <2>1, FreeKeeps
  <2>2. CASE calls' # Free(c)
    <3> DEFINE call == [calls[c] EXCEPT !.phase = "checking"]
    <3>1. calls' = [calls EXCEPT ![c] = call]
      BY <2>2 DEF DeliverGate, IInv, TypeOK
    <3>2. call \in Call /\ call.at <= now /\ call.phase # "answered"
      BY <1>2, CheckingCall
    <3> HIDE DEF call
    <3> QED
      BY <1>1, <1>2, <3>1, <3>2, PhaseKeeps
  <2> QED
    BY <2>1, <2>2
<1> QED
  BY <1>1, <1>3, <1>4 DEF IInv, TypeOK, RowsOK

LEMMA CheckKeeps ==
    ASSUME IInv, NEW c \in Calls, Admit(c) \/ Deny(c)
    PROVE  IInv'
<1>1. /\ calls' = Free(c)
      /\ UNCHANGED <<now, claims, version, cache, seen, pending, sends, faults>>
  BY DEF Admit, Deny, hubVars, spokeVars
<1>2. calls' \in [Calls -> Call \cup {Nothing}] /\ CallsOK'
  BY <1>1, FreeKeeps
<1> QED
  BY <1>1, <1>2 DEF IInv, TypeOK, RowsOK

LEMMA GivesUpKeeps ==
    ASSUME IInv, NEW c \in Calls, calls[c] # Nothing, GivesUp(c),
           calls' \in [Calls -> Call \cup {Nothing}], CallsOK'
    PROVE  IInv'
<1>1. /\ faults' \in Nat
      /\ UNCHANGED <<now, claims, version, cache, seen, sends>>
  BY DEF GivesUp, hubVars, IInv, TypeOK
<1>2. [who |-> calls[c].who, kind |-> calls[c].kind] \in Request
  BY CallInFlight DEF Request
<1>3. pending' \in [Spokes -> SUBSET Request]
  BY <1>2 DEF GivesUp, Enqueue, IInv, TypeOK
<1> QED
  BY <1>1, <1>3 DEF IInv, TypeOK, RowsOK

LEMMA LoseKeeps ==
    ASSUME IInv, NEW c \in Calls, Lose(c)
    PROVE  IInv'
<1>1. calls[c] # Nothing /\ GivesUp(c) /\ now' = now
  BY DEF Lose, Phase, Idle, GivesUp
<1>2. calls[c] \in Call /\ calls[c].at <= now
  BY <1>1, CallInFlight
<1>3. calls' \in [Calls -> Call \cup {Nothing}] /\ CallsOK'
  <2>1. CASE calls[c].op # "gate"
    BY <1>1, <2>1, FreeKeeps DEF Lose
  <2>2. CASE calls[c].op = "gate"
    <3> DEFINE call == [[calls[c] EXCEPT !.phase = "checking"] EXCEPT !.answer = Nothing]
    <3>1. calls' = [calls EXCEPT ![c] = call]
      BY <1>2, <2>2 DEF Lose, IInv, TypeOK, Call
    <3>2. call \in Call /\ call.at <= now /\ call.phase # "answered"
      BY <1>2, CheckingCall
    <3> HIDE DEF call
    <3> QED
      BY <1>1, <3>1, <3>2, PhaseKeeps
  <2> QED
    BY <2>1, <2>2
<1> QED
  BY <1>1, <1>3, GivesUpKeeps

LEMMA AbandonKeeps ==
    ASSUME IInv, NEW c \in Calls, Abandon(c)
    PROVE  IInv'
<1>1. calls[c] # Nothing /\ GivesUp(c) /\ now' = now
  BY DEF Abandon, Phase, Idle, GivesUp
<1>2. calls[c] \in Call /\ calls[c].at <= now
  BY <1>1, CallInFlight
<1> DEFINE call == [calls[c] EXCEPT !.phase = "orphan"]
<1>3. calls' = [calls EXCEPT ![c] = call]
  BY DEF Abandon, IInv, TypeOK
<1>4. call \in Call /\ call.at <= now /\ call.phase # "answered"
  BY <1>2 DEF Call
<1> HIDE DEF call
<1>5. calls' \in [Calls -> Call \cup {Nothing}] /\ CallsOK'
  BY <1>1, <1>3, <1>4, PhaseKeeps
<1> QED
  BY <1>1, <1>5, GivesUpKeeps

LEMMA ExpireCachedKeeps ==
    ASSUME IInv, NEW s \in Spokes, ExpireCached(s)
    PROVE  IInv'
<1>1. UNCHANGED <<now, claims, version, calls, seen, pending, sends, faults>>
  BY DEF ExpireCached, hubVars
<1>2. PICK row \in LiveRows(s) :
        cache' = [cache EXCEPT ![s] = (@ \ {row}) \cup {Ended(row, now)}]
  BY DEF ExpireCached
<1>3. row \in Claim /\ now \in Nat
  BY DEF LiveRows, IInv, TypeOK
<1>4. cache' \in [Spokes -> SUBSET Claim]
  BY <1>2, <1>3, EndedRow DEF IInv, TypeOK
<1> QED
  BY <1>1, <1>4 DEF IInv, TypeOK, RowsOK, CallsOK, Carries

LEMMA TickKeeps ==
    ASSUME IInv, Tick
    PROVE  IInv'
<1>1. /\ now' \in Nat /\ now <= now'
      /\ UNCHANGED <<claims, version, calls, cache, seen, pending, sends, faults>>
  BY DEF Tick, hubVars, spokeVars, IInv, TypeOK
<1>2. CallsOK'
  BY <1>1 DEF IInv, TypeOK, CallsOK, Call, Carries
<1> QED
  BY <1>1, <1>2 DEF IInv, TypeOK, RowsOK

---------------------------------------------------------------------------
(* The theorems                                                            *)

LEMMA StartsWell == Init => IInv
BY DEF Init, IInv, TypeOK, RowsOK, CallsOK

LEMMA StepKeeps == IInv /\ [Next]_vars => IInv'
<1> SUFFICES ASSUME IInv, [Next]_vars PROVE IInv'
  OBVIOUS
<1>1. CASE UNCHANGED vars
  BY <1>1 DEF vars, hubVars, spokeVars, IInv, TypeOK, RowsOK, CallsOK, Carries
<1>2. CASE Tick
  BY <1>2, TickKeeps
<1>3. CASE CloseIssue
  BY <1>3, CloseKeeps
<1>4. ASSUME NEW c \in Calls,
             Send(c) \/ Arrive(c) \/ HubRun(c) \/ SpokeTakes(c) \/ Lose(c) \/ Abandon(c)
      PROVE  IInv'
  <2>1. CASE Send(c) \/ Arrive(c) \/ HubRun(c)
    BY <2>1, SendKeeps, ArriveKeeps, HubKeeps
  <2>2. CASE SpokeTakes(c)
    BY <2>2, DeliverKeeps, ResolveKeeps, RejectKeeps, DeliverGateKeeps, CheckKeeps DEF SpokeTakes
  <2>3. CASE Lose(c) \/ Abandon(c)
    BY <2>3, LoseKeeps, AbandonKeeps
  <2> QED
    BY <1>4, <2>1, <2>2, <2>3
<1>5. ASSUME NEW s \in Spokes, Turn(s) \/ ExpireCached(s)
      PROVE  IInv'
  BY <1>5, RetryKeeps, ExpireCachedKeeps DEF Turn
<1> QED
  BY <1>1, <1>2, <1>3, <1>4, <1>5 DEF Next

\* The inductive invariant holds in every reachable state.
THEOREM Invariance == Spec => []IInv
BY StartsWell, StepKeeps, PTL DEF Spec

\* Every row, answer, call and request is well formed (the records that
\* AcquireClaim, ClaimStatus and the pending requests build).
THEOREM TypeCorrect == Spec => []TypeOK
<1>1. IInv => TypeOK
  BY DEF IInv
<1> QED
  BY <1>1, Invariance, PTL

\* At most one lease of an issue is in force at the hub, the newest, for any number
\* of users, spokes and calls, lost, retried, late or out of clock order.
THEOREM AtMostOneLease == Spec => []OneLiveLease
<1>1. IInv => OneLiveLease
  BY DEF IInv, TypeOK, RowsOK, OneLiveLease
<1> QED
  BY <1>1, Invariance, PTL

---------------------------------------------------------------------------
(* The hub implements Lease                                                *)

Terms(row) == [serial |-> row.uid, holder |-> row.holder, kind |-> row.kind,
               expires |-> row.expires]

LEMMA TermsOfRow ==
    ASSUME NEW row \in Claim
    PROVE  Terms(row) \in Promise!Leases /\ Terms(row) # Nothing
<1>1. Terms(row) \in Promise!Leases
  BY DEF Terms, Claim, Promise!Leases
<1> QED
  BY <1>1, NothingAssumption DEF Promise!Leases

\* The lease in force is the terms of the newest row, or none.
LEMMA InForce ==
    ASSUME claims \in Seq(Claim)
    PROVE  /\ HasLive(claims) => LeaseInForce = Terms(Last(claims)) /\ LeaseInForce # Nothing
           /\ ~HasLive(claims) => LeaseInForce = Nothing
BY LastRow, TermsOfRow DEF LeaseInForce, Terms

LEMMA InForceNext ==
    ASSUME (claims \in Seq(Claim))'
    PROVE  /\ HasLive(claims') => LeaseInForce' = Terms(Last(claims'))
           /\ ~HasLive(claims') => LeaseInForce' = Nothing
BY DEF LeaseInForce, Terms

\* Leaving the rows alone, or ending the newest, is a step of Lease.
LEMMA LeaseUntouched ==
    ASSUME IInv, IInv', claims' = claims, now <= now'
    PROVE  Promise!Next
BY DEF Promise!Next, Promise!Pass, LeaseInForce, IInv, TypeOK

LEMMA LeaseEnds ==
    ASSUME IInv, IInv', now <= now', HasLive(claims), NEW t \in Nat,
           claims' = SetLast(claims, Ended(Last(claims), t))
    PROVE  Promise!Next
<1>1. claims \in Seq(Claim) /\ claims' \in Seq(Claim) /\ now' \in Nat
  BY DEF IInv, TypeOK
<1>2. Last(claims) \in Claim /\ Ended(Last(claims), t) \in Claim /\ ~Ended(Last(claims), t).live
  BY <1>1, LastRow, EndedRow
<1>3. Len(claims') = Len(claims) /\ Last(claims') = Ended(Last(claims), t)
  BY <1>1, <1>2, SetLastRow
<1>4. ~HasLive(claims')
  BY <1>2, <1>3 DEF HasLive, Last
<1>5. LeaseInForce # Nothing /\ LeaseInForce' = Nothing
  BY <1>1, <1>4, InForce, InForceNext
<1> QED
  BY <1>1, <1>3, <1>5 DEF Promise!Next, Promise!End

LEMMA LeaseExpires ==
    ASSUME IInv, IInv', now <= now', NEW t \in Nat, claims' = Expire(claims, t)
    PROVE  Promise!Next
<1>1. CASE claims' = claims
  BY <1>1, LeaseUntouched
<1>2. CASE claims' # claims
  BY <1>2, ExpireRows, LeaseEnds DEF IInv, TypeOK
<1> QED
  BY <1>1, <1>2

\* A new claim passes the lease on only when none is in force, or the one in force
\* was due at a clock reading of the past.
LEMMA LeaseGranted ==
    ASSUME IInv, IInv', now <= now', NEW c \in Calls, calls[c] # Nothing, AcquireNew(c)
    PROVE  Promise!Next
<1> DEFINE t == Stamp(c)
           rows == Expire(claims, t)
           new == NewClaim(rows, calls[c].who, calls[c].kind, t)
<1>1. /\ claims \in Seq(Claim) /\ claims' \in Seq(Claim) /\ now \in Nat /\ now' \in Nat
      /\ t \in Nat /\ t <= now /\ calls[c].who \in Principals
      /\ calls[c].kind \in {"hard", "timed"}
  BY CallInFlight DEF IInv, TypeOK
<1>2. ~HasLive(rows) /\ claims' = Append(rows, new)
  BY DEF AcquireNew, Commit
<1>3. rows \in Seq(Claim) /\ Len(rows) = Len(claims)
      /\ (rows # claims => HasLive(claims) /\ DueAt(Last(claims), t))
  BY <1>1, ExpireRows
<1>4. new \in Claim /\ new.uid = Len(rows) + 1 /\ new.live
  BY <1>1, <1>3, NewClaimRow
<1>5. LeaseInForce = Nothing \/ Promise!Lapsed
  <2>1. CASE HasLive(claims)
    <3>1. DueAt(Last(claims), t) /\ Last(claims) \in Claim
      BY <1>1, <1>2, <1>3, <2>1, LastRow
    <3>2. LeaseInForce = Terms(Last(claims)) /\ LeaseInForce # Nothing
      BY <1>1, <2>1, InForce
    <3>3. Last(claims).expires <= now /\ Last(claims).kind = "timed"
      BY <1>1, <3>1 DEF DueAt, Claim
    <3> QED
      BY <3>2, <3>3 DEF Promise!Lapsed, Terms
  <2>2. CASE ~HasLive(claims)
    BY <1>1, <2>2, InForce
  <2> QED
    BY <2>1, <2>2
<1> HIDE DEF new, rows, t
<1>6. Len(claims') = Len(claims) + 1 /\ HasLive(claims') /\ Last(claims') = new
  BY <1>2, <1>3, <1>4 DEF HasLive, Last
<1>7. LeaseInForce' = Terms(new) /\ Terms(new) \in Promise!Leases
  BY <1>1, <1>4, <1>6, InForceNext, TermsOfRow
<1>8. LeaseInForce'.serial = Len(claims')
  BY <1>3, <1>4, <1>6, <1>7 DEF Terms
<1> QED
  BY <1>1, <1>5, <1>6, <1>7, <1>8 DEF Promise!Next, Promise!Grant

\* A renewal keeps the lease's holder and kind, and only a timed one is renewed.
LEMMA LeaseRenewed ==
    ASSUME IInv, IInv', now <= now', NEW c \in Calls, calls[c] # Nothing, Renew(c)
    PROVE  Promise!Next
<1> DEFINE t == Stamp(c)
           row == Renewed(Last(claims), t)
<1>1. claims \in Seq(Claim) /\ claims' \in Seq(Claim) /\ now' \in Nat /\ t \in Nat
  BY CallInFlight DEF IInv, TypeOK
<1>2. HasLive(claims) /\ Last(claims).kind = "timed" /\ claims' = SetLast(claims, row)
  BY <1>1, ExpireRows DEF Renew, Commit
<1>3. Last(claims) \in Claim
  BY <1>1, <1>2, LastRow
<1>4. /\ row \in Claim /\ row.uid = Last(claims).uid /\ row.holder = Last(claims).holder
      /\ row.kind = Last(claims).kind /\ row.live
  BY <1>1, <1>3, RenewedRow
<1> HIDE DEF row, t
<1>5. Len(claims') = Len(claims) /\ Last(claims') = row /\ HasLive(claims')
  <2>1. Len(claims') = Len(claims) /\ Last(claims') = row
    BY <1>1, <1>2, <1>4, SetLastRow
  <2> QED
    BY <1>1, <1>2, <1>4, <2>1 DEF HasLive, Last
<1>6. /\ LeaseInForce = Terms(Last(claims)) /\ LeaseInForce # Nothing
      /\ LeaseInForce' = Terms(row) /\ Terms(row) \in Promise!Leases
  BY <1>1, <1>2, <1>4, <1>5, InForce, InForceNext, TermsOfRow
<1>7. /\ LeaseInForce.kind = "timed"
      /\ LeaseInForce' = [LeaseInForce EXCEPT !.expires = LeaseInForce'.expires]
  BY <1>2, <1>4, <1>6 DEF Terms
<1> QED
  BY <1>1, <1>5, <1>6, <1>7 DEF Promise!Next, Promise!Extend

LEMMA LeaseHubStep ==
    ASSUME IInv, IInv', NEW c \in Calls, HubRun(c)
    PROVE  Promise!Next
<1> DEFINE t == Stamp(c)
<1>1. calls[c] # Nothing
  BY RunsInFlight DEF HubRun, AcquireNew, AcquireHeld, Renew, Release, Status, Lapse, Refuse
<1>2. claims \in Seq(Claim) /\ now \in Nat /\ t \in Nat
  BY <1>1, CallInFlight DEF IInv, TypeOK
<1>3. now <= now'
  <2>1. PICK rows, answer : Commit(c, rows, answer)
    BY DEF HubRun, AcquireNew, AcquireHeld, Renew, Release, Status, Lapse, Refuse
  <2> QED
    BY <1>2, <2>1 DEF Commit
<1>4. CASE AcquireNew(c)
  BY <1>1, <1>3, <1>4, LeaseGranted
<1>5. CASE Renew(c)
  BY <1>1, <1>3, <1>5, LeaseRenewed
<1>6. CASE Release(c)
  <2>1. HasLive(claims) /\ claims' = SetLast(claims, Ended(Last(claims), t))
    BY <1>2, <1>6, ExpireRows DEF Release, Commit
  <2> QED
    BY <1>2, <1>3, <2>1, LeaseEnds
<1>7. CASE AcquireHeld(c) \/ Refuse(c)
  BY <1>3, <1>7, LeaseUntouched DEF AcquireHeld, Refuse, Commit
<1>8. CASE Status(c) \/ Lapse(c)
  <2>1. claims' = Expire(claims, t)
    BY <1>8 DEF Status, Lapse, Commit
  <2> QED
    BY <1>2, <1>3, <2>1, LeaseExpires
<1> QED
  BY <1>4, <1>5, <1>6, <1>7, <1>8 DEF HubRun

LEMMA LeaseStep == IInv /\ IInv' /\ [Next]_vars => [Promise!Next]_(Promise!vars)
<1> SUFFICES ASSUME IInv, IInv', [Next]_vars
             PROVE  Promise!Next \/ UNCHANGED Promise!vars
  OBVIOUS
<1>1. now \in Nat /\ claims \in Seq(Claim)
  BY DEF IInv, TypeOK
<1>2. CASE claims' = claims /\ now <= now'
  BY <1>2, LeaseUntouched
<1>3. CASE UNCHANGED vars
  BY <1>1, <1>3, <1>2 DEF vars, hubVars
<1>4. CASE Tick
  BY <1>1, <1>4, <1>2 DEF Tick, hubVars
<1>5. CASE CloseIssue
  BY <1>1, <1>5, LeaseEnds DEF CloseIssue
<1>6. ASSUME NEW c \in Calls, HubRun(c)
      PROVE  Promise!Next
  BY <1>6, LeaseHubStep
<1>7. ASSUME NEW c \in Calls,
             Send(c) \/ Arrive(c) \/ SpokeTakes(c) \/ Lose(c) \/ Abandon(c)
      PROVE  Promise!Next
  <2>1. claims' = claims /\ now' = now
    BY <1>7 DEF Send, Arrive, SpokeTakes, Deliver, Resolve, Reject, DeliverGate,
       Admit, Deny, Lose, Abandon, GivesUp, hubVars
  <2> QED
    BY <1>1, <2>1, LeaseUntouched
<1>8. ASSUME NEW s \in Spokes, Turn(s) \/ ExpireCached(s)
      PROVE  Promise!Next
  <2>1. claims' = claims /\ now' = now
    BY <1>8 DEF Turn, Retry, ExpireCached, hubVars
  <2> QED
    BY <1>1, <2>1, LeaseUntouched
<1> QED
  BY <1>3, <1>4, <1>5, <1>6, <1>7, <1>8 DEF Next

LEMMA LeaseStarts == Init => Promise!Init
BY DEF Init, Promise!Init, LeaseInForce, HasLive

\* The hub implements the abstract lease: the lease passes on only after it ended or
\* its time ran out by the hub's clock, renewal keeps the holder, and a lease that is
\* over never comes back, although each transaction of AcquireClaim, RenewClaim and
\* ReleaseClaim works with a clock reading taken before it waited for the writer.
THEOREM KeepsThePromise == Spec => KeepsPromise
<1>1. Spec => Promise!Init /\ [][Promise!Next]_(Promise!vars)
  BY LeaseStarts, LeaseStep, Invariance, PTL DEF Spec
<1> QED
  BY <1>1 DEF KeepsPromise, Promise!Spec

-----------------------------------------------------------------------------
(***************************************************************************)
(* The spokes' side of Claims: caches follow the hub and never fall back,  *)
(* and the lease gate respects what its own refresh showed.  Proved for    *)
(* hubs whose transactions run in the order of their clock readings        *)
(* (StampsOrdered) and spokes that are no hub of another project           *)
(* (MixedSpokes = {}): without either the properties fail.                 *)
(***************************************************************************)

\* The answers on their way, and those an editor's request goes on with.
Answering == {c \in Calls : /\ calls[c] # Nothing
                            /\ \/ calls[c].phase = "answered"
                               \/ calls[c].phase = "checking" /\ calls[c].answer # Nothing}
Answers == {calls[c].answer : c \in Answering}

\* Live claims as they are or once were: at the hub, in an answer, in a cache.
Snapshots == (IF HasLive(claims) THEN {Last(claims)} ELSE {})
             \cup {a.claim : a \in {b \in Answers : b.held}}
             \cup UNION {LiveRows(s) : s \in Spokes}

\* Nothing bears a time the hub has not left behind, or a claim it does not know.
Past(A, K, rows, ver, t) ==
    /\ \A a \in A : /\ Carries(a) /\ a.hubNow < t /\ a.version <= ver
                    /\ a.held => a.claim \in K /\ a.claim.updated <= a.hubNow
    /\ \A r \in K : r \in Claim /\ r.live /\ r.uid <= Len(rows) /\ r.updated < t
    /\ HasLive(rows) => Last(rows) \in K

\* A claim is ended once an answer given after it was seen says nothing is held,
\* and not yet made when an answer given before it was seen names an older one.
Ending(A, K, rows) ==
    \A a \in A, r \in K :
        /\ ~a.held /\ r.updated <= a.hubNow => ~rows[r.uid].live
        /\ a.held /\ r.uid > a.claim.uid => r.updated > a.hubNow

\* A claim has one state at a time, and an answer shows the latest of its time.
Growing(A, K, rows) ==
    /\ \A q, r \in K : q.uid = r.uid /\ q.updated = r.updated => q = r
    /\ HasLive(rows) => \A r \in K : r.uid = Len(rows) => r.updated <= Last(rows).updated
    /\ \A a \in A, r \in K :
         a.held /\ r.uid = a.claim.uid /\ r.updated <= a.hubNow => r.updated <= a.claim.updated

\* Of two answers the one with the later clock comes from no earlier transaction.
Timely(A, rows, ver) ==
    /\ \A a, b \in A :
         /\ a.hubNow <= b.hubNow => a.version <= b.version
         /\ b.held /\ b.claim.updated <= a.hubNow => b.version <= a.version
    /\ HasLive(rows) => \A a \in A : Last(rows).updated <= a.hubNow => a.version = ver

\* Answers of one version say the same, and of two versions do not.
Versioned(A, rows, ver) ==
    /\ \A a, b \in A : a.held =>
         /\ a.version = b.version => b.held /\ b.claim = a.claim
         /\ b.held /\ b.claim = a.claim => a.version = b.version
    /\ \A a \in A :
         /\ a.version = ver => (a.held <=> HasLive(rows)) /\ (a.held => a.claim = Last(rows))
         /\ a.held /\ HasLive(rows) /\ a.claim = Last(rows) => a.version = ver

Truthful(A, K, rows, ver, t) ==
    /\ Past(A, K, rows, ver, t) /\ Ending(A, K, rows) /\ Growing(A, K, rows)
    /\ Timely(A, rows, ver) /\ Versioned(A, rows, ver)

\* What a cache C that took its last answer at version n says of the hub.
Known(C, K, rows, t) ==
    /\ \A r \in C : /\ r \in Claim /\ r.uid <= Len(rows) /\ r.updated < t
                    /\ IF r.live THEN r \in K ELSE ~rows[r.uid].live
    /\ \A q, r \in C : q.live /\ r.live => q = r

\* An answer that is not older than all of the cache is not older than version n ...
NotBefore(A, C, n) ==
    n = 0 \/ \E r \in C : \A a \in A : r.updated <= a.hubNow => n <= a.version

\* ... and one that is older than a part of it, or repeats it, is not newer.
NotAfter(A, C, n, rows, ver) ==
    /\ \A r \in C, a \in A :
         r.updated > a.hubNow \/ (a.held /\ a.claim = r) => a.version <= n
    /\ HasLive(rows) => \A r \in C : r.updated > Last(rows).updated \/ Last(rows) = r => n = ver

\* The cache holds the claim in force at version n.
Shows(A, C, n, rows, ver) ==
    /\ \A a \in A : a.held /\ a.version = n => a.claim \in C
    /\ HasLive(rows) /\ ver = n => Last(rows) \in C

CacheOK(A, K, C, n, rows, ver, t) ==
    /\ n <= ver
    /\ Known(C, K, rows, t) /\ NotBefore(A, C, n) /\ NotAfter(A, C, n, rows, ver)
    /\ Shows(A, C, n, rows, ver)

\* Answers go to spokes, and the refresh of an edit at the gate has been taken.
GatesOK ==
    \A c \in Answering :
        /\ Spoke(c) \in Spokes
        /\ calls[c].phase = "checking" /\ calls[c].answer.held
             => calls[c].answer.version <= seen[Spoke(c)]

CachesOK ==
    /\ Truthful(Answers, Snapshots, claims, version, now)
    /\ \A s \in Spokes : CacheOK(Answers, Snapshots, cache[s], seen[s], claims, version, now)

SpokesInv == CachesOK /\ GatesOK

---------------------------------------------------------------------------
(* Fewer answers and snapshots, a later clock                              *)

LEMMA FewerAnswers ==
    ASSUME NEW A, NEW K, NEW rows, NEW ver, NEW t \in Nat,
           NEW A2 \in SUBSET A, NEW K2 \in SUBSET K, NEW t2 \in Nat, t <= t2,
           Truthful(A, K, rows, ver, t),
           HasLive(rows) => Last(rows) \in K2,
           \A a \in A2 : a.held => a.claim \in K2
    PROVE  Truthful(A2, K2, rows, ver, t2)
<1>1. Past(A2, K2, rows, ver, t2)
  BY DEF Truthful, Past, Carries, Answer, Claim
<1>2. Ending(A2, K2, rows) /\ Growing(A2, K2, rows)
  BY DEF Truthful, Ending, Growing
<1>3. Timely(A2, rows, ver) /\ Versioned(A2, rows, ver)
  BY DEF Truthful, Timely, Versioned
<1> QED
  BY <1>1, <1>2, <1>3 DEF Truthful

LEMMA FewerForCache ==
    ASSUME NEW A, NEW K, NEW C, NEW n, NEW rows, NEW ver, NEW t \in Nat,
           NEW A2 \in SUBSET A, NEW K2, NEW t2 \in Nat, t <= t2,
           CacheOK(A, K, C, n, rows, ver, t), \A r \in C : r.live => r \in K2
    PROVE  CacheOK(A2, K2, C, n, rows, ver, t2)
BY DEF CacheOK, Known, NotBefore, NotAfter, Shows, Claim

---------------------------------------------------------------------------
(* A transaction changes the rows, stamping them with the clock            *)

Replaced(rows, rows2, t) ==
    /\ Len(rows) <= Len(rows2)
    /\ \A i \in 1..Len(rows) : rows2[i].live => rows[i].live
    /\ HasLive(rows2) => Last(rows2).updated = t

Newly(rows2) == IF HasLive(rows2) THEN {Last(rows2)} ELSE {}

LEMMA ChangeHub ==
    ASSUME NEW A, NEW K, NEW rows \in Seq(Claim), NEW ver \in Nat, NEW t \in Nat,
           NEW rows2 \in Seq(Claim), Ordered(rows2), Replaced(rows, rows2, t),
           Truthful(A, K, rows, ver, t)
    PROVE  Truthful(A, K \cup Newly(rows2), rows2, ver + 1, t + 1)
<1>1. \A a \in A : /\ a.hubNow \in Nat /\ a.hubNow < t /\ a.version \in Nat /\ a.version <= ver
                   /\ Carries(a)
                   /\ a.held => a.claim \in K /\ a.claim \in Claim /\ a.claim.updated <= a.hubNow
  BY DEF Truthful, Past, Carries, Answer
<1>2. \A r \in K : /\ r \in Claim /\ r.live /\ r.uid \in 1..Len(rows) /\ r.uid \in 1..Len(rows2)
                   /\ r.updated \in Nat /\ r.updated < t
  <2>1. Len(rows) \in Nat /\ Len(rows2) \in Nat /\ Len(rows) <= Len(rows2)
    BY DEF Replaced
  <2>2. \A r \in K : r \in Claim /\ r.live /\ r.uid <= Len(rows) /\ r.updated < t
    BY DEF Truthful, Past
  <2>3. \A r \in Claim : r.uid \in Nat \ {0} /\ r.updated \in Nat
    BY DEF Claim
  <2> QED
    BY <2>1, <2>2, <2>3
<1>3. \A r \in Newly(rows2) : /\ r = Last(rows2) /\ HasLive(rows2) /\ r \in Claim /\ r.live
                              /\ r.uid = Len(rows2) /\ r.updated = t
  BY LastRow DEF Newly, Replaced, Ordered, Last
<1>4. HasLive(rows2) => Last(rows2) \in Newly(rows2)
  BY DEF Newly
<1>5. Past(A, K \cup Newly(rows2), rows2, ver + 1, t + 1)
  BY <1>1, <1>2, <1>3, <1>4 DEF Past
<1>6. Ending(A, K \cup Newly(rows2), rows2)
  <2>1. ASSUME NEW a \in A, NEW r \in K
        PROVE  /\ ~a.held /\ r.updated <= a.hubNow => ~rows2[r.uid].live
               /\ a.held /\ r.uid > a.claim.uid => r.updated > a.hubNow
    BY <1>2 DEF Truthful, Ending, Replaced
  <2>2. ASSUME NEW a \in A, NEW r \in Newly(rows2)
        PROVE  r.updated > a.hubNow
    BY <1>1, <1>3
  <2>3. \A a \in A, r \in Newly(rows2) : ~(r.updated <= a.hubNow)
    BY <1>1, <1>3
  <2> QED
    BY <2>1, <2>2, <2>3 DEF Ending
<1>7. Growing(A, K \cup Newly(rows2), rows2)
  <2>1. \A q, r \in K \cup Newly(rows2) : q.uid = r.uid /\ q.updated = r.updated => q = r
    <3>1. \A q, r \in K : q.uid = r.uid /\ q.updated = r.updated => q = r
      BY DEF Truthful, Growing
    <3>2. \A q \in K, r \in Newly(rows2) : q.updated # r.updated
      BY <1>2, <1>3
    <3>3. \A q, r \in Newly(rows2) : q = r
      BY <1>3
    <3> QED
      BY <3>1, <3>2, <3>3
  <2>2. HasLive(rows2) => \A r \in K \cup Newly(rows2) : r.updated <= Last(rows2).updated
    BY <1>2, <1>3 DEF Replaced
  <2>3. ASSUME NEW a \in A, NEW r \in K \cup Newly(rows2),
               a.held, r.uid = a.claim.uid, r.updated <= a.hubNow
        PROVE  r.updated <= a.claim.updated
    <3>1. r \in K
      BY <1>1, <1>3, <2>3
    <3> QED
      BY <2>3, <3>1 DEF Truthful, Growing
  <2> QED
    BY <2>1, <2>2, <2>3 DEF Growing
<1>8. Timely(A, rows2, ver + 1)
  <2>1. HasLive(rows2) => \A a \in A : ~(Last(rows2).updated <= a.hubNow)
    BY <1>1 DEF Replaced
  <2> QED
    BY <2>1 DEF Truthful, Timely
<1>9. Versioned(A, rows2, ver + 1)
  <2>1. \A a \in A : a.version # ver + 1
    BY <1>1
  <2>2. \A a \in A : a.held /\ HasLive(rows2) => a.claim # Last(rows2)
    BY <1>1, <1>2 DEF Replaced
  <2> QED
    BY <2>1, <2>2 DEF Truthful, Versioned
<1> QED
  BY <1>5, <1>6, <1>7, <1>8, <1>9 DEF Truthful

LEMMA ChangeCache ==
    ASSUME NEW A, NEW K, NEW C, NEW n \in Nat,
           NEW rows \in Seq(Claim), NEW ver \in Nat, NEW t \in Nat,
           NEW rows2 \in Seq(Claim), Replaced(rows, rows2, t),
           CacheOK(A, K, C, n, rows, ver, t)
    PROVE  CacheOK(A, K \cup Newly(rows2), C, n, rows2, ver + 1, t + 1)
<1>1. \A r \in C : /\ r \in Claim /\ r.uid \in 1..Len(rows) /\ r.uid <= Len(rows2)
                   /\ r.updated \in Nat /\ r.updated < t
  <2>1. Len(rows) \in Nat /\ Len(rows2) \in Nat /\ Len(rows) <= Len(rows2)
    BY DEF Replaced
  <2>2. \A r \in Claim : r.uid \in Nat \ {0} /\ r.updated \in Nat
    BY DEF Claim
  <2> QED
    BY <2>1, <2>2 DEF CacheOK, Known
<1>2. Known(C, K \cup Newly(rows2), rows2, t + 1)
  BY <1>1 DEF CacheOK, Known, Replaced
<1>3. HasLive(rows2) => \A r \in C : ~(r.updated > Last(rows2).updated) /\ Last(rows2) # r
  BY <1>1 DEF Replaced
<1>4. n <= ver /\ n <= ver + 1 /\ n # ver + 1
  BY DEF CacheOK
<1>5. NotBefore(A, C, n) /\ NotAfter(A, C, n, rows2, ver + 1) /\ Shows(A, C, n, rows2, ver + 1)
  BY <1>3, <1>4 DEF CacheOK, NotBefore, NotAfter, Shows
<1> QED
  BY <1>2, <1>4, <1>5 DEF CacheOK

---------------------------------------------------------------------------
(* A transaction answers                                                   *)

\* What AcquireClaim, RenewClaim, ReleaseClaim and ClaimStatus say of the rows they
\* leave: the lease in force, at the hub's clock or at the lease's last change.
Fits(x, rows, t) ==
    /\ Carries(x) /\ (x.held <=> HasLive(rows))
    /\ x.held => x.claim = Last(rows) /\ Last(rows).updated <= x.hubNow
    /\ x.hubNow = t \/ (x.held /\ x.hubNow = Last(rows).updated)

LEMMA AnswerHub ==
    ASSUME NEW A, NEW K, NEW rows \in Seq(Claim), NEW ver \in Nat, NEW t \in Nat,
           Ordered(rows), Truthful(A, K, rows, ver, t),
           NEW u \in Nat, NEW x, Fits(x, rows, u), x.version = ver, x.hubNow < t,
           x.hubNow = u => t = u + 1 /\ \A a \in A : a.hubNow < u
    PROVE  Truthful(A \cup {x}, K, rows, ver, t)
<1>1. \A a \in A : /\ a.hubNow \in Nat /\ a.version \in Nat /\ a.version <= ver
                   /\ Carries(a)
                   /\ a.held => a.claim \in K /\ a.claim \in Claim /\ a.claim.updated <= a.hubNow
  BY DEF Truthful, Past, Carries, Answer
<1>2. \A r \in K : /\ r \in Claim /\ r.live /\ r.uid \in 1..Len(rows)
                   /\ r.updated \in Nat /\ r.updated < t
  BY DEF Truthful, Past, Claim
<1>3. x.hubNow \in Nat /\ x.hubNow < t /\ x.version = ver
      /\ (x.held => /\ HasLive(rows) /\ x.claim = Last(rows) /\ x.claim \in K /\ x.claim \in Claim
                    /\ x.claim.uid = Len(rows) /\ x.claim.updated <= x.hubNow)
      /\ (~x.held => ~HasLive(rows) /\ x.hubNow = u)
      /\ (x.hubNow = u \/ (x.held /\ x.hubNow = Last(rows).updated))
  <2>1. x.hubNow \in Nat /\ x.version = ver
    BY DEF Fits, Carries, Answer
  <2>2. HasLive(rows) => Last(rows) \in K /\ Last(rows).uid = Len(rows)
    BY LastRow DEF Truthful, Past, Ordered, Last
  <2> QED
    BY <1>2, <2>1, <2>2 DEF Fits
<1>4. Past(A \cup {x}, K, rows, ver, t)
  BY <1>3 DEF Truthful, Past, Fits
<1>5. Ending(A \cup {x}, K, rows)
  <2>1. ASSUME NEW r \in K, ~x.held
        PROVE  ~rows[r.uid].live
    BY <1>2, <1>3, <2>1 DEF Ordered, HasLive
  <2>2. ASSUME NEW r \in K, x.held
        PROVE  ~(r.uid > x.claim.uid)
    BY <1>2, <1>3, <2>2
  <2> QED
    BY <2>1, <2>2 DEF Truthful, Ending
<1>6. Growing(A \cup {x}, K, rows)
  <2>1. ASSUME NEW r \in K, x.held, r.uid = x.claim.uid
        PROVE  r.updated <= x.claim.updated
    BY <1>3, <2>1 DEF Truthful, Growing
  <2> QED
    BY <2>1 DEF Truthful, Growing
<1>7. Timely(A \cup {x}, rows, ver)
  <2>1. ASSUME NEW a \in A
        PROVE  /\ a.hubNow <= x.hubNow => a.version <= x.version
               /\ x.hubNow <= a.hubNow => x.version <= a.version
               /\ x.held /\ x.claim.updated <= a.hubNow => x.version <= a.version
               /\ a.held /\ a.claim.updated <= x.hubNow => a.version <= x.version
    <3>1. HasLive(rows) /\ Last(rows).updated <= a.hubNow => a.version = ver
      BY DEF Truthful, Timely
    <3>2. x.hubNow <= a.hubNow => x.held /\ x.hubNow = Last(rows).updated
      BY <1>1, <1>3
    <3> QED
      BY <1>1, <1>3, <3>1, <3>2
  <2>2. x.version <= x.version
    BY <1>3
  <2> QED
    BY <1>3, <2>1, <2>2 DEF Truthful, Timely
<1>8. Versioned(A \cup {x}, rows, ver)
  <2>1. \A a \in A :
          /\ a.version = ver => (a.held <=> HasLive(rows)) /\ (a.held => a.claim = Last(rows))
          /\ a.held /\ HasLive(rows) /\ a.claim = Last(rows) => a.version = ver
    BY DEF Truthful, Versioned
  <2>2. x.held <=> HasLive(rows)
    BY <1>3
  <2> QED
    BY <1>3, <2>1, <2>2 DEF Truthful, Versioned
<1> QED
  BY <1>4, <1>5, <1>6, <1>7, <1>8 DEF Truthful

LEMMA AnswerCache ==
    ASSUME NEW A, NEW K, NEW C, NEW n \in Nat,
           NEW rows \in Seq(Claim), NEW ver \in Nat, NEW t \in Nat,
           CacheOK(A, K, C, n, rows, ver, t),
           NEW u \in Nat, NEW x, Fits(x, rows, u), x.version = ver,
           x.hubNow = u => t = u + 1
    PROVE  CacheOK(A \cup {x}, K, C, n, rows, ver, t)
<1>1. /\ n <= ver /\ x.hubNow \in Nat /\ x.version = ver
      /\ \A r \in C : r.updated \in Nat /\ r.updated < t
      /\ HasLive(rows) => Last(rows).updated \in Nat
  BY LastRow DEF CacheOK, Known, Claim, Fits, Carries, Answer
<1>2. NotBefore(A \cup {x}, C, n)
  BY <1>1 DEF CacheOK, NotBefore
<1>3. NotAfter(A \cup {x}, C, n, rows, ver)
  <2>1. ASSUME NEW r \in C, r.updated > x.hubNow \/ (x.held /\ x.claim = r)
        PROVE  x.version <= n
    <3>1. HasLive(rows) /\ (r.updated > Last(rows).updated \/ Last(rows) = r)
      BY <1>1, <2>1 DEF Fits
    <3> QED
      BY <1>1, <3>1 DEF CacheOK, NotAfter
  <2> QED
    BY <2>1 DEF CacheOK, NotAfter
<1>4. Shows(A \cup {x}, C, n, rows, ver)
  <2>1. x.held /\ x.version = n => x.claim \in C
    BY <1>1 DEF CacheOK, Shows, Fits
  <2> QED
    BY <2>1 DEF CacheOK, Shows
<1> QED
  BY <1>2, <1>3, <1>4 DEF CacheOK

---------------------------------------------------------------------------
(* A cache takes an answer                                                 *)

\* What applyClaimStatusTx leaves when it changes the cache at all.
LEMMA AppliedRows ==
    ASSUME NEW s \in Spokes, NEW a, Applied(s, a) # cache[s]
    PROVE  /\ \A r \in cache[s] : ~(a.hubNow < r.updated)
           /\ a.held => a.claim \in Applied(s, a)
           /\ ~a.held => \E q \in LiveRows(s) : Ended(q, a.hubNow) \in Applied(s, a)
           /\ \A r \in Applied(s, a) :
                \/ r \in cache[s] /\ ~r.live
                \/ a.held /\ r = a.claim
                \/ \E q \in LiveRows(s) : /\ r = Ended(q, a.hubNow)
                                          /\ a.held => q.uid # a.claim.uid
<1> DEFINE ended == {Ended(row, a.hubNow) : row \in LiveRows(s)}
           past == cache[s] \ LiveRows(s)
<1>1. \A r \in cache[s] : ~(a.hubNow < r.updated)
  BY DEF Applied, Outdated, Newest
<1>2. \A r \in past : r \in cache[s] /\ ~r.live
  BY DEF LiveRows
<1>3. CASE ~a.held
  <2>1. Applied(s, a) = past \cup ended
    BY <1>3 DEF Applied
  <2>2. LiveRows(s) # {}
    BY <2>1 DEF LiveRows
  <2> QED
    BY <1>1, <1>2, <1>3, <2>1, <2>2
<1>4. CASE a.held /\ ~Cached(s, a.claim)
  <2>1. Applied(s, a) = past \cup ended \cup {a.claim}
    BY <1>4 DEF Applied
  <2>2. \A q \in LiveRows(s) : q.uid # a.claim.uid
    BY <1>4 DEF Cached
  <2> QED
    BY <1>1, <1>2, <1>4, <2>1, <2>2
<1>5. CASE a.held /\ Cached(s, a.claim)
  <2>1. Applied(s, a) = past \cup {a.claim}
    BY <1>5 DEF Applied
  <2> QED
    BY <1>1, <1>2, <1>5, <2>1
<1> QED
  BY <1>3, <1>4, <1>5

LEMMA TakeCache ==
    ASSUME NEW A, NEW K, NEW rows \in Seq(Claim), Ordered(rows),
           NEW ver \in Nat, NEW t \in Nat, NEW s \in Spokes, NEW n \in Nat,
           Truthful(A, K, rows, ver, t), CacheOK(A, K, cache[s], n, rows, ver, t),
           NEW a \in A, Applied(s, a) # cache[s]
    PROVE  n <= a.version /\ CacheOK(A, K, Applied(s, a), a.version, rows, ver, t)
<1> DEFINE C == cache[s]
           D == Applied(s, a)
<1>1. /\ \A r \in C : r \in Claim /\ r.uid \in 1..Len(rows) /\ r.updated \in Nat /\ r.updated < t
      /\ \A r \in C : IF r.live THEN r \in K ELSE ~rows[r.uid].live
  <2>1. \A r \in Claim : r.uid \in Nat \ {0} /\ r.updated \in Nat
    BY DEF Claim
  <2> QED
    BY <2>1 DEF CacheOK, Known
<1>2. /\ a.hubNow \in Nat /\ a.hubNow < t /\ a.version \in Nat /\ a.version <= ver
      /\ a.held => /\ a.claim \in K /\ a.claim \in Claim /\ a.claim.live
                   /\ a.claim.uid \in 1..Len(rows)
                   /\ a.claim.updated \in Nat /\ a.claim.updated <= a.hubNow
  <2>1. \A r \in Claim : r.uid \in Nat \ {0} /\ r.updated \in Nat
    BY DEF Claim
  <2> QED
    BY <2>1 DEF Truthful, Past, Carries, Answer
<1>3. \A b \in A : b.hubNow \in Nat /\ b.version \in Nat /\ (b.held => b.claim \in K /\ b.claim.live)
  BY DEF Truthful, Past, Carries, Answer
<1>4. \A r \in C : r.updated <= a.hubNow
  BY <1>1, <1>2, AppliedRows
<1>5. \A q \in LiveRows(s) : /\ q \in C /\ q.live /\ Ended(q, a.hubNow) \in Claim
                             /\ ~Ended(q, a.hubNow).live
                             /\ Ended(q, a.hubNow).uid = q.uid
                             /\ Ended(q, a.hubNow).updated = a.hubNow
  BY <1>1, <1>2, EndedRow DEF LiveRows, Ended
<1>6. \A r \in D : r.updated \in Nat /\ r.updated <= a.hubNow /\ (r.live => a.held /\ r = a.claim)
  BY <1>1, <1>2, <1>4, <1>5, AppliedRows
<1>7. n <= a.version
  BY <1>2, <1>4 DEF CacheOK, NotBefore
<1>8. Known(D, K, rows, t)
  <2> SUFFICES ASSUME NEW r \in D
               PROVE  /\ r \in Claim /\ r.uid <= Len(rows) /\ r.updated < t
                      /\ IF r.live THEN r \in K ELSE ~rows[r.uid].live
    BY <1>6 DEF Known
  <2>1. CASE r \in C /\ ~r.live
    BY <1>1, <2>1
  <2>2. CASE a.held /\ r = a.claim
    BY <1>2, <2>2
  <2>3. ASSUME NEW q \in LiveRows(s), r = Ended(q, a.hubNow), a.held => q.uid # a.claim.uid
        PROVE  /\ r \in Claim /\ r.uid <= Len(rows) /\ r.updated < t
               /\ IF r.live THEN r \in K ELSE ~rows[r.uid].live
    <3>1. /\ q \in C /\ q \in K /\ q.uid \in 1..Len(rows) /\ q.updated <= a.hubNow
          /\ q.updated \in Nat
      BY <1>1, <1>4, <1>5
    <3>2. ~rows[q.uid].live
      <4>1. CASE ~a.held
        BY <3>1, <4>1 DEF Truthful, Ending
      <4>2. CASE a.held
        <5>1. ~(q.uid > a.claim.uid)
          BY <1>2, <3>1, <4>2 DEF Truthful, Ending
        <5>2. q.uid < Len(rows)
          BY <1>2, <2>3, <3>1, <4>2, <5>1
        <5> QED
          BY <3>1, <5>2 DEF Ordered
      <4> QED
        BY <4>1, <4>2
    <3> QED
      BY <1>2, <1>5, <2>3, <3>1, <3>2
  <2> QED
    BY <2>1, <2>2, <2>3, AppliedRows
<1>9. NotBefore(A, D, a.version)
  <2>1. CASE a.held
    BY <2>1, AppliedRows DEF Truthful, Timely, NotBefore
  <2>2. CASE ~a.held
    <3>1. PICK q \in LiveRows(s) : Ended(q, a.hubNow) \in D
      BY <2>2, AppliedRows
    <3> QED
      BY <1>5, <3>1 DEF Truthful, Timely, NotBefore
  <2> QED
    BY <2>1, <2>2
<1>10. NotAfter(A, D, a.version, rows, ver)
  <2>1. ASSUME NEW r \in D, NEW b \in A, r.updated > b.hubNow
        PROVE  b.version <= a.version
    <3>1. b.hubNow <= a.hubNow
      BY <1>2, <1>3, <1>6, <2>1
    <3> QED
      BY <3>1 DEF Truthful, Timely
  <2>2. ASSUME NEW r \in D, NEW b \in A, b.held, b.claim = r
        PROVE  b.version <= a.version
    <3>1. a.held /\ a.claim = b.claim
      BY <1>3, <1>6, <2>2
    <3>2. a.version = b.version
      BY <2>2, <3>1 DEF Truthful, Versioned
    <3> QED
      BY <1>2, <3>2
  <2>3. ASSUME NEW r \in D, HasLive(rows), r.updated > Last(rows).updated \/ Last(rows) = r
        PROVE  a.version = ver
    <3>1. Last(rows).updated \in Nat /\ Last(rows).live
      BY <2>3, LastRow DEF Claim
    <3>2. CASE r.updated > Last(rows).updated
      BY <1>2, <1>6, <2>3, <3>1, <3>2 DEF Truthful, Timely
    <3>3. CASE Last(rows) = r
      <4>1. a.held /\ a.claim = Last(rows)
        BY <1>6, <3>1, <3>3
      <4> QED
        BY <2>3, <4>1 DEF Truthful, Versioned
    <3> QED
      BY <2>3, <3>2, <3>3
  <2> QED
    BY <2>1, <2>2, <2>3 DEF NotAfter
<1>11. Shows(A, D, a.version, rows, ver)
  BY AppliedRows DEF Truthful, Versioned, Shows
<1> QED
  BY <1>2, <1>7, <1>8, <1>9, <1>10, <1>11 DEF CacheOK

\* Once its refresh is taken, an edit knows of the hub's version, or of a later one.
LEMMA TakenForGate ==
    ASSUME NEW A, NEW K, NEW rows \in Seq(Claim),
           NEW ver \in Nat, NEW t \in Nat, NEW s \in Spokes, NEW n \in Nat,
           Truthful(A, K, rows, ver, t), CacheOK(A, K, cache[s], n, rows, ver, t),
           NEW a \in A, a.held, ~Clashes(s, a), Applied(s, a) = cache[s]
    PROVE  a.version <= n
<1>1. /\ a.hubNow \in Nat /\ a.claim \in K
      /\ \A r \in cache[s] : r \in Claim /\ r.updated \in Nat /\ (r.live => r \in K)
      /\ \A r \in K : r.updated \in Nat
  BY DEF Truthful, Past, Carries, Answer, CacheOK, Known, Claim
<1>2. CASE Outdated(s, a)
  <2>1. PICK r \in cache[s] : a.hubNow < r.updated
    BY <1>2 DEF Outdated, Newest
  <2> QED
    BY <1>1, <2>1 DEF CacheOK, NotAfter
<1>3. CASE ~Outdated(s, a)
  <2>1. a.claim \in Applied(s, a)
    <3>1. CASE ~Cached(s, a.claim)
      BY <1>3, <3>1 DEF Applied
    <3>2. CASE Cached(s, a.claim)
      <4>1. PICK row \in LiveRows(s) : row.uid = a.claim.uid
        BY <3>2 DEF Cached
      <4>2. \A q \in LiveRows(s) : q = row
        BY DEF LiveRows, CacheOK, Known
      <4>3. row \in K /\ row.updated \in Nat /\ row.updated <= a.hubNow /\ a.claim.updated \in Nat
        BY <1>1, <1>3 DEF LiveRows, Outdated, Newest
      <4>4. row.updated <= a.claim.updated
        BY <4>1, <4>3 DEF Truthful, Growing
      <4>5. a.claim.updated = row.updated => row = a.claim
        BY <1>1, <4>1, <4>3 DEF Truthful, Growing
      <4>6. row.revision \in Nat
        BY <1>1 DEF LiveRows, Claim
      <4>7. ~Stale(row, a.claim)
        BY <4>3, <4>4, <4>5, <4>6 DEF Stale
      <4> QED
        BY <1>3, <3>2, <4>2, <4>7 DEF Applied
    <3> QED
      BY <3>1, <3>2
  <2> QED
    BY <2>1 DEF CacheOK, NotAfter
<1> QED
  BY <1>2, <1>3

---------------------------------------------------------------------------
(* What a step does to the calls                                           *)

Answered(call) == /\ call # Nothing
                  /\ \/ call.phase = "answered"
                     \/ call.phase = "checking" /\ call.answer # Nothing

SeenGrows == \A s \in Spokes : /\ seen[s] \in Nat /\ seen'[s] \in Nat
                               /\ seen[s] <= seen'[s]

\* One call goes on or ends; the others keep their answers.
LEMMA CallGoesOn ==
    ASSUME IInv, SpokesInv, SeenGrows, NEW c \in Calls, NEW call,
           calls' = [calls EXCEPT ![c] = call],
           Answered(call) =>
             /\ Home[call.who] \in Spokes
             /\ call.phase = "checking" /\ call.answer.held
                  => call.answer.version <= seen'[Home[call.who]]
    PROVE  /\ GatesOK'
           /\ Answers' \subseteq Answers \cup (IF Answered(call) THEN {call.answer} ELSE {})
<1>1. /\ calls'[c] = call /\ \A d \in Calls \ {c} : calls'[d] = calls[d]
  BY DEF IInv, TypeOK
<1>2. ASSUME NEW d \in Answering'
      PROVE  \/ d = c /\ Answered(call)
             \/ d \in Answering /\ calls'[d] = calls[d]
  BY <1>1, <1>2 DEF Answering, Answered
<1>3. Answers' \subseteq Answers \cup (IF Answered(call) THEN {call.answer} ELSE {})
  BY <1>1, <1>2 DEF Answers
<1>4. ASSUME NEW d \in Answering'
      PROVE  /\ Spoke(d)' \in Spokes
             /\ calls'[d].phase = "checking" /\ calls'[d].answer.held
                  => calls'[d].answer.version <= seen'[Spoke(d)']
  <2>1. CASE d = c /\ Answered(call)
    BY <1>1, <2>1 DEF Spoke
  <2>2. CASE d \in Answering /\ calls'[d] = calls[d]
    <3>1. /\ Spoke(d)' = Spoke(d) /\ Spoke(d) \in Spokes
          /\ calls[d].phase = "checking" /\ calls[d].answer.held
               => calls[d].answer.version <= seen[Spoke(d)]
      BY <2>2 DEF SpokesInv, GatesOK, Spoke
    <3>2. calls[d].answer.version \in Nat
      BY <2>2 DEF SpokesInv, CachesOK, Truthful, Past, Answers, Carries, Answer
    <3> QED
      BY <2>2, <3>1, <3>2 DEF SeenGrows
  <2> QED
    BY <1>2, <2>1, <2>2
<1> QED
  BY <1>3, <1>4 DEF GatesOK

\* The next answer a cache takes is not older than its last.
LEMMA TakeAnswer ==
    ASSUME IInv, SpokesInv, NEW s \in Spokes, NEW a \in Answers, Applied(s, a) # cache[s]
    PROVE  /\ seen[s] <= a.version
           /\ CacheOK(Answers, Snapshots, Applied(s, a), a.version, claims, version, now)
<1> DEFINE A == Answers
           K == Snapshots
<1>1. /\ claims \in Seq(Claim) /\ Ordered(claims) /\ version \in Nat /\ now \in Nat
      /\ seen[s] \in Nat
  BY DEF IInv, TypeOK, RowsOK, Ordered
<1>2. /\ Truthful(A, K, claims, version, now) /\ a \in A
      /\ CacheOK(A, K, cache[s], seen[s], claims, version, now)
  BY DEF SpokesInv, CachesOK
<1> HIDE DEF A, K
<1>3. seen[s] <= a.version /\ CacheOK(A, K, Applied(s, a), a.version, claims, version, now)
  BY <1>1, <1>2, TakeCache
<1> QED
  BY <1>3 DEF A, K

\* The hub is left alone, answers may get lost, and a cache may take one of them.
LEMMA SpokeStep ==
    ASSUME IInv, IInv', SpokesInv, claims' = claims, version' = version, now <= now',
           Answers' \subseteq Answers,
           \A s \in Spokes :
             \/ cache'[s] = cache[s] /\ seen'[s] = seen[s]
             \/ \E a \in Answers : /\ Applied(s, a) # cache[s] /\ cache'[s] = Applied(s, a)
                                   /\ seen'[s] = a.version
    PROVE  CachesOK' /\ SeenGrows
<1> DEFINE A == Answers
           K == Snapshots
<1>1. /\ claims \in Seq(Claim) /\ Ordered(claims) /\ version \in Nat /\ now \in Nat /\ now' \in Nat
      /\ \A s \in Spokes : seen[s] \in Nat /\ seen'[s] \in Nat
  BY DEF IInv, TypeOK, RowsOK, Ordered
<1>2. /\ Truthful(A, K, claims, version, now)
      /\ \A s \in Spokes : CacheOK(A, K, cache[s], seen[s], claims, version, now)
  BY DEF SpokesInv, CachesOK
<1>3. ASSUME NEW s \in Spokes
      PROVE  CacheOK(A, K, cache'[s], seen'[s], claims, version, now) /\ seen[s] <= seen'[s]
  <2>1. CASE cache'[s] = cache[s] /\ seen'[s] = seen[s]
    <3>1. seen[s] <= seen'[s]
      BY <1>1, <2>1
    <3> HIDE DEF A, K
    <3> QED
      BY <1>2, <2>1, <3>1
  <2>2. ASSUME NEW a \in Answers, Applied(s, a) # cache[s], cache'[s] = Applied(s, a),
               seen'[s] = a.version
        PROVE  CacheOK(A, K, cache'[s], seen'[s], claims, version, now) /\ seen[s] <= seen'[s]
    <3>1. /\ seen[s] <= a.version
          /\ CacheOK(A, K, Applied(s, a), a.version, claims, version, now)
      BY <2>2, TakeAnswer
    <3> HIDE DEF A, K
    <3> QED
      BY <2>2, <3>1
  <2>3. \/ cache'[s] = cache[s] /\ seen'[s] = seen[s]
        \/ \E a \in Answers : /\ Applied(s, a) # cache[s] /\ cache'[s] = Applied(s, a)
                              /\ seen'[s] = a.version
    OBVIOUS
  <2> HIDE DEF A, K
  <2> QED
    BY <2>1, <2>2, <2>3
<1>4. \A s \in Spokes : \A r \in cache'[s] : r.live => r \in K
  BY <1>3 DEF CacheOK, Known
<1>5. Snapshots' \subseteq K
  <2>1. HasLive(claims) => Last(claims) \in K
    BY <1>2 DEF Truthful, Past
  <2>2. \A a \in Answers' : a.held => a.claim \in K
    BY <1>2 DEF Truthful, Past
  <2>3. \A s \in Spokes : LiveRows(s)' \subseteq K
    BY <1>4 DEF LiveRows
  <2> QED
    BY <2>1, <2>2, <2>3 DEF Snapshots
<1>6. /\ HasLive(claims) => Last(claims) \in Snapshots'
      /\ \A a \in Answers' : a.held => a.claim \in Snapshots'
      /\ \A s \in Spokes : \A r \in cache'[s] : r.live => r \in Snapshots'
  BY DEF Snapshots, LiveRows
<1> HIDE DEF A, K
<1>7. Truthful(Answers', Snapshots', claims, version, now')
  BY <1>1, <1>2, <1>5, <1>6, FewerAnswers DEF A
<1>8. \A s \in Spokes : CacheOK(Answers', Snapshots', cache'[s], seen'[s], claims, version, now')
  BY <1>1, <1>3, <1>6, FewerForCache DEF A
<1> QED
  BY <1>1, <1>3, <1>7, <1>8 DEF CachesOK, SeenGrows

\* A transaction of the hub, which may change the rows and may answer.
LEMMA HubStep ==
    ASSUME IInv, IInv', SpokesInv, UNCHANGED <<cache, seen>>,
           NEW rows \in Seq(Claim), Ordered(rows), claims' = rows, now <= now',
           \/ rows = claims /\ version' = version
           \/ Replaced(claims, rows, now) /\ version' = version + 1 /\ now' = now + 1,
           \/ Answers' \subseteq Answers
           \/ \E x : /\ Answers' \subseteq Answers \cup {x}
                     /\ Fits(x, rows, now) /\ x.version = version'
                     /\ x.hubNow = now => now' = now + 1
    PROVE  CachesOK'
<1> DEFINE A == Answers
           K == Snapshots \cup Newly(rows)
<1>1. /\ claims \in Seq(Claim) /\ version \in Nat /\ now \in Nat /\ now' \in Nat /\ version' \in Nat
      /\ \A s \in Spokes : seen[s] \in Nat
  BY DEF IInv, TypeOK
<1>2. /\ Truthful(Answers, Snapshots, claims, version, now)
      /\ \A s \in Spokes : CacheOK(Answers, Snapshots, cache[s], seen[s], claims, version, now)
  BY DEF SpokesInv, CachesOK
<1>3. /\ Truthful(A, K, rows, version', now')
      /\ \A s \in Spokes : CacheOK(A, K, cache[s], seen[s], rows, version', now')
  <2>1. CASE rows = claims /\ version' = version
    <3>1. K = Snapshots
      BY <2>1 DEF Newly, Snapshots
    <3>2. /\ \A a \in A : a.held => a.claim \in K
          /\ HasLive(rows) => Last(rows) \in K
          /\ \A s \in Spokes : \A r \in cache[s] : r.live => r \in K
      BY <1>2, <2>1, <3>1 DEF Truthful, Past, CacheOK, Known
    <3> HIDE DEF A, K
    <3>3. Truthful(A, K, rows, version', now')
      BY <1>1, <1>2, <2>1, <3>1, <3>2, FewerAnswers DEF A
    <3> QED
      BY <1>1, <1>2, <2>1, <3>1, <3>2, <3>3, FewerForCache DEF A
  <2>2. CASE Replaced(claims, rows, now) /\ version' = version + 1 /\ now' = now + 1
    BY <1>1, <1>2, <2>2, ChangeHub, ChangeCache
  <2> QED
    BY <2>1, <2>2
<1>4. ASSUME NEW B, Answers' \subseteq B, Truthful(B, K, rows, version', now'),
             \A s \in Spokes : CacheOK(B, K, cache[s], seen[s], rows, version', now')
      PROVE  CachesOK'
  <2>1. Snapshots' \subseteq K
    <3>1. HasLive(rows) => Last(rows) \in K
      BY DEF Newly
    <3>2. \A a \in Answers' : a.held => a.claim \in K
      BY <1>4 DEF Truthful, Past
    <3>3. \A s \in Spokes : LiveRows(s)' \subseteq K
      BY DEF LiveRows, Snapshots
    <3> QED
      BY <3>1, <3>2, <3>3 DEF Snapshots
  <2>2. /\ HasLive(rows) => Last(rows) \in Snapshots'
        /\ \A a \in Answers' : a.held => a.claim \in Snapshots'
        /\ \A s \in Spokes : \A r \in cache[s] : r.live => r \in Snapshots'
    BY DEF Snapshots, LiveRows
  <2> HIDE DEF K
  <2>3. Truthful(Answers', Snapshots', rows, version', now')
    BY <1>1, <1>4, <2>1, <2>2, FewerAnswers
  <2>4. \A s \in Spokes : CacheOK(Answers', Snapshots', cache[s], seen[s], rows, version', now')
    BY <1>1, <1>4, <2>2, FewerForCache
  <2> QED
    BY <2>3, <2>4 DEF CachesOK
<1>5. CASE Answers' \subseteq Answers
  BY <1>3, <1>4, <1>5
<1>6. ASSUME NEW x, Answers' \subseteq Answers \cup {x}, Fits(x, rows, now), x.version = version',
             x.hubNow = now => now' = now + 1
      PROVE  CachesOK'
  <2>1. x.hubNow < now' /\ \A a \in A : a.hubNow < now
    <3>1. \A a \in A : a.hubNow < now
      BY <1>2 DEF Truthful, Past
    <3>2. HasLive(rows) => Last(rows).updated < now'
      BY <1>3 DEF Truthful, Past
    <3> QED
      BY <1>1, <1>6, <3>1, <3>2 DEF Fits
  <2> HIDE DEF A, K
  <2>2. Truthful(A \cup {x}, K, rows, version', now')
    BY <1>1, <1>3, <1>6, <2>1, AnswerHub
  <2>3. \A s \in Spokes : CacheOK(A \cup {x}, K, cache[s], seen[s], rows, version', now')
    BY <1>1, <1>3, <1>6, AnswerCache
  <2> QED
    BY <1>4, <1>6, <2>2, <2>3 DEF A
<1> QED
  BY <1>5, <1>6

---------------------------------------------------------------------------
(* The hub's transactions                                                  *)

LEMMA CommitStep ==
    ASSUME IInv, IInv', SpokesInv, StampsOrdered,
           NEW c \in Calls, Runs(c, {"acquire", "renew", "release", "status", "force", "sweep", "gate", "retry"}),
           NEW rows \in Seq(Claim), Ordered(rows),
           rows = claims \/ Replaced(claims, rows, now),
           NEW answer, answer = Nothing \/ Fits(answer, rows, now),
           Commit(c, rows, answer)
    PROVE  SpokesInv' /\ SeenGrows
<1>1. calls[c] # Nothing /\ calls[c] \in Call
  BY RunsInFlight, CallInFlight
<1>2. /\ claims' = rows /\ UNCHANGED <<cache, seen>>
      /\ \/ rows = claims /\ version' = version
         \/ rows # claims /\ version' = version + 1 /\ now' = now + 1
      /\ answer # Nothing /\ answer.hubNow = now => now' = now + 1
      /\ now' \in {now, now + 1}
  BY DEF Commit, Stamps, spokeVars
<1>3. now \in Nat /\ now <= now' /\ SeenGrows
  BY <1>2 DEF SeenGrows, IInv, TypeOK
<1>4. CASE calls' = Free(c)
  <2>1. GatesOK' /\ Answers' \subseteq Answers
    BY <1>3, <1>4, CallGoesOn DEF Answered, Free
  <2> QED
    BY <1>2, <1>3, <2>1, HubStep DEF SpokesInv
<1>5. CASE calls' # Free(c)
  <2> DEFINE full == [answer EXCEPT !.version = version']
             call == [[calls[c] EXCEPT !.phase = "answered"] EXCEPT !.answer = full]
  <2>1. /\ answer # Nothing /\ Fits(answer, rows, now) /\ Spoke(c) # Hub
        /\ calls' = [calls EXCEPT ![c].phase = "answered", ![c].answer = full]
    BY <1>5 DEF Commit
  <2>2. /\ Fits(full, rows, now) /\ full.version = version' /\ full.hubNow = answer.hubNow
    <3>1. answer \in Answer /\ version' \in Nat
      BY <2>1 DEF Fits, Carries, IInv, TypeOK
    <3>2. full \in Answer /\ full.version = version' /\ full.hubNow = answer.hubNow
          /\ full.held = answer.held /\ full.claim = answer.claim /\ full.granted = answer.granted
      BY <3>1 DEF Answer
    <3> HIDE DEF full
    <3> QED
      BY <2>1, <3>2 DEF Fits, Carries
  <2> HIDE DEF full
  <2>3. calls' = [calls EXCEPT ![c] = call]
    BY <1>1, <2>1 DEF IInv, TypeOK, Call
  <2>4. call.phase = "answered" /\ call.answer = full /\ call.who = calls[c].who
    BY <1>1 DEF Call
  <2>5. Home[call.who] \in Spokes
    BY <1>1, <2>1, <2>4, CallInFlight, HomeAssumption DEF Spoke
  <2> HIDE DEF call
  <2>6. GatesOK' /\ Answers' \subseteq Answers \cup {full}
    BY <1>3, <2>3, <2>4, <2>5, CallGoesOn DEF Answered
  <2>7. full.hubNow = now => now' = now + 1
    BY <1>2, <2>1, <2>2
  <2> QED
    BY <1>2, <1>3, <2>2, <2>6, <2>7, HubStep DEF SpokesInv
<1> QED
  BY <1>4, <1>5

\* The rows' times are the hub's past.
LEMMA RowsPast ==
    ASSUME SpokesInv, HasLive(claims)
    PROVE  Last(claims).updated < now
BY DEF SpokesInv, CachesOK, Truthful, Past

LEMMA EndReplaces ==
    ASSUME IInv, HasLive(claims)
    PROVE  /\ SetLast(claims, Ended(Last(claims), now)) \in Seq(Claim)
           /\ Ordered(SetLast(claims, Ended(Last(claims), now)))
           /\ ~HasLive(SetLast(claims, Ended(Last(claims), now)))
           /\ Replaced(claims, SetLast(claims, Ended(Last(claims), now)), now)
<1> DEFINE row == Ended(Last(claims), now)
<1>1. claims \in Seq(Claim) /\ Ordered(claims) /\ now \in Nat
  BY DEF IInv, TypeOK, RowsOK, Ordered
<1>2. row \in Claim /\ ~row.live /\ row.uid = Last(claims).uid
  BY <1>1, LastRow, EndedRow
<1> HIDE DEF row
<1>3. /\ SetLast(claims, row) \in Seq(Claim) /\ Ordered(SetLast(claims, row))
      /\ Len(SetLast(claims, row)) = Len(claims) /\ Last(SetLast(claims, row)) = row
      /\ \A i \in 1..Len(claims) :
           SetLast(claims, row)[i] = IF i = Len(claims) THEN row ELSE claims[i]
  BY <1>1, <1>2, SetLastRow, SetLastOrdered
<1>4. ~HasLive(SetLast(claims, row))
  BY <1>2, <1>3 DEF HasLive, Last
<1>5. Replaced(claims, SetLast(claims, row), now)
  BY <1>1, <1>2, <1>3, <1>4 DEF Replaced
<1> QED
  BY <1>3, <1>4, <1>5 DEF row

LEMMA ExpireReplaces ==
    ASSUME IInv
    PROVE  Expire(claims, now) = claims \/ Replaced(claims, Expire(claims, now), now)
<1>1. claims \in Seq(Claim) /\ now \in Nat
  BY DEF IInv, TypeOK
<1> QED
  BY <1>1, ExpireRows, EndReplaces

LEMMA HubRunStep ==
    ASSUME IInv, IInv', SpokesInv, StampsOrdered, NEW c \in Calls, HubRun(c)
    PROVE  SpokesInv' /\ SeenGrows
<1> DEFINE ops == {"acquire", "renew", "release", "status", "force", "sweep", "gate", "retry"}
           rows == Expire(claims, now)
<1>1. Stamp(c) = now /\ now \in Nat
  BY DEF Stamp, IInv, TypeOK
<1>2. Runs(c, ops)
  BY DEF Runs, HubRun, AcquireNew, AcquireHeld, Renew, Release, Status, Lapse, Refuse
<1>3. calls[c].who \in Principals /\ calls[c].kind \in {"hard", "timed"}
  BY <1>2, RunsInFlight, CallInFlight
<1>4. /\ claims \in Seq(Claim) /\ Ordered(claims)
      /\ rows \in Seq(Claim) /\ Ordered(rows) /\ Len(rows) = Len(claims)
      /\ HasLive(rows) => rows = claims
      /\ rows = claims \/ Replaced(claims, rows, now)
  BY <1>1, RowsNow, ExpireRows, ExpireReplaces
<1>5. CASE AcquireNew(c)
  <2> DEFINE new == NewClaim(rows, calls[c].who, calls[c].kind, now)
             after == Append(rows, new)
  <2>1. ~HasLive(rows) /\ Commit(c, after, Says(TRUE, TRUE, new, now))
    BY <1>1, <1>5 DEF AcquireNew
  <2>2. new \in Claim /\ new.uid = Len(rows) + 1 /\ new.live /\ new.updated = now
    BY <1>1, <1>3, <1>4, NewClaimRow DEF NewClaim
  <2> HIDE DEF new
  <2>3. /\ after \in Seq(Claim) /\ Ordered(after) /\ Len(after) = Len(rows) + 1 /\ Last(after) = new
        /\ \A i \in 1..Len(rows) : after[i] = rows[i]
    BY <1>4, <2>1, <2>2, AppendOrdered
  <2>4. Replaced(claims, after, now)
    <3>1. \A i \in 1..Len(rows) : ~rows[i].live
      BY <1>4, <2>1 DEF Ordered, HasLive
    <3>2. Len(claims) \in Nat /\ Len(claims) <= Len(after)
      BY <1>4, <2>3
    <3> HIDE DEF after, rows
    <3> QED
      BY <1>4, <2>2, <2>3, <3>1, <3>2 DEF Replaced
  <2>5. HasLive(after)
    BY <1>4, <2>2, <2>3 DEF HasLive, Last
  <2>6. Fits(Says(TRUE, TRUE, new, now), after, now)
    <3>1. new.updated <= now
      BY <1>1, <2>2
    <3>2. Carries(Says(TRUE, TRUE, new, now))
      BY <1>1, <2>2, SaysCarries
    <3> HIDE DEF after
    <3> QED
      BY <2>3, <2>5, <3>1, <3>2 DEF Fits, Says
  <2> HIDE DEF after
  <2> QED
    BY <1>2, <2>1, <2>3, <2>4, <2>6, CommitStep
<1>6. CASE AcquireHeld(c)
  <2> DEFINE held == Says(Mine(c, Last(claims)), TRUE, Last(claims), Last(claims).updated)
  <2>1. HasLive(claims) /\ Commit(c, claims, held)
    BY <1>1, <1>4, <1>6 DEF AcquireHeld
  <2>2. Last(claims) \in Claim /\ Last(claims).updated \in Nat
    BY <1>4, <2>1, LastRow DEF Claim
  <2>3. Mine(c, Last(claims)) \in BOOLEAN
    BY DEF Mine
  <2>4. Carries(held)
    BY <2>2, <2>3, SaysCarries
  <2>5. Fits(held, claims, now)
    BY <2>1, <2>2, <2>4 DEF Fits, Says
  <2> HIDE DEF held
  <2> QED
    BY <1>2, <1>4, <2>1, <2>5, CommitStep
<1>7. CASE Renew(c)
  <2> DEFINE row == Renewed(Last(claims), now)
             after == SetLast(claims, row)
  <2>1. HasLive(claims) /\ Commit(c, after, Says(TRUE, TRUE, row, now))
    BY <1>1, <1>4, <1>7 DEF Renew
  <2>2. row \in Claim /\ row.uid = Last(claims).uid /\ row.live /\ row.updated = now
    BY <1>1, <1>4, <2>1, LastRow, RenewedRow DEF Renewed
  <2> HIDE DEF row
  <2>3. /\ after \in Seq(Claim) /\ Ordered(after) /\ Len(after) = Len(claims) /\ Last(after) = row
        /\ \A i \in 1..Len(claims) : after[i] = IF i = Len(claims) THEN row ELSE claims[i]
    BY <1>4, <2>1, <2>2, SetLastRow, SetLastOrdered
  <2> HIDE DEF after
  <2>4. Replaced(claims, after, now)
    BY <1>4, <2>1, <2>2, <2>3 DEF Replaced, HasLive, Last
  <2>5. HasLive(after)
    BY <1>4, <2>1, <2>2, <2>3 DEF HasLive, Last
  <2>6. Fits(Says(TRUE, TRUE, row, now), after, now)
    <3>1. row.updated <= now
      BY <1>1, <2>2
    <3>2. Carries(Says(TRUE, TRUE, row, now))
      BY <1>1, <2>2, SaysCarries
    <3> QED
      BY <2>3, <2>5, <3>1, <3>2 DEF Fits, Says
  <2> QED
    BY <1>2, <2>1, <2>3, <2>4, <2>6, CommitStep
<1>8. CASE Release(c)
  <2> DEFINE row == Ended(Last(claims), now)
             after == SetLast(claims, row)
  <2>1. HasLive(claims) /\ Commit(c, after, Says(TRUE, FALSE, row, now))
    BY <1>1, <1>4, <1>8 DEF Release
  <2>2. /\ after \in Seq(Claim) /\ Ordered(after)
        /\ ~HasLive(after) /\ Replaced(claims, after, now)
    BY <2>1, EndReplaces
  <2>3. row \in Claim
    BY <1>1, <1>4, <2>1, LastRow, EndedRow
  <2> HIDE DEF row, after
  <2>4. Fits(Says(TRUE, FALSE, row, now), after, now)
    <3>1. Carries(Says(TRUE, FALSE, row, now))
      BY <1>1, <2>3, SaysCarries
    <3> QED
      BY <2>2, <3>1 DEF Fits, Says
  <2> QED
    BY <1>2, <2>1, <2>2, <2>4, CommitStep
<1>9. CASE Status(c)
  <2> DEFINE held == HasLive(rows)
             claim == IF HasLive(rows) THEN Last(rows) ELSE Nothing
  <2>1. Commit(c, rows, Says(FALSE, held, claim, now))
    BY <1>1, <1>9 DEF Status
  <2>2. /\ held \in BOOLEAN /\ claim \in Claim \cup {Nothing}
        /\ held => claim \in Claim /\ claim = Last(rows) /\ claim.updated <= now
    <3>1. held => Last(rows) \in Claim /\ Last(rows).updated \in Nat /\ Last(rows).updated <= now
      <4> SUFFICES ASSUME HasLive(rows)
                   PROVE  Last(rows) \in Claim /\ Last(rows).updated \in Nat /\ Last(rows).updated <= now
        OBVIOUS
      <4>1. rows = claims /\ HasLive(claims)
        BY <1>4
      <4>2. Last(claims) \in Claim /\ Last(claims).updated \in Nat /\ Last(claims).updated < now
        BY <1>4, <4>1, LastRow, RowsPast DEF Claim
      <4> QED
        BY <1>1, <4>1, <4>2
    <3> QED
      BY <3>1 DEF HasLive
  <2>3. Carries(Says(FALSE, held, claim, now))
    <3> HIDE DEF held, claim
    <3> QED
      BY <1>1, <2>2, SaysCarries
  <2>4. Fits(Says(FALSE, held, claim, now), rows, now)
    BY <2>2, <2>3 DEF Fits, Says
  <2> HIDE DEF held, claim, rows
  <2> QED
    BY <1>2, <1>4, <2>1, <2>4, CommitStep
<1>10. CASE Lapse(c)
  <2>1. Commit(c, rows, Nothing)
    BY <1>1, <1>10 DEF Lapse
  <2> HIDE DEF rows
  <2> QED
    BY <1>2, <1>4, <2>1, CommitStep
<1>11. CASE Refuse(c)
  BY <1>2, <1>4, <1>11, CommitStep DEF Refuse
<1> QED
  BY <1>5, <1>6, <1>7, <1>8, <1>9, <1>10, <1>11 DEF HubRun

LEMMA CloseStep ==
    ASSUME IInv, IInv', SpokesInv, StampsOrdered, CloseIssue
    PROVE  SpokesInv' /\ SeenGrows
<1>1. /\ HasLive(claims) /\ claims' = SetLast(claims, Ended(Last(claims), now))
      /\ version' = version + 1 /\ now' = now + 1 /\ UNCHANGED <<calls, cache, seen>>
  BY DEF CloseIssue, spokeVars
<1>2. Answers' = Answers /\ SeenGrows /\ now \in Nat
  BY <1>1 DEF Answers, Answering, SeenGrows, IInv, TypeOK
<1>3. GatesOK'
  BY <1>1 DEF SpokesInv, GatesOK, Answering, Spoke
<1>4. now <= now'
  BY <1>1, <1>2
<1> QED
  BY <1>1, <1>2, <1>3, <1>4, EndReplaces, HubStep DEF SpokesInv

---------------------------------------------------------------------------
(* The spokes' steps                                                       *)

\* A step that leaves hub and caches alone and ends, sends or forwards one call.
LEMMA QuietStep ==
    ASSUME IInv, IInv', SpokesInv, UNCHANGED <<claims, version, cache, seen>>, now <= now',
           NEW c \in Calls, NEW call, ~Answered(call), calls' = [calls EXCEPT ![c] = call]
    PROVE  SpokesInv' /\ SeenGrows
<1>1. SeenGrows
  BY DEF SeenGrows, IInv, TypeOK
<1>2. GatesOK' /\ Answers' \subseteq Answers
  BY <1>1, CallGoesOn
<1> QED
  BY <1>2, SpokeStep DEF SpokesInv

LEMMA UserStep ==
    ASSUME IInv, IInv', SpokesInv, NEW c \in Calls,
           Send(c) \/ Arrive(c) \/ (\E s \in Spokes : Retry(s, c))
    PROVE  SpokesInv' /\ SeenGrows
<1>1. now \in Nat
  BY DEF IInv, TypeOK
<1>2. ASSUME NEW op, NEW p, NEW k, Place(c, op, p, k), UNCHANGED <<now, hubVars, cache, seen>>
      PROVE  SpokesInv' /\ SeenGrows
  <2> DEFINE call == [op |-> op, who |-> p, kind |-> k, at |-> Reading, answer |-> Nothing,
                      phase |-> IF Home[p] = Hub THEN "queued" ELSE "sent"]
  <2>1. calls' = [calls EXCEPT ![c] = call] /\ ~Answered(call)
    BY <1>2 DEF Place, Answered
  <2>2. UNCHANGED <<claims, version, cache, seen>> /\ now <= now'
    BY <1>1, <1>2 DEF hubVars
  <2> HIDE DEF call
  <2> QED
    BY <2>1, <2>2, QuietStep
<1>3. CASE Send(c)
  BY <1>2, <1>3 DEF Send, spokeVars
<1>4. CASE \E s \in Spokes : Retry(s, c)
  BY <1>2, <1>4 DEF Retry, spokeVars
<1>5. CASE Arrive(c)
  <2> DEFINE call == [[calls[c] EXCEPT !.phase = "queued"] EXCEPT !.at = Reading]
  <2>1. calls[c] \in Call
    BY <1>5, CallInFlight DEF Arrive, Phase, Idle
  <2>2. calls' = [calls EXCEPT ![c] = call]
    BY <1>5, <2>1 DEF Arrive, IInv, TypeOK, Call
  <2>3. ~Answered(call)
    BY <2>1 DEF Answered, Call
  <2>4. UNCHANGED <<claims, version, cache, seen>> /\ now <= now'
    BY <1>1, <1>5 DEF Arrive, hubVars, spokeVars
  <2> HIDE DEF call
  <2> QED
    BY <2>2, <2>3, <2>4, QuietStep
<1> QED
  BY <1>3, <1>4, <1>5

\* The answer at hand is one of those on their way.
LEMMA AnswerAtHand ==
    ASSUME IInv, SpokesInv, NEW c \in Calls, Phase(c) = "answered"
    PROVE  /\ calls[c].answer \in Answers /\ Spoke(c) \in Spokes
           /\ calls[c] # Nothing /\ calls[c].phase = "answered" /\ calls[c] \in Call
<1>1. c \in Answering /\ calls[c] # Nothing /\ calls[c].phase = "answered"
  BY DEF Answering, Phase, Idle
<1> QED
  BY <1>1, CallInFlight DEF Answers, SpokesInv, GatesOK

\* Taking it changes one cache, or none.
LEMMA TakeStep ==
    ASSUME IInv, IInv', SpokesInv, NEW c \in Calls, Phase(c) = "answered",
           Take(Spoke(c), calls[c].answer), UNCHANGED <<claims, version, now>>,
           NEW call, calls' = [calls EXCEPT ![c] = call],
           Answered(call) => /\ call.who = calls[c].who /\ call.answer = calls[c].answer
                             /\ ~Clashes(Spoke(c), calls[c].answer)
    PROVE  SpokesInv' /\ SeenGrows
<1> DEFINE s == Spoke(c)
           a == calls[c].answer
<1>1. a \in Answers /\ s \in Spokes
  BY AnswerAtHand
<1>2. /\ now \in Nat /\ cache[s] \in SUBSET Claim
      /\ \A r \in Spokes : seen[r] \in Nat /\ seen'[r] \in Nat
  BY <1>1 DEF IInv, TypeOK
<1>3. /\ cache'[s] = Applied(s, a)
      /\ seen'[s] = IF Applied(s, a) = cache[s] THEN seen[s] ELSE a.version
      /\ \A r \in Spokes \ {s} : cache'[r] = cache[r] /\ seen'[r] = seen[r]
  <2> HIDE DEF s, a
  <2>1. Take(s, a)
    BY DEF s, a
  <2> QED
    BY <1>1, <2>1 DEF Take, IInv, TypeOK
<1>4. /\ Truthful(Answers, Snapshots, claims, version, now)
      /\ \A r \in Spokes : CacheOK(Answers, Snapshots, cache[r], seen[r], claims, version, now)
      /\ claims \in Seq(Claim) /\ Ordered(claims) /\ version \in Nat
  BY DEF SpokesInv, CachesOK, IInv, TypeOK, RowsOK, Ordered
<1>5. SeenGrows
  <2> SUFFICES ASSUME NEW r \in Spokes
               PROVE  seen[r] <= seen'[r]
    BY <1>2 DEF SeenGrows
  <2>1. CASE r # s \/ Applied(s, a) = cache[s]
    <3>1. seen'[r] = seen[r]
      BY <1>3, <2>1
    <3> QED
      BY <1>2, <3>1
  <2>2. CASE r = s /\ Applied(s, a) # cache[s]
    <3> HIDE DEF s, a
    <3>1. seen[s] <= a.version
      BY <1>1, <2>2, TakeAnswer
    <3> QED
      BY <1>3, <2>2, <3>1
  <2> QED
    BY <2>1, <2>2
<1>6. ~Clashes(s, a) /\ a.held => a.version <= seen'[s]
  <2>1. CASE Applied(s, a) # cache[s]
    <3>1. a.version \in Nat
      BY AnsweredCall DEF Carries, Answer
    <3> QED
      BY <1>3, <2>1, <3>1
  <2>2. CASE Applied(s, a) = cache[s] /\ ~Clashes(s, a) /\ a.held
    <3> HIDE DEF s, a
    <3>1. a.version <= seen[s]
      BY <1>1, <1>2, <1>4, <2>2, TakenForGate
    <3> QED
      BY <1>3, <2>2, <3>1
  <2> QED
    BY <2>1, <2>2
<1>7. GatesOK' /\ Answers' \subseteq Answers
  <2>1. Answered(call) => /\ Home[call.who] = s /\ call.answer = a /\ ~Clashes(s, a)
    BY DEF Spoke
  <2> HIDE DEF s, a
  <2>2. Answered(call) => /\ Home[call.who] \in Spokes
                          /\ call.phase = "checking" /\ call.answer.held
                               => call.answer.version <= seen'[Home[call.who]]
    BY <1>1, <1>6, <2>1
  <2>3. GatesOK' /\ Answers' \subseteq Answers \cup (IF Answered(call) THEN {call.answer} ELSE {})
    BY <1>5, <2>2, CallGoesOn
  <2> QED
    BY <1>1, <2>1, <2>3
<1>8. \A r \in Spokes :
        \/ cache'[r] = cache[r] /\ seen'[r] = seen[r]
        \/ \E b \in Answers : /\ Applied(r, b) # cache[r] /\ cache'[r] = Applied(r, b)
                              /\ seen'[r] = b.version
  <2> HIDE DEF s, a
  <2> QED
    BY <1>1, <1>3
<1>9. now <= now'
  BY <1>2
<1> QED
  BY <1>5, <1>7, <1>8, <1>9, SpokeStep DEF SpokesInv

LEMMA SpokeTakesStep ==
    ASSUME IInv, IInv', SpokesInv, NEW c \in Calls, SpokeTakes(c)
    PROVE  SpokesInv' /\ SeenGrows
<1>1. ~Answered(Nothing) /\ now \in Nat /\ Free(c) = [calls EXCEPT ![c] = Nothing]
  BY DEF Answered, Free, IInv, TypeOK
<1>2. CASE Deliver(c)
  <2>1. /\ Phase(c) = "answered" /\ Take(Spoke(c), calls[c].answer)
        /\ calls' = Free(c) /\ UNCHANGED <<claims, version, now>>
    BY <1>2 DEF Deliver, hubVars
  <2> QED
    BY <1>1, <2>1, TakeStep
<1>3. CASE Resolve(c)
  <2>1. /\ Phase(c) = "answered" /\ calls' = Free(c) /\ UNCHANGED <<claims, version, now>>
        /\ Take(Spoke(c), calls[c].answer) \/ UNCHANGED <<cache, seen>>
    BY <1>3 DEF Resolve, hubVars, spokeVars
  <2>2. CASE Take(Spoke(c), calls[c].answer)
    BY <1>1, <2>1, <2>2, TakeStep
  <2>3. CASE UNCHANGED <<cache, seen>>
    <3>1. now <= now'
      BY <1>1, <2>1
    <3> QED
      BY <1>1, <2>1, <2>3, <3>1, QuietStep
  <2> QED
    BY <2>1, <2>2, <2>3
<1>4. CASE Reject(c) \/ Admit(c) \/ Deny(c)
  <2>1. calls' = Free(c) /\ UNCHANGED <<claims, version, now, cache, seen>>
    BY <1>4 DEF Reject, Admit, Deny, hubVars, spokeVars
  <2>2. now <= now'
    BY <1>1, <2>1
  <2> QED
    BY <1>1, <2>1, <2>2, QuietStep
<1>5. CASE DeliverGate(c)
  <2> DEFINE call == [calls[c] EXCEPT !.phase = "checking"]
  <2>1. /\ Phase(c) = "answered" /\ Take(Spoke(c), calls[c].answer)
        /\ UNCHANGED <<claims, version, now>>
        /\ calls' = IF Clashes(Spoke(c), calls[c].answer) THEN Free(c)
                    ELSE [calls EXCEPT ![c].phase = "checking"]
    BY <1>5 DEF DeliverGate, hubVars
  <2>2. CASE Clashes(Spoke(c), calls[c].answer)
    BY <1>1, <2>1, <2>2, TakeStep
  <2>3. CASE ~Clashes(Spoke(c), calls[c].answer)
    <3>1. calls' = [calls EXCEPT ![c] = call]
      BY <2>1, <2>3 DEF IInv, TypeOK
    <3>2. call.who = calls[c].who /\ call.answer = calls[c].answer
      BY <2>1, AnswerAtHand DEF Call
    <3> HIDE DEF call
    <3> QED
      BY <2>1, <2>3, <3>1, <3>2, TakeStep
  <2> QED
    BY <2>2, <2>3
<1> QED
  BY <1>2, <1>3, <1>4, <1>5 DEF SpokeTakes

LEMMA FaultStep ==
    ASSUME IInv, IInv', SpokesInv, NEW c \in Calls, Lose(c) \/ Abandon(c)
    PROVE  SpokesInv' /\ SeenGrows
<1>1. calls[c] # Nothing /\ GivesUp(c)
  BY DEF Lose, Abandon, Phase, Idle
<1>2. calls[c] \in Call /\ now \in Nat
  BY <1>1, CallInFlight DEF IInv, TypeOK
<1>3. UNCHANGED <<claims, version, now, cache, seen>> /\ now <= now'
  BY <1>1, <1>2 DEF GivesUp, hubVars
<1>4. CASE Lose(c) /\ calls[c].op # "gate"
  BY <1>3, <1>4, QuietStep DEF Lose, Free, Answered
<1>5. CASE Lose(c) /\ calls[c].op = "gate"
  <2> DEFINE call == [[calls[c] EXCEPT !.phase = "checking"] EXCEPT !.answer = Nothing]
  <2>1. calls' = [calls EXCEPT ![c] = call]
    BY <1>2, <1>5 DEF Lose, IInv, TypeOK, Call
  <2>2. ~Answered(call)
    BY <1>2 DEF Answered, Call
  <2> HIDE DEF call
  <2> QED
    BY <1>3, <2>1, <2>2, QuietStep
<1>6. CASE Abandon(c)
  <2> DEFINE call == [calls[c] EXCEPT !.phase = "orphan"]
  <2>1. calls' = [calls EXCEPT ![c] = call]
    BY <1>6 DEF Abandon, IInv, TypeOK
  <2>2. ~Answered(call)
    BY <1>2 DEF Answered, Call
  <2> HIDE DEF call
  <2> QED
    BY <1>3, <2>1, <2>2, QuietStep
<1> QED
  BY <1>4, <1>5, <1>6

LEMMA StillStep ==
    ASSUME IInv, IInv', SpokesInv, UNCHANGED <<claims, version, calls, cache, seen>>, now <= now'
    PROVE  SpokesInv' /\ SeenGrows
<1>1. SeenGrows /\ Answers' = Answers
  BY DEF SeenGrows, IInv, TypeOK, Answers, Answering
<1>2. GatesOK'
  BY DEF SpokesInv, GatesOK, Answering, Spoke
<1> QED
  BY <1>1, <1>2, SpokeStep DEF SpokesInv

---------------------------------------------------------------------------
(* The theorems                                                            *)

LEMMA SpokesStart == Init => SpokesInv
<1> SUFFICES ASSUME Init PROVE SpokesInv
  OBVIOUS
<1>1. Answering = {}
  BY DEF Init, Answering
<1>2. Answers = {} /\ ~HasLive(claims)
  BY <1>1 DEF Answers, Init, HasLive
<1>3. Snapshots = {}
  BY <1>2 DEF Snapshots, LiveRows, Init
<1>4. \A s \in Spokes : cache[s] = {} /\ seen[s] = 0 /\ version = 0
  BY DEF Init
<1>5. Truthful(Answers, Snapshots, claims, version, now)
  BY <1>2, <1>3 DEF Truthful, Past, Ending, Growing, Timely, Versioned
<1>6. \A s \in Spokes : CacheOK(Answers, Snapshots, cache[s], seen[s], claims, version, now)
  BY <1>2, <1>4 DEF CacheOK, Known, NotBefore, NotAfter, Shows
<1> QED
  BY <1>1, <1>5, <1>6 DEF SpokesInv, CachesOK, GatesOK

LEMMA SpokesStep ==
    ASSUME StampsOrdered, MixedSpokes = {}, IInv, IInv', SpokesInv, [Next]_vars
    PROVE  SpokesInv' /\ SeenGrows
<1>1. now \in Nat
  BY DEF IInv, TypeOK
<1>2. CASE Tick \/ UNCHANGED vars
  <2>1. UNCHANGED <<claims, version, calls, cache, seen>> /\ now <= now'
    BY <1>1, <1>2 DEF Tick, vars, hubVars, spokeVars
  <2> QED
    BY <2>1, StillStep
<1>3. CASE CloseIssue
  BY <1>3, CloseStep
<1>4. ASSUME NEW c \in Calls,
             Send(c) \/ Arrive(c) \/ HubRun(c) \/ SpokeTakes(c) \/ Lose(c) \/ Abandon(c)
      PROVE  SpokesInv' /\ SeenGrows
  BY <1>4, UserStep, HubRunStep, SpokeTakesStep, FaultStep
<1>5. ASSUME NEW s \in Spokes, Turn(s) \/ ExpireCached(s)
      PROVE  SpokesInv' /\ SeenGrows
  <2>1. PICK c \in Calls : Retry(s, c)
    BY <1>5 DEF Turn, ExpireCached
  <2> QED
    BY <2>1, UserStep
<1> QED
  BY <1>2, <1>3, <1>4, <1>5 DEF Next

LEMMA SpokesInvariance ==
    ASSUME StampsOrdered, MixedSpokes = {}
    PROVE  Spec => []SpokesInv
<1>1. IInv /\ IInv' /\ SpokesInv /\ [Next]_vars => SpokesInv'
  BY SpokesStep
<1> QED
  BY <1>1, SpokesStart, Invariance, PTL DEF Spec

\* A lease that a spoke has recorded as over is over at the hub, whatever answers
\* are lost or come late (applyClaimStatusTx ends a cached row on the hub's word).
THEOREM EndedAtTheHub == StampsOrdered /\ MixedSpokes = {} => (Spec => []EndsAtTheHubFirst)
<1> SUFFICES ASSUME StampsOrdered, MixedSpokes = {}
             PROVE  Spec => []EndsAtTheHubFirst
  OBVIOUS
<1>1. IInv /\ SpokesInv => EndsAtTheHubFirst
  <2> SUFFICES ASSUME IInv, SpokesInv, NEW s \in Spokes, NEW row \in cache[s], ~row.live,
                      NEW i \in DOMAIN claims, claims[i].uid = row.uid
               PROVE  ~claims[i].live
    BY DEF EndsAtTheHubFirst
  <2>1. claims[i].uid = i
    BY DEF IInv, TypeOK, RowsOK
  <2> QED
    BY <2>1 DEF SpokesInv, CachesOK, CacheOK, Known
<1> QED
  BY <1>1, Invariance, SpokesInvariance, PTL

\* A cache never falls back behind what it took from a later transaction of the
\* hub, in whatever order the answers arrive (latestClaimUpdatedAtForIssueTx and
\* the comparison of revisions see to it).
THEOREM CachesNeverFallBack == StampsOrdered /\ MixedSpokes = {} => (Spec => NewestAnswerWins)
<1> SUFFICES ASSUME StampsOrdered, MixedSpokes = {}
             PROVE  Spec => NewestAnswerWins
  OBVIOUS
<1>1. IInv /\ IInv' /\ SpokesInv /\ [Next]_vars
        => [\A s \in Spokes : seen[s] <= seen'[s]]_vars
  BY SpokesStep DEF SeenGrows
<1> QED
  BY <1>1, Invariance, SpokesInvariance, PTL DEF Spec, NewestAnswerWins

\* An edit whose refresh showed another home's lease in force goes through only if
\* the cache has learned of a later hub transaction (CheckClaimGate after
\* refreshSpokeClaimStatusForGate).
THEOREM GateHeedsRefresh == StampsOrdered /\ MixedSpokes = {} => (Spec => GateRespectsRefresh)
<1> SUFFICES ASSUME StampsOrdered, MixedSpokes = {}
             PROVE  Spec => GateRespectsRefresh
  OBVIOUS
<1>1. ASSUME IInv, SpokesInv, NEW c \in Calls, Admit(c), Blocks(Spoke(c), calls[c].answer)
      PROVE  seen[Spoke(c)] > calls[c].answer.version
  <2> DEFINE s == Spoke(c)
             a == calls[c].answer
  <2>1. /\ calls[c] # Nothing /\ calls[c].phase = "checking" /\ a # Nothing
        /\ a.held /\ Home[a.claim.holder] # s /\ ~DueAt(a.claim, now) /\ GateOpen(s)
    BY <1>1 DEF Admit, Phase, Idle, Blocks
  <2>2. c \in Answering /\ a \in Answers
    BY <2>1 DEF Answering, Answers
  <2>3. s \in Spokes /\ a.version <= seen[s] /\ a.version \in Nat /\ seen[s] \in Nat
    <3>1. s \in Spokes /\ a.version <= seen[s]
      BY <1>1, <2>1, <2>2 DEF SpokesInv, GatesOK
    <3>2. a.version \in Nat
      BY <1>1, <2>2 DEF SpokesInv, CachesOK, Truthful, Past, Carries, Answer
    <3> QED
      BY <1>1, <3>1, <3>2 DEF IInv, TypeOK
  <2>4. ASSUME a.version = seen[s]
        PROVE  FALSE
    <3>1. a.claim \in cache[s] /\ a.claim.live
      BY <1>1, <2>1, <2>2, <2>3, <2>4 DEF SpokesInv, CachesOK, CacheOK, Shows, Truthful, Past
    <3>2. a.claim \in LiveRows(s)
      BY <3>1 DEF LiveRows
    <3> QED
      BY <2>1, <3>2 DEF GateOpen
  <2> QED
    BY <2>3, <2>4
<1>2. IInv /\ SpokesInv
        => [\A c \in Calls : Admit(c) /\ Blocks(Spoke(c), calls[c].answer)
                               => seen[Spoke(c)] > calls[c].answer.version]_vars
  BY <1>1
<1> QED
  BY <1>2, Invariance, SpokesInvariance, PTL DEF GateRespectsRefresh
=============================================================================
