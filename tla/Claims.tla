------------------------------- MODULE Claims -------------------------------
(***************************************************************************)
(* Leases ("claims" in the code) on one issue of a federated project.  The *)
(* hub arbitrates; a spoke forwards its users' lease calls, keeps a cache  *)
(* of what the hub answered, queues an acquire the hub could not be        *)
(* reached for, retries it in every sync turn, and consults the cache      *)
(* before it lets a user edit the issue.                                   *)
(*                                                                         *)
(* Calls overlap, their answers may be lost or arrive in any order, and a  *)
(* hub handler reads its clock before it waits for the writer, so hub      *)
(* transactions need not run in the order of their clock readings.  With   *)
(* StampsOrdered they do, each that leaves its reading in a row or in an   *)
(* answer at a millisecond of its own.                                     *)
(*                                                                         *)
(* A principal stands for the holder tuple of a direct spoke: the actor    *)
(* and instance of its home and its own client kind.  Left out: relays and *)
(* their renaming of holders, purposes and reasons, claim events, the      *)
(* claim.violated annotation, and a hub that revoked the spoke's           *)
(* capability.                                                             *)
(***************************************************************************)
EXTENDS Integers, Sequences, FiniteSets

CONSTANTS
    Principals, Spokes, Hub,
    Home,            \* where each principal works: a spoke, or the hub
    Kinds,           \* the kinds of lease each principal asks for
    MixedSpokes,     \* spokes whose daemon is the hub of another project
    Calls,           \* the calls that may be in flight at once
    Nothing,
    TTL,
    StampsOrdered,
    MaxNow, MaxSends, MaxFaults   \* bounds: clock ticks, user calls, lost calls

ASSUME HomeAssumption ==
    Hub \notin Spokes /\ Home \in [Principals -> Spokes \cup {Hub}]
ASSUME KindsAssumption == Kinds \in [Principals -> SUBSET {"hard", "timed"}]
ASSUME NothingAssumption == \* the absence of a lease is not itself one
    Nothing \notin [serial : Nat \ {0}, holder : Principals,
                    kind : {"hard", "timed"}, expires : Nat]
ASSUME BoundsAssumption ==
    /\ TTL \in Nat \ {0} /\ StampsOrdered \in BOOLEAN
    /\ MixedSpokes \subseteq Spokes
    /\ MaxNow \in Nat /\ MaxSends \in Nat /\ MaxFaults \in Nat

VARIABLES
    now,
    claims,    \* the hub's issue_claims rows, in id order
    version,   \* hub transactions that changed claims (history)
    calls,     \* the calls in flight
    cache,     \* each spoke's issue_claims rows
    seen,      \* version of the answer each cache last took (history)
    pending,   \* each spoke's open pending_claim_requests
    sends, faults

hubVars == <<claims, version>>
spokeVars == <<cache, seen, pending>>
vars == <<now, hubVars, calls, spokeVars, sends, faults>>

Claim == [uid : Nat \ {0}, holder : Principals, kind : {"hard", "timed"},
          expires : Nat, live : BOOLEAN, revision : Nat \ {0}, updated : Nat]
Answer == [granted : BOOLEAN, held : BOOLEAN, claim : Claim \cup {Nothing},
           hubNow : Nat, version : Nat]
Call == [op : {"acquire", "renew", "release", "status", "force", "sweep", "gate", "retry"},
         who : Principals, kind : {"hard", "timed"},
         phase : {"sent", "queued", "orphan", "answered", "checking"},
         at : Nat, answer : Answer \cup {Nothing}]
Request == [who : Principals, kind : {"hard", "timed"}]

\* Every row, request, answer and call in flight is one the code can build: a
\* granted or held answer carries its claim, a queued call a reading of the clock.
TypeOK ==
    /\ now \in Nat /\ version \in Nat /\ sends \in Nat /\ faults \in Nat
    /\ claims \in Seq(Claim)
    /\ calls \in [Calls -> Call \cup {Nothing}]
    /\ cache \in [Spokes -> SUBSET Claim] /\ seen \in [Spokes -> Nat]
    /\ pending \in [Spokes -> SUBSET Request]

Init ==
    /\ now = 1 /\ claims = <<>> /\ version = 0
    /\ calls = [c \in Calls |-> Nothing]
    /\ cache = [s \in Spokes |-> {}] /\ seen = [s \in Spokes |-> 0]
    /\ pending = [s \in Spokes |-> {}]
    /\ sends = 0 /\ faults = 0

---------------------------------------------------------------------------
(* A call on its way                                                       *)

Idle(c) == calls[c] = Nothing
Phase(c) == IF Idle(c) THEN "idle" ELSE calls[c].phase
Spoke(c) == Home[calls[c].who]
Free(c) == [calls EXCEPT ![c] = Nothing]

\* A handler's clock reading; with StampsOrdered taken as the transaction runs.
Reading == IF StampsOrdered THEN 0 ELSE now
Stamp(c) == IF StampsOrdered THEN now ELSE calls[c].at

Place(c, op, p, k) ==
    calls' = [calls EXCEPT ![c] =
        [op |-> op, who |-> p, kind |-> k, at |-> Reading, answer |-> Nothing,
         phase |-> IF Home[p] = Hub THEN "queued" ELSE "sent"]]

OpsOf(p) == IF Home[p] = Hub
            THEN {"acquire", "renew", "release", "status", "force", "sweep"}
            ELSE {"acquire", "renew", "release", "status", "gate"}

\* A user calls, an editor's request reaches the lease gate, the sweeper runs.
Send(c) ==
    /\ Idle(c) /\ sends < MaxSends
    /\ \E p \in Principals : \E op \in OpsOf(p) :
         \E k \in IF op = "acquire" THEN Kinds[p] ELSE {"hard"} : Place(c, op, p, k)
    /\ sends' = sends + 1
    /\ UNCHANGED <<now, hubVars, spokeVars, faults>>

\* One sync turn at a time asks again for a pending request.
Retry(s, c) ==
    /\ Idle(c)
    /\ \A d \in Calls : ~(Phase(d) # "idle" /\ calls[d].op = "retry" /\ Spoke(d) = s)
    /\ \E q \in pending[s] : Place(c, "retry", q.who, q.kind)
    /\ UNCHANGED <<now, hubVars, spokeVars, sends, faults>>

\* The hub's handler reads its clock, then waits for the writer.
Arrive(c) ==
    /\ Phase(c) = "sent"
    /\ calls' = [calls EXCEPT ![c].phase = "queued", ![c].at = Reading]
    /\ UNCHANGED <<now, hubVars, spokeVars, sends, faults>>

---------------------------------------------------------------------------
(* The hub's transactions                                                  *)

Runs(c, ops) == Phase(c) \in {"queued", "orphan"} /\ calls[c].op \in ops

HasLive(rows) == Len(rows) > 0 /\ rows[Len(rows)].live
Last(rows) == rows[Len(rows)]
\* (mutant) expires a lease one tick early
DueEarly(row, t) == row.live /\ row.kind = "timed" /\ row.expires <= t + 1

DueAt(row, t) == row.live /\ row.kind = "timed" /\ row.expires <= t

Ended(row, t) ==
    [uid |-> row.uid, holder |-> row.holder, kind |-> row.kind, expires |-> row.expires,
     live |-> FALSE, revision |-> row.revision + 1, updated |-> t]
SetLast(rows, row) == [rows EXCEPT ![Len(rows)] = row]

\* expireTimedClaimsTx
Expire(rows, t) == IF HasLive(rows) /\ DueAt(Last(rows), t)
                   THEN SetLast(rows, Ended(Last(rows), t)) ELSE rows

\* (mutant) numbers claims from zero
NewClaimFromZero(rows, p, k, t) ==
    [uid |-> Len(rows), holder |-> p, kind |-> k, live |-> TRUE, revision |-> 1,
     updated |-> t, expires |-> IF k = "timed" THEN t + TTL ELSE 0]

NewClaim(rows, p, k, t) ==
    [uid |-> Len(rows) + 1, holder |-> p, kind |-> k, live |-> TRUE, revision |-> 1,
     updated |-> t, expires |-> IF k = "timed" THEN t + TTL ELSE 0]

\* The transaction leaves its reading of the clock in a row or in its answer.
Stamps(rows, answer) == rows # claims \/ (answer # Nothing /\ answer.hubNow = now)

\* The transaction ends; an answer nobody waits for any more is dropped.
Commit(c, rows, answer) ==
    /\ claims' = rows
    /\ version' = IF rows = claims THEN version ELSE version + 1
    /\ now' = IF StampsOrdered /\ Stamps(rows, answer) THEN now + 1 ELSE now
    /\ calls' = IF answer = Nothing \/ Phase(c) = "orphan" \/ Spoke(c) = Hub
                THEN Free(c)
                ELSE [calls EXCEPT ![c].phase = "answered",
                                   ![c].answer = [answer EXCEPT !.version = version']]
    /\ UNCHANGED <<spokeVars, sends, faults>>

Says(granted, held, claim, hubNow) ==
    [granted |-> granted, held |-> held, claim |-> claim, hubNow |-> hubNow, version |-> 0]

Mine(c, row) == row.holder = calls[c].who

\* AcquireClaim: a new claim, or the claim in force and whether it is the caller's.
AcquireNew(c) ==
    LET t == Stamp(c)
        rows == Expire(claims, t)
        new == NewClaim(rows, calls[c].who, calls[c].kind, t)
    IN /\ Runs(c, {"acquire", "retry"}) /\ ~HasLive(rows)
       /\ Commit(c, Append(rows, new), Says(TRUE, TRUE, new, t))

AcquireHeld(c) ==
    /\ Runs(c, {"acquire", "retry"}) /\ HasLive(Expire(claims, Stamp(c)))
    /\ Commit(c, claims, Says(Mine(c, Last(claims)), TRUE, Last(claims), Last(claims).updated))

\* RenewClaim
Renewed(row, t) ==
    [uid |-> row.uid, holder |-> row.holder, kind |-> row.kind, expires |-> t + TTL,
     live |-> TRUE, revision |-> row.revision + 1, updated |-> t]

Renew(c) ==
    LET t == Stamp(c)
        row == Renewed(Last(claims), t)
    IN /\ Runs(c, {"renew"}) /\ HasLive(Expire(claims, t))
       /\ Mine(c, Last(claims)) /\ Last(claims).kind = "timed"
       /\ Commit(c, SetLast(claims, row), Says(TRUE, TRUE, row, t))

\* ReleaseClaim, and ForceReleaseClaim whoever holds it
Release(c) ==
    LET t == Stamp(c)
        row == Ended(Last(claims), t)
    IN /\ Runs(c, {"release", "force"}) /\ HasLive(Expire(claims, t))
       /\ calls[c].op = "force" \/ Mine(c, Last(claims))
       /\ Commit(c, SetLast(claims, row), Says(TRUE, FALSE, row, t))

\* ClaimStatus, which persists expiry, also for the lease gate
Status(c) ==
    LET t == Stamp(c)
        rows == Expire(claims, t)
    IN /\ Runs(c, {"status", "gate"})
       /\ Commit(c, rows, Says(FALSE, HasLive(rows),
                               IF HasLive(rows) THEN Last(rows) ELSE Nothing, t))

\* The sweeper, and a renew or release that finds its claim just expired: the
\* expiry is committed and the call fails.
Lapse(c) ==
    LET rows == Expire(claims, Stamp(c))
    IN /\ Runs(c, {"renew", "release", "force", "sweep"})
       /\ rows # claims
       /\ calls[c].op \in {"force", "sweep"} \/ Mine(c, Last(claims))
       /\ Commit(c, rows, Nothing)

\* Not held by the caller, or hard and so not renewable: rolled back, also the
\* expiry of someone else's claim.
Refuse(c) ==
    LET rows == Expire(claims, Stamp(c))
    IN /\ Runs(c, {"renew", "release", "force", "sweep"})
       /\ HasLive(claims) =>
            \/ calls[c].op \in {"renew", "release"} /\ ~Mine(c, Last(claims))
            \/ rows = claims /\ calls[c].op = "sweep"
            \/ rows = claims /\ calls[c].op = "renew" /\ Last(claims).kind = "hard"
       /\ Commit(c, claims, Nothing)

\* Ingesting or making an issue.closed releases whatever lease is in force.
CloseIssue ==
    /\ HasLive(claims)
    /\ claims' = SetLast(claims, Ended(Last(claims), now))
    /\ version' = version + 1
    /\ now' = IF StampsOrdered THEN now + 1 ELSE now
    /\ sends < MaxSends /\ sends' = sends + 1
    /\ UNCHANGED <<calls, spokeVars, faults>>

HubRun(c) == \/ AcquireNew(c) \/ AcquireHeld(c) \/ Renew(c) \/ Release(c)
             \/ Status(c) \/ Lapse(c) \/ Refuse(c)
---------------------------------------------------------------------------
(* The spoke takes an answer                                               *)

LiveRows(s) == {row \in cache[s] : row.live}
Newest(s) == {row.updated : row \in cache[s]}

\* (mutant) compares with the live row only
OutdatedByLive(s, answer) == \E row \in LiveRows(s) : answer.hubNow < row.updated

\* (mutant) applies answers as they come
NeverOutdated(s, answer) == FALSE

\* latestClaimUpdatedAtForIssueTx: what the cache holds is newer.
Outdated(s, answer) == \E u \in Newest(s) : answer.hubNow < u

\* StaleSameClaimRefresh
Stale(row, claim) == \/ claim.updated < row.updated
                     \/ claim.updated = row.updated /\ claim.revision < row.revision

Cached(s, claim) == \E row \in LiveRows(s) : row.uid = claim.uid

\* Inserting a claim whose uid the table already has fails: claim_uid is UNIQUE.
Clashes(s, answer) ==
    /\ ~Outdated(s, answer) /\ answer.held /\ ~Cached(s, answer.claim)
    /\ \E row \in cache[s] : row.uid = answer.claim.uid

\* applyClaimStatusTx
Applied(s, answer) ==
    LET ended == {Ended(row, answer.hubNow) : row \in LiveRows(s)}
        past == cache[s] \ LiveRows(s)
    IN IF Outdated(s, answer) \/ Clashes(s, answer) THEN cache[s]
       ELSE IF ~answer.held THEN past \cup ended
       ELSE IF ~Cached(s, answer.claim) THEN past \cup ended \cup {answer.claim}
       ELSE IF \E row \in LiveRows(s) : Stale(row, answer.claim) THEN cache[s]
       ELSE past \cup {answer.claim}

Take(s, answer) ==
    /\ cache' = [cache EXCEPT ![s] = Applied(s, answer)]
    /\ seen' = [seen EXCEPT ![s] = IF Applied(s, answer) = cache[s] THEN @ ELSE answer.version]

\* applyForwardedClaimAction, handleClaimStatus
Deliver(c) ==
    /\ Phase(c) = "answered" /\ calls[c].op \notin {"gate", "retry"}
    /\ Take(Spoke(c), calls[c].answer)
    /\ calls' = Free(c)
    /\ UNCHANGED <<now, hubVars, pending, sends, faults>>

\* ResolvePendingClaim: the answer must be for the kind asked for; a failure
\* leaves the request open.  The cache and the request change together.
Resolve(c) ==
    LET s == Spoke(c)
        answer == calls[c].answer
    IN /\ Phase(c) = "answered" /\ calls[c].op = "retry" /\ answer.granted
       /\ IF answer.claim.kind = calls[c].kind /\ ~Clashes(s, answer)
          THEN /\ Take(s, answer)
               /\ pending' = [pending EXCEPT ![s] = @ \ {[who |-> calls[c].who, kind |-> calls[c].kind]}]
          ELSE UNCHANGED spokeVars
       /\ calls' = Free(c)
       /\ UNCHANGED <<now, hubVars, sends, faults>>

\* (mutant) a denied request stays open for the next turn
RejectLater(c) ==
    /\ Phase(c) = "answered" /\ calls[c].op = "retry" /\ ~calls[c].answer.granted
    /\ calls' = Free(c)
    /\ UNCHANGED <<now, hubVars, cache, seen, pending, sends, faults>>

\* RejectPendingClaim: the hub denied it, which says nothing to the cache.
Reject(c) ==
    /\ Phase(c) = "answered" /\ calls[c].op = "retry" /\ ~calls[c].answer.granted
    /\ pending' = [pending EXCEPT ![Spoke(c)] =
                     @ \ {[who |-> calls[c].who, kind |-> calls[c].kind]}]
    /\ calls' = Free(c)
    /\ UNCHANGED <<now, hubVars, cache, seen, sends, faults>>

\* (mutant) goes on before the answer is cached
DeliverGateEarly(c) ==
    /\ Phase(c) = "answered" /\ calls[c].op = "gate"
    /\ calls' = [calls EXCEPT ![c].phase = "checking"]
    /\ UNCHANGED <<now, hubVars, spokeVars, sends, faults>>

\* refreshSpokeClaimStatusForGate, which fails the edit when the cache refuses
DeliverGate(c) ==
    /\ Phase(c) = "answered" /\ calls[c].op = "gate"
    /\ Take(Spoke(c), calls[c].answer)
    /\ calls' = IF Clashes(Spoke(c), calls[c].answer) THEN Free(c)
                ELSE [calls EXCEPT ![c].phase = "checking"]
    /\ UNCHANGED <<now, hubVars, pending, sends, faults>>

\* CheckClaimGate: a lease in force that another home holds denies the edit.
GateOpen(s) == \A row \in LiveRows(s) : DueAt(row, now) \/ Home[row.holder] = s

Admit(c) ==
    /\ Phase(c) = "checking" /\ GateOpen(Spoke(c))
    /\ calls' = Free(c)
    /\ UNCHANGED <<now, hubVars, spokeVars, sends, faults>>

Deny(c) ==
    /\ Phase(c) = "checking" /\ ~GateOpen(Spoke(c))
    /\ calls' = Free(c)
    /\ UNCHANGED <<now, hubVars, spokeVars, sends, faults>>

\* EnqueuePendingClaim: one open request for a holder, whatever kind it asks for.
Enqueue(s, p, k) ==
    pending' = [pending EXCEPT ![s] =
        IF \E q \in @ : q.who = p THEN @ ELSE @ \cup {[who |-> p, kind |-> k]}]

\* The spoke gives up on the hub or loses the answer; the gate goes on with what
\* is cached.  The hub may still run a transaction that waits for the writer.
GivesUp(c) ==
    /\ Spoke(c) # Hub /\ faults < MaxFaults /\ faults' = faults + 1
    /\ IF calls[c].op = "acquire" THEN Enqueue(Spoke(c), calls[c].who, calls[c].kind)
                                  ELSE UNCHANGED pending
    /\ UNCHANGED <<now, hubVars, cache, seen, sends>>

Lose(c) ==
    /\ Phase(c) \in {"sent", "queued", "answered"} /\ GivesUp(c)
    /\ calls' = IF calls[c].op = "gate"
                THEN [calls EXCEPT ![c].phase = "checking", ![c].answer = Nothing]
                ELSE Free(c)

Abandon(c) ==
    /\ Phase(c) = "queued" /\ calls[c].op # "gate" /\ GivesUp(c)
    /\ calls' = [calls EXCEPT ![c].phase = "orphan"]

\* The hub side of a mixed daemon expires by its own clock, for every project.
ExpireCached(s) ==
    /\ s \in MixedSpokes
    /\ \E row \in LiveRows(s) :
         /\ DueAt(row, now)
         /\ cache' = [cache EXCEPT ![s] = (@ \ {row}) \cup {Ended(row, now)}]
    /\ UNCHANGED <<now, hubVars, calls, seen, pending, sends, faults>>

Tick == now < MaxNow /\ now' = now + 1
        /\ UNCHANGED <<hubVars, calls, spokeVars, sends, faults>>

---------------------------------------------------------------------------

Turn(s) == \E c \in Calls : Retry(s, c)
SpokeTakes(c) == Deliver(c) \/ Resolve(c) \/ Reject(c) \/ DeliverGate(c) \/ Admit(c) \/ Deny(c)

Next == \/ Tick \/ CloseIssue
        \/ \E c \in Calls : Send(c) \/ Arrive(c) \/ HubRun(c) \/ SpokeTakes(c) \/ Lose(c) \/ Abandon(c)
        \/ \E s \in Spokes : Turn(s) \/ ExpireCached(s)

Spec == Init /\ [][Next]_vars

\* The runner's turns recur, the hub serves what reached it, answers arrive.
Fairness == /\ \A s \in Spokes : WF_vars(Turn(s))
            /\ \A c \in Calls : WF_vars(Arrive(c)) /\ WF_vars(HubRun(c)) /\ WF_vars(SpokeTakes(c))
FairSpec == Spec /\ Fairness

---------------------------------------------------------------------------
(* The hub                                                                 *)

\* Only the newest claim of an issue can be in force, so no two holders ever have
\* one at once, whatever is retried, lost or run late (federation.md, "the hub
\* guarantees at most one live holder").
OneLiveLease == \A i \in DOMAIN claims : claims[i].live => i = Len(claims)

LeaseInForce ==
    IF HasLive(claims)
    THEN [serial |-> Last(claims).uid, holder |-> Last(claims).holder,
          kind |-> Last(claims).kind, expires |-> Last(claims).expires]
    ELSE Nothing

Promise == INSTANCE Lease WITH NoLease <- Nothing, time <- now,
                               lease <- LeaseInForce, serial <- Len(claims)

\* The hub keeps the abstract promise: a lease passes on only after it ended or its
\* time ran out by the clock, although each transaction works with a clock reading
\* taken before it waited for the writer.
KeepsPromise == Promise!Spec

(* The spoke                                                               *)

\* An answer never replaces what the cache took from a later hub transaction
\* (ApplyClaimStatus prepares again under the writer lock for this).
NewestAnswerWins == [][\A s \in Spokes : seen[s] <= seen'[s]]_vars

\* A lease the spoke has recorded as over is over at the hub: nothing but the hub's
\* word ends a cached lease, so a refresh never meets the uid of an ended row.
EndsAtTheHubFirst ==
    \A s \in Spokes : \A row \in cache[s] :
        ~row.live => \A i \in DOMAIN claims : claims[i].uid = row.uid => ~claims[i].live

\* "Timed leases expire by hub time": no spoke has recorded as over a lease that is
\* in force at the hub and has time left by the hub's clock.
ExpiresByHubTime ==
    \A s \in Spokes : \A row \in cache[s] : \A i \in DOMAIN claims :
        ~row.live /\ claims[i].uid = row.uid /\ claims[i].live => DueAt(claims[i], now)

Blocks(s, answer) == answer # Nothing /\ answer.held /\ Home[answer.claim.holder] # s
                       /\ ~DueAt(answer.claim, now)

\* An edit whose own refresh showed another home's lease in force is admitted only
\* if the cache has learned something newer since, whatever other answers were
\* applied between the refresh and the check.
GateRespectsRefresh ==
    [][\A c \in Calls :
         Admit(c) /\ Blocks(Spoke(c), calls[c].answer)
           => seen[Spoke(c)] > calls[c].answer.version]_vars

\* An acquire the hub could not be reached for is settled in the end, granted or
\* denied, also when a grant was lost on its way and the hub is asked again.
PendingSettles ==
    \A s \in Spokes, q \in Request : q \in pending[s] ~> q \notin pending[s]
=============================================================================
