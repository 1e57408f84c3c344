----------------------------- MODULE Federation -----------------------------
(***************************************************************************)
(* One project shared by a hub and its direct spokes.  Every instance      *)
(* keeps a log of events and rows that the log projects to; a user's edit  *)
(* appends an event and changes the row in one transaction.  A sync turn   *)
(* of a spoke pushes the spoke's own events above the push cursor, then    *)
(* pulls one page of the hub's log above the pull cursor.  A purge at the  *)
(* hub deletes an issue with its events and makes spokes start over at a   *)
(* fresh baseline.                                                         *)
(*                                                                         *)
(* Turns crash, their requests time out and may still be served, and two   *)
(* turns of one spoke may overlap: the gate they share only keeps rebinds  *)
(* out.  A log is a set of entries, an entry the local id of an event and  *)
(* the event's number in born, the list of all events ever written.  A row *)
(* is the number of the event its title comes from, 0 if there is no row:  *)
(* the title stands for every field that the last writer wins.  The size   *)
(* limit of a push batch is an arbitrary cut.                              *)
(*                                                                         *)
(* Left out: relays, moves, labels, links, comments, cron, adoption of a   *)
(* local project, leave and rebind, and the automatic release of           *)
(* quarantines of older versions.  Ids count this project's events only.   *)
(***************************************************************************)
EXTENDS Integers, Sequences, FiniteSets

CONSTANTS
    Hub, Spokes,
    Rank,            \* the order of instance UIDs, which breaks ties of clocks
    Issues, Founding,   \* issues; those that were there when the hub was enabled
    Turns, At, Mode, \* sync turns that may overlap, their spoke, what they do
    PollLimit,
    Skew,            \* how far a new clock may lie above the last one
    MaxEdits, MaxPurges, MaxFaults   \* bounds

Nodes == Spokes \cup {Hub}
Edits == {"created", "title"}

ASSUME NodesAssumption == Hub \notin Spokes /\ Rank \in [Nodes -> Nat]
ASSUME IssuesAssumption == Issues \subseteq Nat \ {0} /\ IsFiniteSet(Issues)
                           /\ Founding \subseteq Issues
ASSUME TurnsAssumption == At \in [Turns -> Spokes] /\ Mode \in [Turns -> {"sync", "pull", "push"}]
ASSUME BoundsAssumption ==
    /\ PollLimit \in Nat \ {0} /\ Skew \in Nat \ {0}
    /\ MaxEdits \in Nat /\ MaxPurges \in Nat /\ MaxFaults \in Nat

VARIABLES
    born,        \* every event ever written, in the order of writing
    log, last,   \* each instance's events table and the last id it gave out
    row,         \* each instance's issue rows
    hub,         \* replay horizon, purge cursor, a refresh still to run
    binding,     \* each spoke's cursors and horizon
    quarantine,  \* last id of each spoke's quarantined batch, 0 if none
    unfinished,  \* whether a pull started that has not succeeded
    turn,        \* each turn's position and what it has read
    late,        \* push requests whose client gave up waiting
    purged,      \* events that a purge deleted at the hub (history)
    skipped,     \* events an operator skipped (history)
    faults

hubVars == <<hub, purged>>
spokeVars == <<binding, quarantine, unfinished, skipped>>
vars == <<born, log, last, row, hubVars, spokeVars, turn, late, faults>>

Event == [origin : Nodes, clock : Nat, kind : Edits \cup {"enabled", "snapshot"},
          issue : Issues \cup {0}, title : Nat]
Entry == [id : Nat, uid : Nat, pulled : BOOLEAN]
NoRow == 0
Sent == [id : Nat, uid : Nat]

(* What a turn carries: its copies of the cursors, the pending events it     *)
(* read, the hub's acknowledgement, whether an earlier pull was unfinished,  *)
(* the page it polled and the cursor behind it, the events it inserted and   *)
(* the issues to refold.                                                     *)
Turn == [pc : {"idle", "push", "send", "acked", "pull", "poll", "blockers", "horizon",
               "reset", "repoll", "insert", "materialize", "advance", "finish"},
         push : Nat, pull : Nat, todo : SUBSET Sent, ack : Nat, resume : BOOLEAN,
         page : SUBSET Sent, next : Nat, mine : SUBSET Nat, scope : SUBSET Issues]
Resting == [pc |-> "idle", push |-> 0, pull |-> 0, todo |-> {}, ack |-> 0, resume |-> FALSE,
            page |-> {}, next |-> 0, mine |-> {}, scope |-> {}]

\* Logs, rows, cursors and turns hold what the schema and the sync turn allow.
TypeOK ==
    /\ born \in Seq(Event)
    /\ log \in [Nodes -> SUBSET Entry] /\ last \in [Nodes -> Nat]
    /\ row \in [Nodes -> [Issues -> Nat]]
    /\ hub \in [horizon : Nat, reset : Nat, refresh : BOOLEAN, purges : Nat]
    /\ binding \in [Spokes -> [push : Nat, pull : Nat, horizon : Nat]]
    /\ quarantine \in [Spokes -> Nat] /\ unfinished \in [Spokes -> BOOLEAN]
    /\ turn \in [Turns -> Turn]
    /\ late \subseteq [entries : SUBSET Sent, no : Nat]
    /\ purged \subseteq Nat /\ skipped \subseteq Nat /\ faults \in Nat

---------------------------------------------------------------------------
(* Logs, clocks and the projection of a log                                *)

Uids(n) == {e.uid : e \in log[n]}
Nth(x, S) == Cardinality({y \in S : y <= x})
Larger(a, b) == IF a < b THEN b ELSE a
Greatest(S) == CHOOSE x \in S : \A y \in S : y <= x

\* (mutant) counts on from the instance's own events only
OwnTopClock(n) == Greatest({born[u].clock : u \in {v \in Uids(n) : born[v].origin = n}} \cup {0})

\* Physical and logical part as one number: any number above the last one.
TopClock(n) == Greatest({born[u].clock : u \in Uids(n)} \cup {0})

Before(u, v) ==
    LET a == born[u]  b == born[v]
    IN  \/ a.clock < b.clock
        \/ a.clock = b.clock /\ Rank[a.origin] < Rank[b.origin]
        \/ a.clock = b.clock /\ Rank[a.origin] = Rank[b.origin] /\ u < v

Latest(S) == CHOOSE u \in S : \A v \in S : v = u \/ Before(v, u)

\* The title of the last event that sets it; the enabling event sets none.
Fold(S, i) ==
    LET titles == {u \in S : born[u].issue = i}
    IN  IF titles = {} THEN NoRow ELSE born[Latest(titles)].title

Refolded(n, S, scope) ==
    [row EXCEPT ![n] = [i \in Issues |-> IF i \in scope THEN Fold(S, i) ELSE row[n][i]]]

---------------------------------------------------------------------------
(* Users' edits                                                            *)

Allowed(n, i, kind) ==
    IF kind = "created" THEN \A u \in DOMAIN born : born[u].issue # i ELSE row[n][i] # NoRow

Edit(n, i, kind, skew) ==
    LET u == Len(born) + 1
    IN  /\ Cardinality({v \in DOMAIN born : born[v].kind \in Edits})
             < MaxEdits + Cardinality(Founding)
        /\ Allowed(n, i, kind)
        /\ born' = Append(born, [origin |-> n, clock |-> TopClock(n) + skew, kind |-> kind,
                                 issue |-> i, title |-> u])
        /\ log' = [log EXCEPT ![n] = @ \cup {[id |-> last[n] + 1, uid |-> u, pulled |-> FALSE]}]
        /\ last' = [last EXCEPT ![n] = @ + 1]
        /\ row' = [row EXCEPT ![n][i] = u]
        /\ UNCHANGED <<hubVars, spokeVars, turn, late, faults>>

---------------------------------------------------------------------------
(* The hub: baselines, purges, pushed batches, pages                       *)

\* An enabling event, the new horizon, and a snapshot of each row at its clock.
Baseline(skew) ==
    LET live == {i \in Issues : row[Hub][i] # NoRow}
        clock == TopClock(Hub) + skew
        u == Len(born) + 1
        Snapshot(i) == [origin |-> Hub, clock |-> clock, kind |-> "snapshot", issue |-> i,
                        title |-> row[Hub][i]]
        Numbered(n) == CHOOSE i \in live : Nth(i, live) = n
    IN  /\ born' = [v \in 1..(u + Cardinality(live)) |->
             IF v < u THEN born[v]
             ELSE IF v > u THEN Snapshot(Numbered(v - u))
             ELSE [origin |-> Hub, clock |-> clock, kind |-> "enabled", issue |-> 0,
                   title |-> 0]]
        /\ log' = [log EXCEPT ![Hub] = @ \cup
             {[id |-> last[Hub] + 1 + n, uid |-> u + n, pulled |-> FALSE] :
                 n \in 0..Cardinality(live)}]
        /\ last' = [last EXCEPT ![Hub] = @ + 1 + Cardinality(live)]

\* The issue and its events go; one id is reserved and becomes the reset cursor.
Purge(i) ==
    LET events == {e \in log[Hub] : born[e.uid].issue = i}
    IN  /\ row[Hub][i] # NoRow /\ hub.purges < MaxPurges
        /\ log' = [log EXCEPT ![Hub] = @ \ events]
        /\ purged' = purged \cup {e.uid : e \in events}
        /\ last' = [last EXCEPT ![Hub] = @ + 1]
        /\ row' = [row EXCEPT ![Hub][i] = NoRow]
        /\ hub' = [hub EXCEPT !.reset = last[Hub] + 1, !.refresh = TRUE, !.purges = @ + 1]
        /\ UNCHANGED <<born, spokeVars, turn, late, faults>>

Refresh(skew) ==
    /\ hub.refresh
    /\ Baseline(skew)
    /\ hub' = [hub EXCEPT !.horizon = last[Hub] + 1, !.refresh = FALSE]
    /\ UNCHANGED <<row, purged, spokeVars, turn, late, faults>>

RefreshFails ==
    /\ hub.refresh /\ faults < MaxFaults
    /\ hub' = [hub EXCEPT !.refresh = FALSE]
    /\ faults' = faults + 1
    /\ UNCHANGED <<born, log, last, row, purged, spokeVars, turn, late>>

Known(i) == \/ row[Hub][i] # NoRow
            \/ \E u \in Uids(Hub) : born[u].issue = i /\ born[u].kind \in {"created", "snapshot"}

\* The whole batch, or nothing: an edit needs an issue that is known or created
\* before it in the batch, a creation that is no duplicate an unknown one.
Accepts(batch) ==
    \A e \in batch :
        LET earlier == \E f \in batch : /\ f.id < e.id /\ born[f.uid].kind = "created"
                                        /\ born[f.uid].issue = born[e.uid].issue
            known == Known(born[e.uid].issue) \/ earlier
        IN  IF born[e.uid].kind = "created" THEN e.uid \in Uids(Hub) \/ ~known ELSE known

Ingest(batch) ==
    LET fresh == {e \in batch : e.uid \notin Uids(Hub)}
        ids == {e.id : e \in fresh}
        stored == {[id |-> last[Hub] + Nth(e.id, ids), uid |-> e.uid, pulled |-> FALSE] :
                      e \in fresh}
    IN  /\ Accepts(batch)
        /\ log' = [log EXCEPT ![Hub] = @ \cup stored]
        /\ last' = [last EXCEPT ![Hub] = @ + Cardinality(ids)]
        /\ row' = Refolded(Hub, Uids(Hub) \cup {e.uid : e \in fresh},
                           {born[e.uid].issue : e \in fresh})

ResetRequired(cursor) == hub.reset > cursor

Page(cursor) ==
    LET after == {e \in log[Hub] : e.id > cursor}
    IN  {[id |-> e.id, uid |-> e.uid] :
            e \in {f \in after : Nth(f.id, {g.id : g \in after}) <= PollLimit}}

---------------------------------------------------------------------------
(* A turn's push                                                           *)

\* The spoke's own events above a cursor.
Pending(s, cursor) == {[id |-> e.id, uid |-> e.uid] :
                          e \in {f \in log[s] : born[f.uid].origin = s /\ f.id > cursor}}

Goes(t, pc) == turn' = [turn EXCEPT ![t].pc = pc]
Rests(t) == turn' = [turn EXCEPT ![t] = Resting]

Begin(t) ==
    /\ turn[t].pc = "idle"
    /\ turn' = [turn EXCEPT ![t].pc = IF Mode[t] = "pull" THEN "pull" ELSE "push",
                            ![t].push = binding[At[t]].push,
                            ![t].pull = binding[At[t]].pull]
    /\ UNCHANGED <<born, log, last, row, hubVars, spokeVars, late, faults>>

\* A quarantine ends the turn; without one the turn pushes, or pulls if nothing is pending.
ReadPending(t) ==
    LET s == At[t]  pending == Pending(s, turn[t].push)
    IN  /\ turn[t].pc = "push"
        /\ IF quarantine[s] # 0 \/ (pending = {} /\ Mode[t] = "push") THEN Rests(t)
           ELSE IF pending = {} THEN Goes(t, "pull")
           ELSE turn' = [turn EXCEPT ![t].pc = "send", ![t].todo = pending]
        /\ UNCHANGED <<born, log, last, row, hubVars, spokeVars, late, faults>>

\* The first events of todo, as many as fit into one request.
BatchTo(t, id) == {e \in turn[t].todo : e.id <= id}

PushAccepted(t, id) ==
    /\ turn[t].pc = "send"
    /\ Ingest(BatchTo(t, id))
    /\ turn' = [turn EXCEPT ![t].pc = "acked", ![t].ack = id]
    /\ UNCHANGED <<born, hubVars, spokeVars, late, faults>>

\* The first quarantine of a spoke stays until an operator resolves it.
PushRefused(t, id) ==
    LET s == At[t]
    IN  /\ turn[t].pc = "send" /\ ~Accepts(BatchTo(t, id))
        /\ quarantine' = [quarantine EXCEPT ![s] = IF @ = 0 THEN id ELSE @]
        /\ Rests(t)
        /\ UNCHANGED <<born, log, last, row, hubVars, binding, unfinished, skipped, late, faults>>

PushTimesOut(t, id) ==
    /\ turn[t].pc = "send" /\ faults < MaxFaults
    /\ late' = late \cup {[entries |-> BatchTo(t, id), no |-> faults]}
    /\ faults' = faults + 1
    /\ Rests(t)
    /\ UNCHANGED <<born, log, last, row, hubVars, spokeVars>>

LateArrival(request) ==
    /\ Ingest(request.entries)
    /\ late' = late \ {request}
    /\ UNCHANGED <<born, hubVars, spokeVars, turn, faults>>

\* The cursor never goes back, whatever another turn has done meanwhile.
TakeAck(t) ==
    LET s == At[t]  rest == {e \in turn[t].todo : e.id > turn[t].ack}
    IN  /\ turn[t].pc = "acked"
        /\ binding' = [binding EXCEPT ![s].push = Larger(@, turn[t].ack)]
        /\ turn' = [turn EXCEPT ![t].pc = IF rest = {} THEN "push" ELSE "send",
                                ![t].push = turn[t].ack, ![t].todo = rest, ![t].ack = 0]
        /\ UNCHANGED <<born, log, last, row, hubVars, quarantine, unfinished, skipped, late, faults>>

---------------------------------------------------------------------------
(* A turn's pull                                                           *)

StartPull(t) ==
    LET s == At[t]
    IN  /\ turn[t].pc = "pull"
        /\ turn' = [turn EXCEPT ![t].pc = "poll", ![t].resume = unfinished[s]]
        /\ unfinished' = [unfinished EXCEPT ![s] = TRUE]
        /\ UNCHANGED <<born, log, last, row, hubVars, binding, quarantine, skipped, late, faults>>

TakesPage(t) ==
    LET page == Page(turn[t].pull)
    IN  turn' = [turn EXCEPT ![t].pc = "insert", ![t].page = page,
                    ![t].next = IF page = {} THEN turn[t].pull ELSE Greatest({e.id : e \in page})]

Poll(t) ==
    /\ turn[t].pc = "poll"
    /\ IF ResetRequired(turn[t].pull) THEN Goes(t, "blockers") ELSE TakesPage(t)
    /\ UNCHANGED <<born, log, last, row, hubVars, spokeVars, late, faults>>

\* (mutant) has only the quarantine wait
BlockedByQuarantine(t) == quarantine[At[t]] # 0

Blocked(t) == quarantine[At[t]] # 0 \/ Pending(At[t], turn[t].push) # {}

CheckBlockers(t) ==
    /\ turn[t].pc = "blockers"
    /\ IF Blocked(t) THEN Rests(t) ELSE Goes(t, "horizon")
    /\ UNCHANGED <<born, log, last, row, hubVars, spokeVars, late, faults>>

\* (mutant) leaves a missing baseline to the purge that failed to write it
FetchOldHorizon(t, skew) ==
    /\ turn[t].pc = "horizon"
    /\ turn' = [turn EXCEPT ![t].pc = "reset", ![t].next = hub.horizon - 1]
    /\ UNCHANGED <<born, log, last, row, hubVars, spokeVars, late, faults>>

\* Reading the metadata writes the baseline that a failed refresh left out.
FetchHorizon(t, skew) ==
    /\ turn[t].pc = "horizon"
    /\ IF hub.reset > hub.horizon
       THEN Baseline(skew) /\ hub' = [hub EXCEPT !.horizon = last[Hub] + 1]
       ELSE UNCHANGED <<born, log, last, hub>>
    /\ turn' = [turn EXCEPT ![t].pc = "reset", ![t].next = hub'.horizon - 1]
    /\ UNCHANGED <<row, purged, spokeVars, late, faults>>

\* The reset checks its blockers again, in the transaction that clears the project.
Reset(t) ==
    LET s == At[t]
    IN  /\ turn[t].pc = "reset"
        /\ IF Blocked(t) THEN Rests(t) /\ UNCHANGED <<log, row, binding>>
           ELSE /\ log' = [log EXCEPT ![s] = {}]
                /\ row' = [row EXCEPT ![s] = [i \in Issues |-> NoRow]]
                /\ binding' = [binding EXCEPT ![s].pull = turn[t].next,
                                              ![s].horizon = turn[t].next + 1]
                /\ turn' = [turn EXCEPT ![t].pc = "repoll", ![t].pull = turn[t].next]
        /\ UNCHANGED <<born, last, hubVars, quarantine, unfinished, skipped, late, faults>>

Repoll(t) ==
    /\ turn[t].pc = "repoll"
    /\ IF ResetRequired(turn[t].pull) THEN Rests(t) ELSE TakesPage(t)
    /\ UNCHANGED <<born, log, last, row, hubVars, spokeVars, late, faults>>

\* (mutant) takes every event already stored for applied
NeverReapplied(t, p) == FALSE

\* An event already stored is applied again when its row may not have followed:
\* an own one that is pending or came back after a reset, another's one that this
\* pull inserted before a retry or that an unfinished pull may have left.
Reapplied(t, p) ==
    LET s == At[t]
    IN  /\ turn[t].next > binding[s].pull
        /\ IF born[p.uid].origin = s
           THEN \E e \in log[s] : e.uid = p.uid /\ (e.id > binding[s].push \/ e.pulled)
           ELSE p.uid \in turn[t].mine \/ (turn[t].resume /\ p.id > binding[s].pull)

\* (mutant) does not refold everything for an enabling event
ScopeByIssue(applied) == {born[p.uid].issue : p \in applied}

\* The issues to refold: all of them when a baseline begins.
Scope(applied) ==
    IF \E p \in applied : born[p.uid].kind = "enabled" THEN Issues
    ELSE {born[p.uid].issue : p \in applied}

Insert(t) ==
    LET s == At[t]  page == turn[t].page
        fresh == {p \in page : p.uid \notin Uids(s)}
        ids == {p.id : p \in fresh}
        applied == fresh \cup {p \in page \ fresh : Reapplied(t, p)}
    IN  /\ turn[t].pc = "insert"
        /\ log' = [log EXCEPT ![s] = @ \cup
             {[id |-> last[s] + Nth(p.id, ids), uid |-> p.uid, pulled |-> TRUE] : p \in fresh}]
        /\ last' = [last EXCEPT ![s] = @ + Cardinality(ids)]
        /\ turn' = [turn EXCEPT ![t].pc = "materialize", ![t].mine = @ \cup {p.uid : p \in fresh},
             ![t].scope = Scope(applied)]
        /\ UNCHANGED <<born, row, hubVars, spokeVars, late, faults>>

Materialize(t) ==
    LET s == At[t]
    IN  /\ turn[t].pc = "materialize"
        /\ row' = Refolded(s, Uids(s), turn[t].scope)
        /\ Goes(t, "advance")
        /\ UNCHANGED <<born, log, last, hubVars, spokeVars, late, faults>>

AdvancePull(t) ==
    LET s == At[t]
    IN  /\ turn[t].pc = "advance"
        /\ binding' = [binding EXCEPT ![s].pull = Larger(@, turn[t].next)]
        /\ turn' = [turn EXCEPT ![t] = [Resting EXCEPT !.pc = "finish"]]
        /\ UNCHANGED <<born, log, last, row, hubVars, quarantine, unfinished, skipped, late, faults>>

FinishPull(t) ==
    /\ turn[t].pc = "finish"
    /\ unfinished' = [unfinished EXCEPT ![At[t]] = FALSE]
    /\ Rests(t)
    /\ UNCHANGED <<born, log, last, row, hubVars, binding, quarantine, skipped, late, faults>>

\* A transient error of the store while the page is applied: from the top again.
Reapply(t) ==
    /\ turn[t].pc \in {"materialize", "advance"} /\ faults < MaxFaults
    /\ Goes(t, "insert")
    /\ faults' = faults + 1
    /\ UNCHANGED <<born, log, last, row, hubVars, spokeVars, late>>

\* The spoke dies, the caller goes away, or a request or a statement fails.
Abort(t) ==
    /\ turn[t].pc # "idle" /\ faults < MaxFaults
    /\ Rests(t)
    /\ faults' = faults + 1
    /\ UNCHANGED <<born, log, last, row, hubVars, spokeVars, late>>

---------------------------------------------------------------------------
(* The operator of a spoke                                                 *)

Skip(s) ==
    LET q == quarantine[s]
    IN  /\ q # 0
        /\ skipped' = skipped \cup {e.uid : e \in {f \in Pending(s, binding[s].push) : f.id <= q}}
        /\ binding' = [binding EXCEPT ![s].push = Larger(@, q)]
        /\ quarantine' = [quarantine EXCEPT ![s] = 0]
        /\ UNCHANGED <<born, log, last, row, hubVars, unfinished, turn, late, faults>>

Retry(s) ==
    /\ quarantine[s] # 0
    /\ quarantine' = [quarantine EXCEPT ![s] = 0]
    /\ UNCHANGED <<born, log, last, row, hubVars, binding, unfinished, skipped, turn, late, faults>>

---------------------------------------------------------------------------
Init ==
    LET founded == Cardinality(Founding)
        Numbered(n) == CHOOSE i \in Founding : Nth(i, Founding) = n
        First(u) ==
            [origin |-> Hub,
             clock |-> IF u <= founded THEN u ELSE founded + 1,
             kind |-> IF u <= founded THEN "created"
                      ELSE IF u = founded + 1 THEN "enabled" ELSE "snapshot",
             issue |-> IF u <= founded THEN Numbered(u)
                       ELSE IF u = founded + 1 THEN 0 ELSE Numbered(u - founded - 1),
             title |-> IF u <= founded THEN u ELSE IF u = founded + 1 THEN 0 ELSE u - founded - 1]
        all == 1..(2 * founded + 1)
    IN  /\ born = [u \in all |-> First(u)]
        /\ log = [n \in Nodes |-> IF n = Hub
                    THEN {[id |-> u, uid |-> u, pulled |-> FALSE] : u \in all} ELSE {}]
        /\ last = [n \in Nodes |-> IF n = Hub THEN 2 * founded + 1 ELSE 0]
        /\ row = [n \in Nodes |-> [i \in Issues |->
                    IF n = Hub /\ i \in Founding THEN Nth(i, Founding) ELSE NoRow]]
        /\ hub = [horizon |-> founded + 1, reset |-> 0, refresh |-> FALSE, purges |-> 0]
        /\ binding = [s \in Spokes |-> [push |-> 0, pull |-> founded, horizon |-> founded + 1]]
        /\ quarantine = [s \in Spokes |-> 0]
        /\ unfinished = [s \in Spokes |-> FALSE]
        /\ turn = [t \in Turns |-> Resting]
        /\ late = {} /\ purged = {} /\ skipped = {} /\ faults = 0

\* The steps a turn takes when nothing goes wrong.
TurnRuns(t) ==
    \/ Begin(t) \/ ReadPending(t) \/ TakeAck(t)
    \/ \E id \in {e.id : e \in turn[t].todo} : PushAccepted(t, id) \/ PushRefused(t, id)
    \/ StartPull(t) \/ Poll(t) \/ CheckBlockers(t)
    \/ \E skew \in 1..Skew : FetchHorizon(t, skew)
    \/ Reset(t) \/ Repoll(t)
    \/ Insert(t) \/ Materialize(t) \/ AdvancePull(t) \/ FinishPull(t)

TurnFails(t) ==
    \/ \E id \in {e.id : e \in turn[t].todo} : PushTimesOut(t, id)
    \/ Reapply(t) \/ Abort(t)

HubRuns ==
    \/ \E skew \in 1..Skew : Refresh(skew)
    \/ RefreshFails
    \/ \E i \in Issues : Purge(i)
    \/ \E request \in late : LateArrival(request)

Next ==
    \/ \E n \in Nodes, i \in Issues, kind \in Edits, skew \in 1..Skew :
          Edit(n, i, kind, skew)
    \/ \E t \in Turns : TurnRuns(t) \/ TurnFails(t)
    \/ \E s \in Spokes : Skip(s) \/ Retry(s)
    \/ HubRuns

Spec == Init /\ [][Next]_vars

\* Turns recur and go on; a hub that lives runs the refresh after its purge.
FairSpec ==
    /\ Spec
    /\ \A t \in Turns : WF_vars(TurnRuns(t))
    /\ WF_vars(\E skew \in 1..Skew : Refresh(skew))

---------------------------------------------------------------------------
(* What the sync promises                                                  *)

\* A spoke user's edit is on the hub, or was deleted there with its issue, or was
\* skipped by an operator, or still waits above the push cursor.
EditsNeverLost ==
    \A u \in DOMAIN born : born[u].origin \in Spokes =>
        \/ u \in Uids(Hub) \cup purged \cup skipped
        \/ \E e \in Pending(born[u].origin, binding[born[u].origin].push) : e.uid = u

\* Whatever the pull cursor has passed since the horizon is in the spoke's log.
PulledIsStored ==
    \A s \in Spokes, e \in log[Hub] :
        e.id \in binding[s].horizon..binding[s].pull => e.uid \in Uids(s)

\* An event the spoke will see again, on a page or by starting over.
Awaited(s, u) ==
    IF u \in Uids(Hub) THEN \E e \in log[Hub] : e.uid = u /\ e.id > binding[s].pull
    ELSE ResetRequired(binding[s].pull)

\* Rows are the projection of the log, except at a spoke where a turn is about to
\* apply an event of the issue or a pulled one still comes again: a page is stored,
\* applied and passed by the cursor in three transactions, and only what the cursor
\* has not passed is applied again.
RowsFollowLog ==
    \A n \in Nodes, i \in Issues :
        \/ row[n][i] = Fold(Uids(n), i)
        \/ \E t \in Turns : At[t] = n /\ turn[t].pc = "materialize" /\ i \in turn[t].scope
        \/ \E e \in log[n] : n # Hub /\ e.pulled /\ born[e.uid].issue = i /\ Awaited(n, e.uid)

Drained(s) ==
    /\ \A t \in Turns : At[t] = s => turn[t].pc = "idle"
    /\ quarantine[s] = 0 /\ ~unfinished[s] /\ Pending(s, binding[s].push) = {}
    /\ ~ResetRequired(binding[s].pull) /\ \A e \in log[Hub] : e.id <= binding[s].pull

\* A spoke with nothing left to push or to pull shows the hub's rows.
Agreement ==
    \A s \in Spokes : Drained(s) /\ skipped = {} => row[s] = row[Hub]

\* Users stop editing some day (MaxEdits): then every spoke pushes all it has, gets
\* behind the last reset and comes to show the hub's rows, unless the hub refuses its
\* events again and again or an operator skipped some.
Settles ==
    \A s \in Spokes :
        \/ []<>(quarantine[s] # 0)
        \/ <>[](\/ skipped # {}
                \/ /\ Pending(s, binding[s].push) = {}
                   /\ ~ResetRequired(binding[s].pull)
                   /\ row[s] = row[Hub])
=============================================================================
