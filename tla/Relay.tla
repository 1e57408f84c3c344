-------------------------------- MODULE Relay --------------------------------
(***************************************************************************)
(* A project shared through a tree of daemons: the root signs receipts and *)
(* alone purges, a relay has a hub above it and relays or leaves below it. *)
(* A hop is named after the lower of its two daemons.  On every hop each   *)
(* side keeps an outbox, whose row ids are the sequence numbers, and an    *)
(* inbox of what it accepted.  Events travel both ways and receipts down,  *)
(* in turns that the lower side takes.                                     *)
(*                                                                         *)
(* A purge makes the root sign a checkpoint.  A hop moves to a new epoch   *)
(* when its lower side has installed the checkpoint and makes the first    *)
(* call with the new epoch; until then the old epoch goes on.  A relay     *)
(* that installs a checkpoint forwards it to everybody below.              *)
(*                                                                         *)
(* An event is its number in born and creates an issue of its own.  A      *)
(* receipt is the number of its event; the root's order of receipts is     *)
(* issued.  The records a capture writes are state of the checkpoint, not  *)
(* events.                                                                 *)
(*                                                                         *)
(* Left out: embedding artifacts, claims, quarantine, key rotation,        *)
(* revocation and reconnection, compaction, enrollments made after the     *)
(* first event, and turns of a hop that overlap, which the runner keeps    *)
(* apart.  The need for a reset and the epoch are read in one step.        *)
(***************************************************************************)
EXTENDS Integers, Sequences, FiniteSets

CONSTANTS
    Nodes, Root, Parent,   \* the tree
    BatchLimit,            \* rows in a batch
    TurnBatches,           \* batches a turn exchanges per stream and direction
    RelayGrowth,           \* what a relay's comparison of event ids may say
    LateCalls,             \* kinds of calls that may be served after their turn
    MaxEvents, MaxPurges, MaxFaults   \* bounds

Hops == Nodes \ {Root}
Dirs == {"up", "down"}
Calls == {"accept", "offer", "ack", "create"}

\* A binding whose upstream is the daemon itself is refused (RelayBindingConfig.Validate).
ASSUME TreeAssumption == /\ Root \in Nodes /\ IsFiniteSet(Nodes) /\ Parent \in [Hops -> Nodes]
                         /\ \A h \in Hops : Parent[h] # h
ASSUME TurnAssumption == /\ BatchLimit \in Nat \ {0} /\ TurnBatches \in Nat \ {0}
                         /\ RelayGrowth \subseteq BOOLEAN /\ LateCalls \subseteq Calls
ASSUME BoundsAssumption == MaxEvents \in Nat /\ MaxPurges \in Nat /\ MaxFaults \in Nat

VARIABLES
    born,          \* the author of every event ever written, in order of writing
    log, receipts, \* each daemon's events and receipts
    issued,        \* the events the root signed a receipt for, in order
    purged,        \* events purged at the root
    out,           \* each hop's outbox rows, both directions; the index is the id
    inbox,         \* ids accepted at the other end
    grant, config, \* a hop's epoch above and below
    checkpoints,   \* signed checkpoints; the index is the root epoch
    prepared,      \* the checkpoint kept for a hop above, and its epoch
    superseded,    \* rows of a hop that a checkpoint stands in for
    installed,     \* the checkpoint a daemon installed, 0 if none
    turn,          \* each hop's turn
    late,          \* calls whose caller has gone
    faults

rootVars == <<issued, purged, checkpoints>>
resetVars == <<checkpoints, prepared, installed>>
vars == <<born, log, receipts, issued, purged, out, inbox, grant, config, checkpoints,
          prepared, superseded, installed, turn, late, faults>>

Streams == {"events", "receipts"}
States == {"queued", "emitted", "acked", "deleted"}
Row == [stream : Streams, event : Nat, epoch : Nat, path : SUBSET Nodes, state : States]
Checkpoint == [events : SUBSET Nat, high : Nat, purges : Nat]
Call == [kind : Calls, stream : Streams, epoch : Nat, batch : SUBSET Nat]
NoRecord == [epoch |-> 0, next |-> 0, through |-> 0]

(* A turn: where it is, whether it must reset, the upstream's epoch as read,  *)
(* the stream, the batch in hand, how many it had, whether it ran out of      *)
(* them, and the checkpoint fetched with its epoch.                           *)
Turn == [pc : {"idle", "push", "send", "answered", "pull", "store", "ack", "reset", "install"},
         required : BOOLEAN, seen : Nat, drain : BOOLEAN, stream : Streams,
         batch : SUBSET Nat, batches : Nat, left : BOOLEAN, cp : Nat, epoch : Nat]
Resting == [pc |-> "idle", required |-> FALSE, seen |-> 0, drain |-> FALSE,
            stream |-> "events", batch |-> {}, batches |-> 0, left |-> FALSE,
            cp |-> 0, epoch |-> 0]

\* Every variable has its type, inboxes refer to rows, and epochs are adjacent.
TypeOK ==
    /\ born \in Seq(Nodes) /\ issued \in Seq(Nat) /\ purged \subseteq Nat
    /\ log \in [Nodes -> SUBSET Nat] /\ receipts \in [Nodes -> SUBSET Nat]
    /\ out \in [Hops -> [Dirs -> Seq(Row)]]
    /\ \A h \in Hops : DOMAIN inbox[h] = Dirs /\ \A d \in Dirs : inbox[h][d] \subseteq DOMAIN out[h][d]
    /\ grant \in [Hops -> Nat] /\ \A h \in Hops : config[h] \in grant[h] .. grant[h] + 1
    /\ checkpoints \in Seq(Checkpoint)
    /\ prepared \in [Hops -> [cp : Nat, epoch : Nat]]
    /\ superseded \in [Hops -> [epoch : Nat, next : Nat, through : Nat]]
    /\ installed \in [Nodes -> Nat]
    /\ turn \in [Hops -> Turn] /\ late \in [Hops -> SUBSET Call] /\ faults \in Nat

---------------------------------------------------------------------------
(* Outboxes                                                                *)

Sender(h, d) == IF d = "up" THEN h ELSE Parent[h]
Receiver(h, d) == IF d = "up" THEN Parent[h] ELSE h
Children(n) == {h \in Hops : Parent[h] = n}

Nth(S, k) == CHOOSE x \in S : Cardinality({y \in S : y <= x}) = k
Top(S) == IF S = {} THEN 0 ELSE CHOOSE x \in S : \A y \in S : y <= x
Lowest(S, k) == {x \in S : Cardinality({y \in S : y <= x}) <= k}

Same(a, b) == a.stream = b.stream /\ a.event = b.event

\* (mutant) A body is queued again although its row is there.
WantedAgain(rows, receiver, ep, bodies) ==
    {k \in DOMAIN bodies :
        /\ receiver \notin bodies[k].path
        /\ \A j \in 1..(k - 1) : ~Same(bodies[j], bodies[k])}

\* Bodies for a receiver that is not on their path, once per epoch.
Wanted(rows, receiver, ep, bodies) ==
    {k \in DOMAIN bodies :
        /\ receiver \notin bodies[k].path
        /\ \A i \in DOMAIN rows :
               ~(Same(rows[i], bodies[k]) /\ rows[i].epoch = ep /\ rows[i].state # "deleted")
        /\ \A j \in 1..(k - 1) : ~Same(bodies[j], bodies[k])}

Enqueue(rows, receiver, ep, bodies) ==
    LET new == Wanted(rows, receiver, ep, bodies)
    IN  rows \o [k \in 1..Cardinality(new) |->
                    [stream |-> bodies[Nth(new, k)].stream, event |-> bodies[Nth(new, k)].event,
                     epoch |-> ep, path |-> bodies[Nth(new, k)].path, state |-> "queued"]]

\* A daemon's write goes to every hop it sends on, in the hop's epoch.
QueueAt(n, rows, epochs, bodies) ==
    [h \in Hops |-> [d \in Dirs |->
        IF Sender(h, d) = n
        THEN Enqueue(rows[h][d], Receiver(h, d), IF d = "up" THEN config[h] ELSE epochs[h], bodies)
        ELSE rows[h][d]]]

\* What rows carry, sent on by a daemon.
Bodies(rows, ids, n) ==
    [k \in 1..Cardinality(ids) |->
        [stream |-> rows[Nth(ids, k)].stream, event |-> rows[Nth(ids, k)].event,
         path |-> rows[Nth(ids, k)].path \cup {n}]]

Proofs(events) ==
    [k \in DOMAIN events |-> [stream |-> "receipts", event |-> events[k], path |-> {Root}]]

InEpoch(rows, ep) == {i \in DOMAIN rows : rows[i].epoch = ep /\ rows[i].state # "deleted"}
Unacked(rows, ep) == {i \in InEpoch(rows, ep) : rows[i].state # "acked"}

\* The id up to which a stream's rows are not offered any more.
Boundary(h, d, stream, ep, requested) ==
    IF \/ d = "up" \/ stream = "receipts" \/ superseded[h].epoch # ep
       \/ requested \notin {ep, superseded[h].next}
    THEN 0 ELSE superseded[h].through

Pending(rows, stream, ep, boundary) ==
    Lowest({i \in Unacked(rows, ep) : rows[i].stream = stream /\ i > boundary}, BatchLimit)

Emit(rows, ids) ==
    [i \in DOMAIN rows |-> IF i \in ids THEN [rows[i] EXCEPT !.state = "emitted"] ELSE rows[i]]

---------------------------------------------------------------------------
(* Accepting and acknowledging rows                                        *)

Accepted(h, d, stream, ep) ==
    {i \in inbox[h][d] : out[h][d][i].stream = stream /\ out[h][d][i].epoch = ep}

\* A row was accepted before, or lies above what was and has a source of its own.
InOrder(h, d, ids) ==
    \A i \in ids \ inbox[h][d] :
        LET row == out[h][d][i]
            before == Accepted(h, d, row.stream, row.epoch)
        IN  /\ i > Top(before)
            /\ \A j \in (before \cup ids) \ {i} : out[h][d][j].event # row.event

\* The daemon stores what is new and sends it on; the root signs for events.
Store(n, h, d, ids, rows, epochs) ==
    LET mine == out[h][d]
        new == {i \in ids \ inbox[h][d] : mine[i].stream = "events" /\ mine[i].event \notin log[n]}
        unsigned == IF n # Root THEN {}
                    ELSE {i \in ids \ inbox[h][d] : mine[i].event \notin receipts[Root]}
        proofs == {i \in ids \ inbox[h][d] : mine[i].stream = "receipts"}
        signed == [k \in 1..Cardinality(unsigned) |-> mine[Nth(unsigned, k)].event]
    IN  /\ InOrder(h, d, ids)
        /\ log' = [log EXCEPT ![n] = @ \cup {mine[i].event : i \in new}]
        /\ receipts' = [receipts EXCEPT ![n] = @ \cup {mine[i].event : i \in unsigned \cup proofs}]
        /\ issued' = issued \o signed
        /\ inbox' = [inbox EXCEPT ![h][d] = @ \cup ids]
        /\ out' = QueueAt(n, rows, epochs,
                          Bodies(mine, new, n) \o Proofs(signed) \o Bodies(mine, proofs, n))

AckedThrough(rows, stream, ep) ==
    Top({i \in DOMAIN rows : rows[i].stream = stream /\ rows[i].epoch = ep /\ rows[i].state = "acked"})

\* The endpoint was emitted, and so was every row it would pass.
AckAllowed(rows, stream, ep, through, boundary) ==
    LET from == AckedThrough(rows, stream, ep)
        settled == IF boundary > from THEN boundary ELSE from
    IN  /\ through \in DOMAIN rows
        /\ rows[through].stream = stream /\ rows[through].epoch = ep
        /\ rows[through].state \in {"emitted", "acked"}
        /\ \A i \in Unacked(rows, ep) :
               rows[i].stream = stream /\ i > settled /\ i <= through => rows[i].state = "emitted"

Acknowledge(rows, stream, ep, through, boundary) ==
    [i \in DOMAIN rows |->
        IF /\ i \in Unacked(rows, ep) /\ rows[i].stream = stream
           /\ i > AckedThrough(rows, stream, ep) /\ i <= through
           /\ i > boundary \/ rows[i].state = "emitted"
        THEN [rows[i] EXCEPT !.state = "acked"] ELSE rows[i]]

---------------------------------------------------------------------------
(* Calls at the upper end of a hop.  The first one of the next epoch moves *)
(* the hop into it and offers again what is owed.                          *)

Admitted(h, ep) == ep = grant[h] \/ (ep = grant[h] + 1 /\ prepared[h].epoch = ep)

\* (mutant) Event rows written after the checkpoint are taken for part of it.
OwedReceipts(h, ep) ==
    {i \in Unacked(out[h].down, grant[h]) : out[h].down[i].stream = "receipts"}

Owed(h, ep) ==
    {i \in Unacked(out[h].down, grant[h]) :
        \/ out[h].down[i].stream = "receipts"
        \/ i > Boundary(h, "down", "events", grant[h], ep)}

Carried(h, ep) ==
    IF ep = grant[h] THEN out
    ELSE [out EXCEPT ![h].down =
              Enqueue(@, h, ep, Bodies(@, Owed(h, ep), Parent[h]))]

Moved(h, ep) ==
    /\ Admitted(h, ep)
    /\ grant' = [grant EXCEPT ![h] = ep]
    /\ superseded' = IF ep # grant[h] /\ superseded[h].epoch = grant[h]
                     THEN [superseded EXCEPT ![h] = NoRecord] ELSE superseded

\* The boundary after the hop has moved: a record of the epoch left is gone.
BoundaryAt(h, stream, ep) ==
    IF ep = grant[h] THEN Boundary(h, "down", stream, ep, ep) ELSE 0

Accept(h, ep, ids) ==
    /\ Moved(h, ep)
    /\ Store(Parent[h], h, "up", ids, Carried(h, ep), [grant EXCEPT ![h] = ep])
    /\ UNCHANGED <<born, purged, config, resetVars>>

Offered(h, stream, ep) == Pending(Carried(h, ep)[h].down, stream, ep, BoundaryAt(h, stream, ep))

Offer(h, stream, ep) ==
    /\ Moved(h, ep)
    /\ out' = [Carried(h, ep) EXCEPT ![h].down = Emit(@, Offered(h, stream, ep))]
    /\ UNCHANGED <<born, log, receipts, issued, purged, inbox, config, resetVars>>

Ack(h, stream, ep, through) ==
    LET rows == Carried(h, ep)[h].down
        boundary == BoundaryAt(h, stream, ep)
    IN  /\ Moved(h, ep)
        /\ AckAllowed(rows, stream, ep, through, boundary)
        /\ out' = [out EXCEPT ![h].down = Acknowledge(rows, stream, ep, through, boundary)]
        /\ UNCHANGED <<born, log, receipts, issued, purged, inbox, config, resetVars>>

---------------------------------------------------------------------------
(* Checkpoints                                                             *)

IsRoot(h) == Parent[h] = Root

\* A purge, or a checkpoint installed since, makes the one kept for a hop obsolete.
NeedsRefresh(h) ==
    IF IsRoot(h) THEN Cardinality(purged) > checkpoints[prepared[h].cp].purges
    ELSE installed[Parent[h]] # prepared[h].cp

NeedsReset(h) ==
    IF prepared[h].cp # 0 THEN NeedsRefresh(h) \/ prepared[h].epoch # grant[h]
    ELSE IsRoot(h) /\ purged # {}

\* Ids at the root; at a relay, its own ids against an id of the root.
Grew(h, says) ==
    IF IsRoot(h) THEN \/ prepared[h].cp < Len(checkpoints)
                      \/ log[Root] \ checkpoints[prepared[h].cp].events # {}
    ELSE says

Rebuild(h, says) ==
    prepared[h].cp # 0 =>
        NeedsRefresh(h) \/ (prepared[h].epoch = grant[h] + 1 /\ Grew(h, says))

Snapshot == [events |-> log[Root], high |-> Len(issued), purges |-> Cardinality(purged)]

\* (mutant) A refresh moves on from the prepared epoch, not from the grant's.
CaptureAhead(h) ==
    /\ checkpoints' = Append(checkpoints, Snapshot)
    /\ prepared' = [prepared EXCEPT ![h] =
           [cp |-> Len(checkpoints) + 1,
            epoch |-> 1 + IF prepared[h].epoch > grant[h] THEN prepared[h].epoch ELSE grant[h]]]
    /\ superseded' = [superseded EXCEPT ![h] =
           [epoch |-> grant[h], next |-> grant[h] + 1, through |-> Len(out[h].down)]]
    /\ UNCHANGED out

\* The root signs its state, which stands in for every event row it has queued.
Capture(h) ==
    /\ checkpoints' = Append(checkpoints, Snapshot)
    /\ prepared' = [prepared EXCEPT ![h] = [cp |-> Len(checkpoints) + 1, epoch |-> grant[h] + 1]]
    /\ superseded' = [superseded EXCEPT ![h] =
           [epoch |-> grant[h], next |-> grant[h] + 1, through |-> Len(out[h].down)]]
    /\ UNCHANGED out

\* Rows of the epoch above that came or were written after the checkpoint.
Seeds(n) ==
    LET down == {i \in inbox[n].down : out[n].down[i].epoch = config[n]}
        up == {i \in DOMAIN out[n].up : out[n].up[i].epoch = config[n]}
        In(stream) == {i \in down : out[n].down[i].stream = stream}
    IN  Bodies(out[n].down, In("events"), n) \o Bodies(out[n].down, In("receipts"), n)
            \o Bodies(out[n].up, up, n)

Unproved(h, proved) ==
    \E i \in Unacked(out[h].down, grant[h]) :
        /\ out[h].down[i].stream = "events"
        /\ out[h].down[i].event \notin receipts[Parent[h]] \cup proved

\* A relay forwards what it installed, unless it owes events the root may not have.
Forward(h) ==
    /\ ~Unproved(h, {})
    /\ prepared' = [prepared EXCEPT ![h] = [cp |-> installed[Parent[h]], epoch |-> grant[h] + 1]]
    /\ out' = [out EXCEPT ![h].down = Enqueue(@, h, grant[h] + 1, Seeds(Parent[h]))]
    /\ UNCHANGED <<checkpoints, superseded>>

Keep == UNCHANGED <<checkpoints, prepared, superseded, out>>

Create(h, says) ==
    /\ IF ~Rebuild(h, says) THEN Keep ELSE IF IsRoot(h) THEN Capture(h) ELSE Forward(h)
    /\ UNCHANGED <<born, log, receipts, issued, purged, inbox, grant, config, installed>>

\* (mutant) The first event signed after the checkpoint is taken for part of it.
KeptFrom(n, cp) ==
    LET later == {k \in DOMAIN issued : k > checkpoints[cp].high + 1 /\ issued[k] \in log[n] \cap receipts[n]}
    IN  [k \in 1..Cardinality(later) |-> issued[Nth(later, k)]]

\* Events the root signed after the checkpoint stay, by their receipts' positions.
Kept(n, cp) ==
    LET later == {k \in DOMAIN issued : k > checkpoints[cp].high /\ issued[k] \in log[n] \cap receipts[n]}
    IN  [k \in 1..Cardinality(later) |-> issued[Nth(later, k)]]

Elements(s) == {s[k] : k \in DOMAIN s}

\* What a checkpoint, with what is kept beside it, shows the root to have accepted.
Attested(n, cp) ==
    (checkpoints[cp].events \cap {issued[k] : k \in 1..checkpoints[cp].high}) \cup Elements(Kept(n, cp))

\* No work the root may not have would be lost, here or on the hops below.
Installable(n, cp, ep) ==
    /\ cp >= installed[n] /\ ep > config[n]
    /\ \A i \in DOMAIN out[n].up : out[n].up[i].state = "acked"
    /\ \A i \in DOMAIN out[n].up :
           /\ out[n].up[i].epoch = config[n] /\ born[out[n].up[i].event] = n
           => out[n].up[i].event \in receipts[n] \cup Attested(n, cp)
    /\ \A h \in Children(n) : ~Unproved(h, Attested(n, cp))

\* Rows seeded for the epoch from an earlier checkpoint are deleted unless emitted.
Unseed(rows, ep) ==
    [i \in DOMAIN rows |-> IF rows[i].epoch = ep /\ rows[i].state = "queued"
                           THEN [rows[i] EXCEPT !.state = "deleted"] ELSE rows[i]]

\* Of what the relay keeps, its own path starts here.
Replayed(n, events) ==
    [k \in DOMAIN events |->
        [stream |-> "events", event |-> events[k], path |-> {n, born[events[k]]}]]
Receipted(n, events) ==
    [k \in DOMAIN events |-> [stream |-> "receipts", event |-> events[k], path |-> {n}]]

Install(n, cp, ep) ==
    LET kept == Kept(n, cp)
    IN  /\ Installable(n, cp, ep)
        /\ log' = [log EXCEPT ![n] = checkpoints[cp].events \cup Elements(kept)]
        /\ receipts' = [receipts EXCEPT ![n] =
               {issued[k] : k \in 1..checkpoints[cp].high} \cup Elements(kept)]
        /\ config' = [config EXCEPT ![n] = ep]
        /\ installed' = [installed EXCEPT ![n] = cp]
        /\ prepared' = [h \in Hops |-> IF Parent[h] = n THEN [cp |-> cp, epoch |-> grant[h] + 1]
                                       ELSE prepared[h]]
        /\ superseded' = [h \in Hops |->
               IF Parent[h] = n
               THEN [epoch |-> grant[h], next |-> grant[h] + 1, through |-> Top(InEpoch(out[h].down, grant[h]))]
               ELSE superseded[h]]
        /\ out' = [h \in Hops |->
               IF Parent[h] = n
               THEN [out[h] EXCEPT !.down =
                        Enqueue(Unseed(@, grant[h] + 1), h, grant[h] + 1,
                                Replayed(n, kept) \o Receipted(n, kept))]
               ELSE out[h]]
        /\ UNCHANGED <<born, rootVars, inbox, grant>>

---------------------------------------------------------------------------
(* Users and the root                                                      *)

Init ==
    /\ born = <<>> /\ issued = <<>> /\ purged = {} /\ checkpoints = <<>>
    /\ log = [n \in Nodes |-> {}] /\ receipts = [n \in Nodes |-> {}]
    /\ out = [h \in Hops |-> [d \in Dirs |-> <<>>]]
    /\ inbox = [h \in Hops |-> [d \in Dirs |-> {}]]
    /\ grant = [h \in Hops |-> 1] /\ config = [h \in Hops |-> 1]
    /\ prepared = [h \in Hops |-> [cp |-> 0, epoch |-> 0]]
    /\ superseded = [h \in Hops |-> NoRecord]
    /\ installed = [n \in Nodes |-> 0]
    /\ turn = [h \in Hops |-> Resting] /\ late = [h \in Hops |-> {}] /\ faults = 0

\* A write is queued, and at the root signed, in its own transaction.
Edit(n) ==
    LET e == Len(born) + 1
        mine == <<[stream |-> "events", event |-> e, path |-> {n}]>>
    IN  /\ e <= MaxEvents
        /\ born' = Append(born, n)
        /\ log' = [log EXCEPT ![n] = @ \cup {e}]
        /\ IF n = Root
           THEN /\ receipts' = [receipts EXCEPT ![n] = @ \cup {e}]
                /\ issued' = Append(issued, e)
                /\ out' = QueueAt(n, out, grant, mine \o Proofs(<<e>>))
           ELSE out' = QueueAt(n, out, grant, mine) /\ UNCHANGED <<receipts, issued>>
        /\ UNCHANGED <<purged, inbox, grant, config, superseded, resetVars, turn, late, faults>>

\* Only with nothing on the way down and no reset half done.
Purge(e) ==
    /\ Cardinality(purged) < MaxPurges /\ e \in log[Root]
    /\ \A h \in Children(Root) : Unacked(out[h].down, grant[h]) = {} /\ prepared[h].epoch <= grant[h]
    /\ log' = [log EXCEPT ![Root] = @ \ {e}]
    /\ purged' = purged \cup {e}
    /\ UNCHANGED <<born, receipts, issued, out, inbox, grant, config, superseded, resetVars,
                   turn, late, faults>>

---------------------------------------------------------------------------
(* A turn                                                                  *)

Goes(h, next) == turn' = [turn EXCEPT ![h] = next] /\ UNCHANGED <<late, faults>>
Ends(h) == Goes(h, Resting)
storeVars == <<born, log, receipts, issued, purged, out, inbox, grant, config, checkpoints,
               prepared, superseded, installed>>

Hello(h) ==
    LET required == NeedsReset(h)
        resume == required /\ grant[h] + 1 = config[h]
        same == grant[h] = config[h]
    IN  /\ turn[h].pc = "idle"
        /\ Goes(h, [Resting EXCEPT !.pc = IF resume \/ same THEN "push" ELSE "reset",
                                   !.required = required, !.seen = grant[h],
                                   !.drain = required /\ same, !.batches = 1])
        /\ UNCHANGED storeVars

\* After the pushes come the pulls; a drain pulls receipts only, then resets.
Pushed(t) == [t EXCEPT !.pc = "pull", !.stream = IF t.drain THEN "receipts" ELSE "events",
                       !.batch = {}, !.batches = 1]
Pulled(t) ==
    IF t.stream = "events"
    THEN [t EXCEPT !.pc = "pull", !.stream = "receipts", !.batch = {}, !.batches = 1]
    ELSE IF t.drain /\ ~t.left THEN [t EXCEPT !.pc = "reset", !.batch = {}] ELSE Resting

\* A loop goes on while the turn's budget lasts; only an empty batch ends it before.
Spent(t) == t.batches >= TurnBatches
More(t) == [t EXCEPT !.batch = {}, !.batches = @ + 1]
Left(t) == [t EXCEPT !.left = TRUE]

ReadPending(h) ==
    LET ids == Pending(out[h].up, "events", config[h], 0)
    IN  /\ turn[h].pc = "push"
        /\ out' = [out EXCEPT ![h].up = Emit(@, ids)]
        /\ Goes(h, IF ids = {} THEN Pushed(turn[h])
                   ELSE [turn[h] EXCEPT !.pc = "send", !.batch = ids])
        /\ UNCHANGED <<born, log, receipts, rootVars, inbox, grant, config, superseded,
                       prepared, installed>>

Through(h, d, stream) == Top(Accepted(h, d, stream, config[h]) \cup turn[h].batch)

PushAccepted(h) ==
    /\ turn[h].pc = "send"
    /\ Accept(h, config[h], turn[h].batch)
    /\ Goes(h, [turn[h] EXCEPT !.pc = "answered", !.batch = {Through(h, "up", "events")}])

TakeAck(h) ==
    LET t == turn[h]
        through == Top(t.batch)
    IN  /\ t.pc = "answered"
        /\ AckAllowed(out[h].up, "events", config[h], through, 0)
        /\ out' = [out EXCEPT ![h].up = Acknowledge(@, "events", config[h], through, 0)]
        /\ Goes(h, IF Spent(t) THEN Pushed(Left(t)) ELSE [More(t) EXCEPT !.pc = "push"])
        /\ UNCHANGED <<born, log, receipts, rootVars, inbox, grant, config, superseded,
                       prepared, installed>>

AskOffer(h) ==
    LET t == turn[h]
        ids == Offered(h, t.stream, config[h])
    IN  /\ t.pc = "pull"
        /\ Offer(h, t.stream, config[h])
        /\ Goes(h, IF ids = {} THEN Pulled(t) ELSE [t EXCEPT !.pc = "store", !.batch = ids])

StoreOffer(h) ==
    /\ turn[h].pc = "store"
    /\ Store(h, h, "down", turn[h].batch, out, grant)
    /\ Goes(h, [turn[h] EXCEPT !.pc = "ack", !.batch = {Through(h, "down", turn[h].stream)}])
    /\ UNCHANGED <<born, purged, grant, config, superseded, resetVars>>

SendAck(h) ==
    LET t == turn[h]
    IN  /\ t.pc = "ack"
        /\ Ack(h, t.stream, config[h], Top(t.batch))
        /\ Goes(h, IF Spent(t) THEN Pulled(Left(t)) ELSE [More(t) EXCEPT !.pc = "pull"])

Fetch(h) ==
    /\ turn[h].pc = "reset"
    /\ \E says \in RelayGrowth : Create(h, says)
    /\ Goes(h, [turn[h] EXCEPT !.pc = "install", !.cp = prepared'[h].cp, !.epoch = prepared'[h].epoch])

Expected(h) == IF turn[h].required THEN turn[h].epoch >= config[h] ELSE turn[h].epoch = turn[h].seen

InstallFetched(h) ==
    /\ turn[h].pc = "install" /\ Expected(h)
    /\ Install(h, turn[h].cp, turn[h].epoch)
    /\ Goes(h, [Resting EXCEPT !.pc = "push", !.batches = 1])

\* A check fails, at either end: the turn ends.
Fails(h) ==
    LET t == turn[h]
        ep == config[h]
    IN  CASE t.pc = "send" -> ~(Admitted(h, ep) /\ InOrder(h, "up", t.batch))
          [] t.pc = "answered" -> ~AckAllowed(out[h].up, "events", ep, Top(t.batch), 0)
          [] t.pc = "pull" -> ~Admitted(h, ep)
          [] t.pc = "store" -> ~InOrder(h, "down", t.batch)
          [] t.pc = "ack" -> ~(/\ Admitted(h, ep)
                               /\ AckAllowed(Carried(h, ep)[h].down, t.stream, ep, Top(t.batch),
                                             BoundaryAt(h, t.stream, ep)))
          [] t.pc = "reset" -> \E says \in RelayGrowth :
                                   Rebuild(h, says) /\ ~IsRoot(h) /\ Unproved(h, {})
          [] t.pc = "install" -> ~(Expected(h) /\ Installable(h, t.cp, t.epoch))
          [] OTHER -> FALSE

Refused(h) == Fails(h) /\ Ends(h) /\ UNCHANGED storeVars

---------------------------------------------------------------------------
(* Turns that die, and calls that are served after them                    *)

CallOf(t, ep) ==
    CASE t.pc = "send" -> {[kind |-> "accept", stream |-> "events", epoch |-> ep, batch |-> t.batch]}
      [] t.pc = "pull" -> {[kind |-> "offer", stream |-> t.stream, epoch |-> ep, batch |-> {}]}
      [] t.pc = "ack" -> {[kind |-> "ack", stream |-> t.stream, epoch |-> ep, batch |-> t.batch]}
      [] t.pc = "reset" -> {[kind |-> "create", stream |-> "events", epoch |-> ep, batch |-> {}]}
      [] OTHER -> {}

\* The caller dies or gives up; what it asked for may still be on its way.
Abort(h) ==
    /\ turn[h].pc # "idle" /\ faults < MaxFaults
    /\ turn' = [turn EXCEPT ![h] = Resting]
    /\ \E calls \in SUBSET {c \in CallOf(turn[h], config[h]) : c.kind \in LateCalls} :
           late' = [late EXCEPT ![h] = @ \cup calls]
    /\ faults' = faults + 1
    /\ UNCHANGED storeVars

Served(h, c, says) ==
    CASE c.kind = "accept" -> Accept(h, c.epoch, c.batch)
      [] c.kind = "offer" -> Offer(h, c.stream, c.epoch)
      [] c.kind = "ack" -> Ack(h, c.stream, c.epoch, Top(c.batch))
      [] c.kind = "create" -> Create(h, says)

LateCall(h) ==
    /\ \E c \in late[h], says \in RelayGrowth :
           Served(h, c, says) /\ late' = [late EXCEPT ![h] = @ \ {c}]
    /\ UNCHANGED <<turn, faults>>

\* A late call that never arrives, or is refused.
LateCallLost(h) ==
    /\ \E c \in late[h] : late' = [late EXCEPT ![h] = @ \ {c}]
    /\ UNCHANGED <<turn, faults, storeVars>>

Proceed(h) ==
    \/ Hello(h) \/ ReadPending(h) \/ PushAccepted(h) \/ TakeAck(h) \/ AskOffer(h)
    \/ StoreOffer(h) \/ SendAck(h) \/ Fetch(h) \/ InstallFetched(h) \/ Refused(h)

Next ==
    \/ \E n \in Nodes : Edit(n)
    \/ \E e \in DOMAIN born : Purge(e)
    \/ \E h \in Hops : Proceed(h) \/ Abort(h) \/ LateCall(h) \/ LateCallLost(h)

Spec == Init /\ [][Next]_vars

\* The runner goes on, and every hop has its turn again.  Proceed(h) is always
\* enabled, a call being answered or refused, so this is its weak fairness,
\* written without ENABLED.
Fairness == \A h \in Hops : []<><<Proceed(h)>>_turn
FairSpec == Spec /\ Fairness

---------------------------------------------------------------------------
(* Properties                                                              *)

\* The hop is at one epoch on both sides, or its lower side is one ahead and makes
\* the first call of the next one: a turn is never refused for its epoch for good,
\* whatever checkpoints are taken, refreshed and forwarded meanwhile
\* (RelayActivationRequested; it is part of TypeOK too).
EpochsMeet == \A h \in Hops : config[h] \in grant[h] .. grant[h] + 1

\* A reset loses no local work: what a daemon's own users wrote stays in its log
\* until the root purges it, although each checkpoint replaces the log and the
\* root's knowledge of the event may lie anywhere between the outbox and the receipt
\* (ValidateUpstreamWork, RetainPostCheckpointEvents).
OwnWorkKept == \A e \in DOMAIN born \ purged : e \in log[born[e]]

\* What is offered next can be accepted: it is above what the peer accepted of the
\* stream and epoch, under a sequence number of its own (validateRelaySourceSequence),
\* or the hop would fail the same way in every turn.
NothingStuck ==
    \A h \in Hops :
        /\ InOrder(h, "up", Pending(out[h].up, "events", config[h], 0))
        /\ \A s \in Streams : InOrder(h, "down", Offered(h, s, grant[h]))

Agreed == \A n \in Nodes : log[n] = DOMAIN born \ purged /\ log[n] \subseteq receipts[n]

\* Once users and faults pause, every daemon of the tree has every event, with the
\* root's receipt, and nobody has what the root purged: neither the change of epoch
\* nor a checkpoint that stands in for queued rows drops an event that is owed.
Converges == <>[]Agreed
=============================================================================
