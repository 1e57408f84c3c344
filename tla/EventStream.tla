---------------------------- MODULE EventStream ----------------------------
(***************************************************************************)
(* The event log, its purge resets and the two ways clients follow it:     *)
(* SSE streams (runSSEStream, runLivePhase) woken by the in-memory         *)
(* broadcaster, and polls (doPollEvents).                                  *)
(*                                                                         *)
(* Event ids are the cursor.  Every store transaction that writes the log  *)
(* is one action: SQLite admits one writer and Postgres takes the event    *)
(* sequence lock, so ids are assigned in commit order.  Broadcasting       *)
(* happens after the commit, by whichever goroutine gets there first       *)
(* (outbox).  A handler's separate queries are separate actions, so        *)
(* anything can commit between them.                                       *)
(*                                                                         *)
(* Left out: project purge and merge, links between issues, compaction,    *)
(* the authority re-checks before each frame, issue-scoped principals, and *)
(* a stream of a deleted project.                                          *)
(***************************************************************************)
EXTENDS Naturals, FiniteSets, Sequences

CONSTANTS
    Projects, Issues,
    Streamers,    \* clients that follow the SSE stream
    Pollers,      \* clients that poll
    AllProjects, NoProject, NoIssue,
    Scope,        \* what each client follows: a project, or AllProjects
    ChannelBuffer, DrainCap, LiveBatch, PollLimit,
    MaxSeq,       \* bound on the ids handed out
    MaxFaults     \* bound on crashes and broken connections

Clients == Streamers \cup Pollers

ASSUME NamesAssumption == AllProjects \notin Projects /\ NoProject \notin Projects
                            /\ NoProject # AllProjects /\ NoIssue \notin Issues
                            /\ "absent" \notin Projects /\ "purged" \notin Projects
ASSUME ClientsAssumption == Streamers \cap Pollers = {}
ASSUME ScopeAssumption == Scope \in [Clients -> Projects \cup {AllProjects}]
ASSUME BoundsAssumption ==
    /\ ChannelBuffer \in Nat \ {0} /\ DrainCap \in Nat \ {0}
    /\ LiveBatch \in Nat \ {0} /\ PollLimit \in Nat \ {0}
    /\ MaxSeq \in Nat /\ MaxFaults \in Nat

VARIABLES
    seq,      \* the autoincrement sequence of the events table
    log,      \* the rows of the events table
    home,     \* the project of each issue, or absent, or purged
    purgeLog, \* purge_log: project and purge_reset_after_event_id
    former,   \* project_stream_reset.<project>: last reset of a former home
    outbox,   \* messages of committed writes, not yet broadcast
    chan,     \* each subscription's buffered channel
    sub,      \* the subscription is registered with the broadcaster
    srv,      \* where the client's stream handler (or its poll) stands
    base,     \* the handler's cursor, later lastSent
    through,  \* the high-water mark or wakeup id the handler reads up to
    wire,     \* event frames written and not yet received
    last,     \* the terminal reset frame behind them, 0 if none
    cursor,   \* the client's resume cursor (Last-Event-ID, after_id)
    known,    \* the issues whose data the client caches
    seen,     \* the event ids the client received or refetched past
    fresh,    \* the client has refetched since its last reset
    faults

store   == <<seq, log, home, purgeLog, former>>
conn    == <<chan, sub, srv, base, through, wire, last>>
client  == <<cursor, known, seen, fresh>>
vars    == <<seq, log, home, purgeLog, former, outbox, chan, sub, srv, base,
             through, wire, last, cursor, known, seen, fresh, faults>>

Event(id, p, i, from) ==
    [kind |-> "event", id |-> id, proj |-> p, issue |-> i, from |-> from]
ResetMsg(p, at) ==
    [kind |-> "reset", id |-> at, proj |-> p, issue |-> NoIssue, from |-> NoProject]

\* What can be in the log or on a channel once n ids are handed out.
Msgs(n) == [kind : {"event", "reset"}, id : 1 .. n, proj : Projects,
            issue : Issues \cup {NoIssue}, from : Projects \cup {NoProject}]

InScope(c, p) == Scope[c] \in {p, AllProjects}

\* EventsAfter's project filter, and SubFilter.matches for events: a move is
\* also visible in the project the issue left.
Visible(c, e) == InScope(c, e.proj) \/ Scope[c] = e.from

\* The reset cursors PurgeResetCheck finds for the client's project.
Resets(c) ==
    {x.at : x \in {y \in purgeLog : InScope(c, y.proj)}}
        \cup {former[p] : p \in {q \in Projects : InScope(c, q)}}

\* MAX(purge_reset_after_event_id) > after: r is the reset to report.
ResetDue(c, after, r) ==
    /\ r \in Resets(c)
    /\ r > after
    /\ \A q \in Resets(c) : q <= r

NoResetDue(c, after) == \A r \in Resets(c) : r <= after

\* Mutant: the first row after the cursor is taken for read.
WindowOffByOne(c, lo, hi) ==
    {e \in log : Visible(c, e) /\ e.id > lo + 1 /\ (hi # 0 => e.id <= hi)}

\* The rows EventsAfter can see; ThroughID 0 is no bound.
Window(c, lo, hi) ==
    {e \in log : Visible(c, e) /\ e.id > lo /\ (hi # 0 => e.id <= hi)}

\* ORDER BY id ASC LIMIT n.
FirstRows(S, n) == {e \in S : Cardinality({f \in S : f.id < e.id}) < n}

IsLastId(rows, m) == (\E e \in rows : e.id = m) /\ \A e \in rows : e.id <= m

\* Mutant: the cursor jumps to throughID although the page was cut short.
ScannedToJump(rows, lo, hi, m) == m = IF hi > lo THEN hi ELSE lo

\* nextAfterID, and the jump to throughID over an empty window.
ScannedTo(rows, lo, hi, m) ==
    IF rows # {} THEN IsLastId(rows, m) ELSE m = IF hi > lo THEN hi ELSE lo

\* The issues a fetch of the client's scope returns.
Listed(c) == {i \in Issues : home[i] \in Projects /\ InScope(c, home[i])}

Init ==
    /\ seq = 1
    /\ \E p \in Projects : log = {Event(1, p, NoIssue, NoProject)} \* project.created
    /\ home = [i \in Issues |-> "absent"]
    /\ purgeLog = {}
    /\ former = [p \in Projects |-> 0]
    /\ outbox = {}
    /\ chan = [c \in Clients |-> <<>>]
    /\ sub = [c \in Clients |-> FALSE]
    /\ srv = [c \in Clients |-> "off"]
    /\ base = [c \in Clients |-> 0]
    /\ through = [c \in Clients |-> 0]
    /\ wire = [c \in Clients |-> {}]
    /\ last = [c \in Clients |-> 0]
    /\ cursor = [c \in Clients |-> 0]
    /\ known = [c \in Clients |-> {}]
    /\ seen = [c \in Clients |-> {}]
    /\ fresh = [c \in Clients |-> TRUE]
    /\ faults = 0

-----------------------------------------------------------------------------
(* The store's transactions.                                               *)

\* insertEventTx, and the message its caller publishes after the commit.
Append1(p, i, from) ==
    LET e == Event(seq + 1, p, i, from)
    IN  /\ seq < MaxSeq
        /\ seq' = seq + 1
        /\ log' = log \cup {e}
        /\ outbox' = outbox \cup {e}

CreateIssue(i, p) ==
    /\ home[i] = "absent"
    /\ home' = [home EXCEPT ![i] = p]
    /\ Append1(p, i, NoProject)
    /\ UNCHANGED <<purgeLog, former, conn, client, faults>>

\* Any mutation that emits one event about the issue.
ChangeIssue(i) ==
    /\ home[i] \in Projects
    /\ Append1(home[i], i, NoProject)
    /\ UNCHANGED <<home, purgeLog, former, conn, client, faults>>

MoveIssue(i, p) ==
    /\ home[i] \in Projects \ {p}
    /\ home' = [home EXCEPT ![i] = p]
    /\ Append1(p, i, home[i])
    /\ UNCHANGED <<purgeLog, former, conn, client, faults>>

About(i) == {e \in log : e.issue = i}

\* Mutant: only the project the issue is in now is told.
FormerProjectsForgotten(i) == {p \in Projects : About(i) = {}} \ {home[i]}

\* PurgeResetProjects: the other projects in whose streams the issue's
\* history appears.
FormerProjects(i) ==
    {p \in Projects : \E e \in About(i) : p = e.proj \/ p = e.from} \ {home[i]}

\* Mutant: the reset cursor is the last id handed out, not a reserved one.
PurgeIssueUnreserved(i) ==
    /\ home[i] \in Projects
    /\ log' = log \ About(i)
    /\ purgeLog' = purgeLog \cup {[proj |-> home[i], at |-> seq]}
    /\ former' = [p \in Projects |-> IF p \in FormerProjects(i) THEN seq ELSE former[p]]
    /\ outbox' = outbox \cup {ResetMsg(p, seq) : p \in FormerProjects(i) \cup {home[i]}}
    /\ home' = [home EXCEPT ![i] = "purged"]
    /\ UNCHANGED <<seq, conn, client, faults>>

\* PurgeIssue: delete the history, reserve an id no event will ever have, and
\* note it as reset cursor for the issue's project and its former ones.
PurgeIssue(i) ==
    LET at == seq + 1
    IN  /\ home[i] \in Projects
        /\ seq < MaxSeq
        /\ seq' = at
        /\ log' = log \ About(i)
        /\ purgeLog' = purgeLog \cup {[proj |-> home[i], at |-> at]}
        /\ former' = [p \in Projects |-> IF p \in FormerProjects(i) THEN at ELSE former[p]]
        /\ outbox' = outbox \cup {ResetMsg(p, at) : p \in FormerProjects(i) \cup {home[i]}}
        /\ home' = [home EXCEPT ![i] = "purged"]
        /\ UNCHANGED <<conn, client, faults>>

-----------------------------------------------------------------------------
(* EventBroadcaster.                                                       *)

Matches(c, m) == IF m.kind = "event" THEN Visible(c, m) ELSE InScope(c, m.proj)

\* Mutant: a full channel is found one message too late.
PublishOneMore(m) ==
    LET hit  == {c \in Clients : sub[c] /\ Matches(c, m)}
        room == {c \in hit : Len(chan[c]) <= ChannelBuffer}
    IN  /\ m \in outbox
        /\ outbox' = outbox \ {m}
        /\ chan' = [c \in Clients |-> IF c \in room THEN Append(chan[c], m) ELSE chan[c]]
        /\ sub' = [c \in Clients |-> sub[c] /\ c \notin hit \ room]
        /\ UNCHANGED <<store, srv, base, through, wire, last, client, faults>>

\* Mutant: a full channel just misses the message.
PublishDropping(m) ==
    LET room == {c \in Clients : sub[c] /\ Matches(c, m) /\ Len(chan[c]) < ChannelBuffer}
    IN  /\ m \in outbox
        /\ outbox' = outbox \ {m}
        /\ chan' = [c \in Clients |-> IF c \in room THEN Append(chan[c], m) ELSE chan[c]]
        /\ UNCHANGED <<store, sub, srv, base, through, wire, last, client, faults>>

\* One goroutine broadcasts its message: a full channel is closed and its
\* subscriber removed; what is buffered in it can still be read.
Publish(m) ==
    LET hit  == {c \in Clients : sub[c] /\ Matches(c, m)}
        room == {c \in hit : Len(chan[c]) < ChannelBuffer}
    IN  /\ m \in outbox
        /\ outbox' = outbox \ {m}
        /\ chan' = [c \in Clients |-> IF c \in room THEN Append(chan[c], m) ELSE chan[c]]
        /\ sub' = [c \in Clients |-> sub[c] /\ c \notin hit \ room]
        /\ UNCHANGED <<store, srv, base, through, wire, last, client, faults>>

-----------------------------------------------------------------------------
(* runSSEStream and runLivePhase.                                          *)

\* The client (re)connects with its cursor, and the handler subscribes.
Subscribe(c) ==
    /\ c \in Streamers
    /\ srv[c] = "off"
    /\ srv' = [srv EXCEPT ![c] = "subscribed"]
    /\ sub' = [sub EXCEPT ![c] = TRUE]
    /\ chan' = [chan EXCEPT ![c] = <<>>]
    /\ base' = [base EXCEPT ![c] = cursor[c]]
    /\ UNCHANGED <<store, outbox, through, wire, last, client, faults>>

\* hwm = MaxEventID, over the whole table.
CaptureHighWater(c) ==
    /\ srv[c] = "subscribed"
    /\ \E m \in 0 .. seq : /\ IF log = {} THEN m = 0 ELSE IsLastId(log, m)
                      /\ through' = [through EXCEPT ![c] = m]
    /\ srv' = [srv EXCEPT ![c] = "check"]
    /\ UNCHANGED <<store, outbox, chan, sub, base, wire, last, client, faults>>

\* The handler returns: Unsub, and its locals are gone.
Return(c) ==
    /\ srv' = [srv EXCEPT ![c] = "returned"]
    /\ sub' = [sub EXCEPT ![c] = FALSE]
    /\ chan' = [chan EXCEPT ![c] = <<>>]
    /\ through' = [through EXCEPT ![c] = 0]

\* The handler writes a terminal reset frame and returns.
EndWithReset(c, at) ==
    /\ last' = [last EXCEPT ![c] = at]
    /\ Return(c)
    /\ UNCHANGED <<store, outbox, base, wire, client, faults>>

Checking == {"check", "live", "woken"}

\* PurgeResetCheck finds a reset: before the drain, at a heartbeat, or on an
\* event's wakeup.
ResetFound(c) ==
    /\ srv[c] \in Checking
    /\ \E r \in Resets(c) : ResetDue(c, base[c], r) /\ EndWithReset(c, r)

\* Mutant: an event's wakeup reads without checking for a reset.
ResetNotFoundUnchecked(c) ==
    /\ srv[c] \in {"check", "woken"}
    /\ srv[c] = "check" => NoResetDue(c, base[c])
    /\ srv' = [srv EXCEPT ![c] = IF @ = "check" THEN "drain" ELSE "read"]
    /\ UNCHANGED <<store, outbox, chan, sub, base, through, wire, last, client, faults>>

\* It finds none, and the handler goes on to read.
ResetNotFound(c) ==
    /\ srv[c] \in {"check", "woken"}
    /\ NoResetDue(c, base[c])
    /\ srv' = [srv EXCEPT ![c] = IF @ = "check" THEN "drain" ELSE "read"]
    /\ UNCHANGED <<store, outbox, chan, sub, base, through, wire, last, client, faults>>

\* Write the rows as frames and advance lastSent to m.
WriteFrames(c, rows, m) ==
    /\ wire' = [wire EXCEPT ![c] = @ \cup rows]
    /\ base' = [base EXCEPT ![c] = m]

\* The first window, up to the high-water mark.
Drain(c) ==
    LET rows == FirstRows(Window(c, base[c], through[c]), DrainCap + 1)
    IN  /\ srv[c] = "drain"
        /\ Cardinality(rows) <= DrainCap
        /\ \E m \in 0 .. seq : ScannedTo(rows, base[c], through[c], m) /\ WriteFrames(c, rows, m)
        /\ srv' = [srv EXCEPT ![c] = "live"]
        /\ through' = [through EXCEPT ![c] = 0]
        /\ UNCHANGED <<store, outbox, chan, sub, last, client, faults>>

\* More rows than the drain replays: the client is told to start over.
DrainTooLong(c) ==
    /\ srv[c] = "drain"
    /\ Cardinality(FirstRows(Window(c, base[c], through[c]), DrainCap + 1)) = DrainCap + 1
    /\ EndWithReset(c, through[c])

\* The live phase takes an event's wakeup from the channel.
Wake(c) ==
    /\ srv[c] = "live"
    /\ chan[c] # <<>>
    /\ Head(chan[c]).kind = "event"
    /\ through' = [through EXCEPT ![c] = Head(chan[c]).id]
    /\ chan' = [chan EXCEPT ![c] = Tail(@)]
    /\ srv' = [srv EXCEPT ![c] = "woken"]
    /\ UNCHANGED <<store, outbox, sub, base, wire, last, client, faults>>

\* It takes a reset.
TakeReset(c) ==
    /\ srv[c] = "live"
    /\ chan[c] # <<>>
    /\ Head(chan[c]).kind = "reset"
    /\ EndWithReset(c, Head(chan[c]).id)

\* It finds the channel closed and drained: overflow disconnect.
Overflowed(c) ==
    /\ srv[c] = "live"
    /\ chan[c] = <<>>
    /\ ~sub[c]
    /\ Return(c)
    /\ UNCHANGED <<store, outbox, base, wire, last, client, faults>>

\* Mutant: the cursor follows the wakeup even when that is an old one.
ReadBatchRegress(c) ==
    LET rows == FirstRows(Window(c, base[c], through[c]), LiveBatch)
    IN  /\ srv[c] = "read"
        /\ WriteFrames(c, rows, IF rows = {} THEN through[c] ELSE CHOOSE m \in 0 .. seq : IsLastId(rows, m))
        /\ srv' = [srv EXCEPT ![c] = IF rows = {} THEN "live" ELSE "read"]
        /\ UNCHANGED <<store, outbox, chan, sub, through, last, client, faults>>

\* One batch up to the wakeup's id; it repeats until it got there.
ReadBatch(c) ==
    LET rows == FirstRows(Window(c, base[c], through[c]), LiveBatch)
    IN  /\ srv[c] = "read"
        /\ \E m \in 0 .. seq :
              /\ ScannedTo(rows, base[c], through[c], m)
              /\ WriteFrames(c, rows, m)
              /\ srv' = [srv EXCEPT ![c] = IF m >= through[c] THEN "live" ELSE "read"]
              /\ through' = [through EXCEPT ![c] = IF m >= @ THEN 0 ELSE @]
        /\ UNCHANGED <<store, outbox, chan, sub, last, client, faults>>

-----------------------------------------------------------------------------
(* The clients.                                                            *)

\* What events do to the cache: the newest about an issue says whether it is
\* in the client's scope now, or a move took it out.
Apply(c, es) ==
    LET newest == {e \in es : \A f \in es : f.issue = e.issue => f.id <= e.id}
    IN  known' = [known EXCEPT ![c] =
            (@ \ {e.issue : e \in newest})
                \cup ({e.issue : e \in {f \in newest : InScope(c, f.proj)}} \cap Issues)]

\* Frames arrive in the order they were written, which is id order; the
\* cursor follows the frame.
ReceiveEvent(c) ==
    /\ \E e \in wire[c] :
          /\ \A f \in wire[c] : e.id <= f.id
          /\ wire' = [wire EXCEPT ![c] = @ \ {e}]
          /\ cursor' = [cursor EXCEPT ![c] = e.id]
          /\ seen' = [seen EXCEPT ![c] = @ \cup {e.id}]
          /\ Apply(c, {e})
    /\ UNCHANGED <<store, outbox, chan, sub, srv, base, through, last, fresh, faults>>

\* handleResetRequired: drop everything, adopt the reset as cursor.
AdoptReset(c, at) ==
    /\ cursor' = [cursor EXCEPT ![c] = at]
    /\ known' = [known EXCEPT ![c] = {}]
    /\ fresh' = [fresh EXCEPT ![c] = FALSE]
    /\ UNCHANGED seen

ReceiveReset(c) ==
    /\ last[c] # 0
    /\ wire[c] = {}
    /\ AdoptReset(c, last[c])
    /\ last' = [last EXCEPT ![c] = 0]
    /\ UNCHANGED <<store, outbox, chan, sub, srv, base, through, wire, faults>>

\* The client reads the end of the stream.
EndOfStream(c) ==
    /\ srv[c] = "returned"
    /\ wire[c] = {}
    /\ last[c] = 0
    /\ srv' = [srv EXCEPT ![c] = "off"]
    /\ base' = [base EXCEPT ![c] = 0]
    /\ UNCHANGED <<store, outbox, chan, sub, through, wire, last, client, faults>>

\* The refetch after a reset, or whenever the client likes.
Refetch(c) ==
    /\ known' = [known EXCEPT ![c] = Listed(c)]
    /\ seen' = [seen EXCEPT ![c] = @ \cup 1 .. seq]
    /\ fresh' = [fresh EXCEPT ![c] = TRUE]
    /\ UNCHANGED <<store, outbox, conn, cursor, faults>>

\* doPollEvents: the reset check ...
PollReset(c) ==
    /\ c \in Pollers
    /\ srv[c] = "off"
    /\ \E r \in Resets(c) : ResetDue(c, cursor[c], r) /\ AdoptReset(c, r)
    /\ UNCHANGED <<store, outbox, conn, faults>>

PollChecked(c) ==
    /\ c \in Pollers
    /\ srv[c] = "off"
    /\ NoResetDue(c, cursor[c])
    /\ srv' = [srv EXCEPT ![c] = "polled"]
    /\ UNCHANGED <<store, outbox, chan, sub, base, through, wire, last, client, faults>>

\* ... and then the page, with no upper bound.
PollRead(c) ==
    LET rows == FirstRows(Window(c, cursor[c], 0), PollLimit)
    IN  /\ srv[c] = "polled"
        /\ \E m \in 0 .. seq : /\ ScannedTo(rows, cursor[c], 0, m)
                          /\ cursor' = [cursor EXCEPT ![c] = m]
        /\ seen' = [seen EXCEPT ![c] = @ \cup {e.id : e \in rows}]
        /\ Apply(c, rows)
        /\ srv' = [srv EXCEPT ![c] = "off"]
        /\ UNCHANGED <<store, outbox, chan, sub, base, through, wire, last, fresh, faults>>

-----------------------------------------------------------------------------
(* Faults.                                                                 *)

Drop(S) ==
    /\ chan' = [c \in Clients |-> IF c \in S THEN <<>> ELSE chan[c]]
    /\ sub' = [c \in Clients |-> sub[c] /\ c \notin S]
    /\ srv' = [c \in Clients |-> IF c \in S THEN "off" ELSE srv[c]]
    /\ wire' = [c \in Clients |-> IF c \in S THEN {} ELSE wire[c]]
    /\ last' = [c \in Clients |-> IF c \in S THEN 0 ELSE last[c]]
    /\ faults < MaxFaults
    /\ base' = [c \in Clients |-> IF c \in S THEN 0 ELSE base[c]]
    /\ through' = [c \in Clients |-> IF c \in S THEN 0 ELSE through[c]]
    /\ faults' = faults + 1
    /\ UNCHANGED <<store, client>>

\* A connection breaks: what was on the wire is lost.
Disconnect(c) ==
    /\ srv[c] # "off"
    /\ Drop({c})
    /\ UNCHANGED outbox

\* The daemon dies: commits whose broadcast was still to come are never
\* broadcast.
Crash ==
    /\ Drop(Clients)
    /\ outbox' = {}

-----------------------------------------------------------------------------

Store ==
    \E i \in Issues : \/ \E p \in Projects : CreateIssue(i, p) \/ MoveIssue(i, p)
                      \/ ChangeIssue(i)
                      \/ PurgeIssue(i)

Stream(c) ==
    \/ Subscribe(c) \/ CaptureHighWater(c)
    \/ ResetFound(c) \/ ResetNotFound(c) \/ Drain(c) \/ DrainTooLong(c)
    \/ Wake(c) \/ TakeReset(c) \/ Overflowed(c) \/ ReadBatch(c)
    \/ ReceiveEvent(c) \/ ReceiveReset(c) \/ EndOfStream(c)

Poll(c) == PollReset(c) \/ PollChecked(c) \/ PollRead(c)

Next ==
    \/ Store
    \/ \E m \in outbox : Publish(m)
    \/ \E c \in Clients : Stream(c) \/ Poll(c) \/ Refetch(c) \/ Disconnect(c)
    \/ Crash

Spec == Init /\ [][Next]_vars

-----------------------------------------------------------------------------
(* Properties.                                                             *)

\* Every variable has its type; ids lie below the sequence, and no channel
\* outgrows its buffer.
TypeOK ==
    /\ seq \in Nat
    /\ log \subseteq Msgs(seq)
    /\ \A e \in log : e.kind = "event"
    /\ home \in [Issues -> Projects \cup {"absent", "purged"}]
    /\ purgeLog \subseteq [proj : Projects, at : 1 .. seq]
    /\ former \in [Projects -> 0 .. seq]
    /\ outbox \subseteq Msgs(seq)
    /\ chan \in [Clients -> Seq(Msgs(seq))]
    /\ \A c \in Clients : Len(chan[c]) <= ChannelBuffer
    /\ sub \in [Clients -> BOOLEAN]
    /\ srv \in [Clients -> {"off", "subscribed", "drain", "read", "returned", "polled"} \cup Checking]
    /\ base \in [Clients -> 0 .. seq]
    /\ through \in [Clients -> 0 .. seq]
    /\ wire \in [Clients -> SUBSET Msgs(seq)]
    /\ last \in [Clients -> 0 .. seq]
    /\ cursor \in [Clients -> 0 .. seq]
    /\ known \in [Clients -> SUBSET Issues]
    /\ seen \in [Clients -> SUBSET Nat]
    /\ fresh \in [Clients -> BOOLEAN]
    /\ faults \in Nat

PurgeAhead(c) ==
    \A i \in known[c] : home[i] = "purged" => \E r \in Resets(c) : r > cursor[c]

\* A client that follows the stream and still caches an issue that was purged
\* is behind the purge's reserved cursor, so the reset will still be reported
\* to it: no order of purge, later events, broadcasts and reads moves
\* Last-Event-ID past it (the ordering comment of runLivePhase).
StreamPurgeAhead == \A c \in Streamers : PurgeAhead(c)

\* The same for a client that polls: "both paths honor the same reset
\* boundary" (docs/design/data-model.md).
PollPurgeAhead == \A c \in Pollers : PurgeAhead(c)

\* A client that is not in the middle of a reset has received (or refetched
\* past) every event of its scope up to its cursor: neither the page limit, the
\* high-water mark, coalesced wakeups nor reordered broadcasts skip one.
NoMissedEvent ==
    \A c \in Clients : fresh[c] =>
        \A e \in log : Visible(c, e) /\ e.id <= cursor[c] => e.id \in seen[c]

\* The frames of a connection go out once and in id order, whatever order the
\* wakeups come in: what is on the wire is above what the client received and
\* not above lastSent.
FramesInOrder ==
    \A c \in Streamers : \A f \in wire[c] : cursor[c] < f.id /\ f.id <= base[c]

\* A client of the stream does not keep a purged issue, even when the purge's
\* broadcast is lost or is dropped by a full channel.
PurgedDataDropped ==
    \A c \in Streamers : \A i \in Issues :
        (home[i] = "purged" /\ i \in known[c]) ~> i \notin known[c]
=============================================================================
