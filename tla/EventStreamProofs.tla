------------------------- MODULE EventStreamProofs -------------------------
(***************************************************************************)
(* Proofs that a client of the event stream never gets past the reset of a *)
(* purge whose issue it still caches, and that the frames of a connection  *)
(* go out once and in order: for any clients, projects, issues, buffer     *)
(* sizes and batch sizes.                                                  *)
(***************************************************************************)
EXTENDS EventStream, SequenceTheorems, FiniteSetTheorems, WellFoundedInduction, TLAPS

-----------------------------------------------------------------------------
(* Type correctness. *)

LEMMA MsgsGrow ==
  ASSUME NEW n \in Nat
  PROVE  Msgs(n) \subseteq Msgs(n + 1)
<1> 1 .. n \subseteq 1 .. n + 1
  OBVIOUS
<1> QED
  BY DEF Msgs

LEMMA SeqGrow ==
  ASSUME NEW S, NEW T, S \subseteq T, NEW s \in Seq(S)
  PROVE  s \in Seq(T)
<1>1. Len(s) \in Nat /\ s \in [1 .. Len(s) -> S]
  BY LenProperties
<1>2. s \in [1 .. Len(s) -> T]
  BY <1>1
<1> QED
  BY <1>1, <1>2

\* A store transaction takes the next id and leaves clients and connections
\* alone.
StoreStep ==
    /\ seq' = seq + 1
    /\ UNCHANGED <<conn, client, faults>>

LEMMA StoreType ==
  ASSUME TypeOK, StoreStep,
         log' \subseteq Msgs(seq + 1), \A e \in log' : e.kind = "event",
         home' \in [Issues -> Projects \cup {"absent", "purged"}],
         purgeLog' \subseteq [proj : Projects, at : 1 .. seq + 1],
         former' \in [Projects -> 0 .. seq + 1],
         outbox' \subseteq Msgs(seq + 1)
  PROVE  TypeOK'
<1>1. seq \in Nat /\ seq' = seq + 1 /\ seq' \in Nat /\ 0 .. seq \subseteq 0 .. seq'
  BY DEF TypeOK, StoreStep
<1>2. Msgs(seq) \subseteq Msgs(seq')
  BY <1>1, MsgsGrow
<1>3. chan' \in [Clients -> Seq(Msgs(seq'))]
  BY <1>2, SeqGrow DEF TypeOK, StoreStep, conn
<1>4. wire' \in [Clients -> SUBSET Msgs(seq')]
  BY <1>2 DEF TypeOK, StoreStep, conn
<1>5. /\ base' \in [Clients -> 0 .. seq'] /\ through' \in [Clients -> 0 .. seq']
      /\ last' \in [Clients -> 0 .. seq'] /\ cursor' \in [Clients -> 0 .. seq']
  BY <1>1 DEF TypeOK, StoreStep, conn, client
<1> QED
  BY <1>1, <1>2, <1>3, <1>4, <1>5 DEF TypeOK, StoreStep, conn, client, Checking

LEMMA AppendType ==
  ASSUME TypeOK, NEW p \in Projects, NEW i \in Issues,
         NEW q \in Projects \cup {NoProject}, Append1(p, i, q),
         UNCHANGED <<purgeLog, former, conn, client, faults>>,
         home' \in [Issues -> Projects \cup {"absent", "purged"}]
  PROVE  TypeOK'
<1>1. seq \in Nat /\ seq + 1 \in 1 .. seq + 1 /\ 1 .. seq \subseteq 1 .. seq + 1
  BY DEF TypeOK
<1>2. /\ Event(seq + 1, p, i, q) \in Msgs(seq + 1)
      /\ Event(seq + 1, p, i, q).kind = "event"
  BY <1>1 DEF Event, Msgs
<1>3. Msgs(seq) \subseteq Msgs(seq + 1)
  BY <1>1, MsgsGrow
<1>4. /\ log' \subseteq Msgs(seq + 1) /\ outbox' \subseteq Msgs(seq + 1)
      /\ \A e \in log' : e.kind = "event"
  BY <1>2, <1>3 DEF TypeOK, Append1
<1>5. purgeLog' \subseteq [proj : Projects, at : 1 .. seq + 1]
  BY <1>1 DEF TypeOK
<1>6. former' \in [Projects -> 0 .. seq + 1]
  <2>1. 0 .. seq \subseteq 0 .. seq + 1
    BY <1>1
  <2> QED
    BY <2>1 DEF TypeOK
<1>7. StoreStep
  BY DEF StoreStep, Append1
<1> QED
  BY <1>4, <1>5, <1>6, <1>7, StoreType

LEMMA PurgeType ==
  ASSUME TypeOK, NEW i \in Issues, PurgeIssue(i)
  PROVE  TypeOK'
<1>1. seq \in Nat /\ seq + 1 \in 1 .. seq + 1 /\ 1 .. seq \subseteq 1 .. seq + 1
      /\ 0 .. seq \subseteq 0 .. seq + 1 /\ seq + 1 \in 0 .. seq + 1
  BY DEF TypeOK
<1>2. ASSUME NEW p \in Projects
      PROVE  ResetMsg(p, seq + 1) \in Msgs(seq + 1)
  BY <1>1 DEF ResetMsg, Msgs
<1>3. Msgs(seq) \subseteq Msgs(seq + 1)
  BY <1>1, MsgsGrow
<1>4. home[i] \in Projects /\ FormerProjects(i) \subseteq Projects
  BY DEF PurgeIssue, FormerProjects
<1>5. outbox' \subseteq Msgs(seq + 1)
  BY <1>2, <1>3, <1>4 DEF TypeOK, PurgeIssue
<1>6. log' \subseteq Msgs(seq + 1) /\ \A e \in log' : e.kind = "event"
  BY <1>3 DEF TypeOK, PurgeIssue
<1>7. purgeLog' \subseteq [proj : Projects, at : 1 .. seq + 1]
  BY <1>1, <1>4 DEF TypeOK, PurgeIssue
<1>8. former' \in [Projects -> 0 .. seq + 1]
  BY <1>1 DEF TypeOK, PurgeIssue
<1>9. home' \in [Issues -> Projects \cup {"absent", "purged"}]
  BY DEF TypeOK, PurgeIssue
<1>10. StoreStep
  BY DEF StoreStep, PurgeIssue
<1> QED
  BY <1>5, <1>6, <1>7, <1>8, <1>9, <1>10, StoreType

LEMMA RowsInLog ==
  ASSUME NEW c \in Clients, NEW lo, NEW hi, NEW n
  PROVE  /\ FirstRows(Window(c, lo, hi), n) \subseteq log
         /\ \A e \in FirstRows(Window(c, lo, hi), n) :
               Visible(c, e) /\ e.id > lo /\ (hi # 0 => e.id <= hi)
  BY DEF FirstRows, Window

LEMMA ResetsTyped ==
  ASSUME TypeOK, NEW c \in Clients
  PROVE  Resets(c) \subseteq 0 .. seq
  BY DEF TypeOK, Resets

LEMMA PublishType ==
  ASSUME TypeOK, NEW m \in outbox, Publish(m)
  PROVE  TypeOK'
<1> DEFINE hit == {c \in Clients : sub[c] /\ Matches(c, m)}
           room == {c \in hit : Len(chan[c]) < ChannelBuffer}
<1>1. /\ m \in Msgs(seq) /\ outbox' \subseteq Msgs(seq)
      /\ chan' = [c \in Clients |-> IF c \in room THEN Append(chan[c], m) ELSE chan[c]]
      /\ sub' = [c \in Clients |-> sub[c] /\ c \notin hit \ room]
      /\ UNCHANGED <<store, srv, base, through, wire, last, client, faults>>
  BY DEF TypeOK, Publish
<1>2. ASSUME NEW c \in Clients
      PROVE  chan'[c] \in Seq(Msgs(seq)) /\ Len(chan'[c]) <= ChannelBuffer
  <2>1. chan[c] \in Seq(Msgs(seq)) /\ Len(chan[c]) <= ChannelBuffer
        /\ Len(chan[c]) \in Nat /\ ChannelBuffer \in Nat
    BY BoundsAssumption, LenProperties DEF TypeOK
  <2>2. CASE c \in room
    BY <1>1, <2>1, <2>2, AppendProperties
  <2>3. CASE c \notin room
    BY <1>1, <2>1, <2>3
  <2> QED
    BY <2>2, <2>3
<1>3. chan' \in [Clients -> Seq(Msgs(seq))] /\ sub' \in [Clients -> BOOLEAN]
  BY <1>1, <1>2
<1>4. seq' = seq
  BY <1>1 DEF store
<1> HIDE DEF hit, room
<1> QED
  BY <1>1, <1>2, <1>3, <1>4 DEF TypeOK, store, client, Checking

LEMMA ReturnType ==
  ASSUME TypeOK, NEW c \in Clients, Return(c)
  PROVE  /\ srv' \in [Clients -> {"off", "subscribed", "drain", "read", "returned", "polled"} \cup Checking]
         /\ sub' \in [Clients -> BOOLEAN]
         /\ chan' \in [Clients -> Seq(Msgs(seq))]
         /\ \A d \in Clients : Len(chan'[d]) <= ChannelBuffer
         /\ through' \in [Clients -> 0 .. seq]
<1>1. <<>> \in Seq(Msgs(seq)) /\ Len(<<>>) = 0
  OBVIOUS
<1>2. chan' \in [Clients -> Seq(Msgs(seq))]
  BY <1>1 DEF TypeOK, Return
<1>3. \A d \in Clients : Len(chan'[d]) <= ChannelBuffer
  BY <1>1, BoundsAssumption DEF TypeOK, Return
<1>4. seq \in Nat /\ 0 \in 0 .. seq
  BY DEF TypeOK
<1> QED
  BY <1>2, <1>3, <1>4 DEF TypeOK, Return

LEMMA EndWithResetType ==
  ASSUME TypeOK, NEW c \in Clients, NEW at \in 0 .. seq, EndWithReset(c, at)
  PROVE  TypeOK'
<1>1. Return(c) /\ last' \in [Clients -> 0 .. seq]
      /\ UNCHANGED <<store, outbox, base, wire, client, faults>>
  BY DEF TypeOK, EndWithReset
<1> QED
  BY <1>1, ReturnType DEF TypeOK, store, client

LEMMA WriteFramesType ==
  ASSUME TypeOK, NEW c \in Clients, NEW rows, rows \subseteq log, NEW m \in 0 .. seq,
         WriteFrames(c, rows, m)
  PROVE  wire' \in [Clients -> SUBSET Msgs(seq)] /\ base' \in [Clients -> 0 .. seq]
  BY DEF TypeOK, WriteFrames

LEMMA ApplyType ==
  ASSUME TypeOK, NEW c \in Clients, NEW es, Apply(c, es)
  PROVE  known' \in [Clients -> SUBSET Issues]
  BY DEF TypeOK, Apply

LEMMA StreamType ==
  ASSUME TypeOK, NEW c \in Clients, Stream(c)
  PROVE  TypeOK'
<1>0. seq \in Nat /\ 0 \in 0 .. seq /\ 1 .. seq \subseteq 0 .. seq
  BY DEF TypeOK
<1>1. CASE Subscribe(c)
  <2>1. <<>> \in Seq(Msgs(seq)) /\ Len(<<>>) = 0
    OBVIOUS
  <2>2. /\ chan' \in [Clients -> Seq(Msgs(seq))] 
        /\ \A d \in Clients : Len(chan'[d]) <= ChannelBuffer
    BY <1>1, <2>1, BoundsAssumption DEF TypeOK, Subscribe
  <2> QED
    BY <1>1, <2>2 DEF TypeOK, Subscribe, store, client
<1>2. CASE CaptureHighWater(c)
  BY <1>2 DEF TypeOK, CaptureHighWater, store, client, Checking
<1>3. CASE ResetFound(c)
  <2>1. PICK r \in Resets(c) : EndWithReset(c, r)
    BY <1>3 DEF ResetFound
  <2> QED
    BY <2>1, ResetsTyped, EndWithResetType
<1>4. CASE ResetNotFound(c)
  BY <1>4 DEF TypeOK, ResetNotFound, store, client, Checking
<1>5. CASE Drain(c)
  <2> DEFINE rows == FirstRows(Window(c, base[c], through[c]), DrainCap + 1)
  <2>1. PICK m \in 0 .. seq : WriteFrames(c, rows, m)
    BY <1>5 DEF Drain
  <2>2. rows \subseteq log
    BY RowsInLog
  <2>3. wire' \in [Clients -> SUBSET Msgs(seq)] /\ base' \in [Clients -> 0 .. seq]
    BY <2>1, <2>2, WriteFramesType
  <2> QED
    BY <1>0, <1>5, <2>3 DEF TypeOK, Drain, store, client, Checking
<1>6. CASE DrainTooLong(c)
  <2>1. through[c] \in 0 .. seq /\ EndWithReset(c, through[c])
    BY <1>6 DEF TypeOK, DrainTooLong
  <2> QED
    BY <2>1, EndWithResetType
<1>7. CASE Wake(c)
  <2>1. chan[c] \in Seq(Msgs(seq)) /\ chan[c] # <<>> /\ Len(chan[c]) <= ChannelBuffer
    BY <1>7 DEF TypeOK, Wake
  <2>2. /\ Head(chan[c]) \in Msgs(seq) /\ Tail(chan[c]) \in Seq(Msgs(seq))
        /\ Len(Tail(chan[c])) = Len(chan[c]) - 1 /\ Len(chan[c]) \in Nat
    BY <2>1, HeadTailProperties, LenProperties
  <2>3. Head(chan[c]).id \in 0 .. seq
    BY <1>0, <2>2 DEF Msgs
  <2>4. /\ chan' \in [Clients -> Seq(Msgs(seq))] 
        /\ \A d \in Clients : Len(chan'[d]) <= ChannelBuffer
    BY <1>7, <2>1, <2>2, BoundsAssumption DEF TypeOK, Wake
  <2> QED
    BY <1>7, <2>3, <2>4 DEF TypeOK, Wake, store, client, Checking
<1>8. CASE TakeReset(c)
  <2>1. chan[c] \in Seq(Msgs(seq)) /\ chan[c] # <<>>
    BY <1>8 DEF TypeOK, TakeReset
  <2>2. Head(chan[c]) \in Msgs(seq)
    BY <2>1, HeadTailProperties
  <2>3. Head(chan[c]).id \in 0 .. seq /\ EndWithReset(c, Head(chan[c]).id)
    BY <1>0, <1>8, <2>2 DEF Msgs, TakeReset
  <2> QED
    BY <2>3, EndWithResetType
<1>9. CASE Overflowed(c)
  <2>1. Return(c) /\ UNCHANGED <<store, outbox, base, wire, last, client, faults>>
    BY <1>9 DEF Overflowed
  <2> QED
    BY <2>1, ReturnType DEF TypeOK, store, client
<1>10. CASE ReadBatch(c)
  <2> DEFINE rows == FirstRows(Window(c, base[c], through[c]), LiveBatch)
  <2>1. PICK m \in 0 .. seq :
          /\ WriteFrames(c, rows, m)
          /\ srv' = [srv EXCEPT ![c] = IF m >= through[c] THEN "live" ELSE "read"]
          /\ through' = [through EXCEPT ![c] = IF m >= @ THEN 0 ELSE @]
    BY <1>10 DEF ReadBatch
  <2>2. rows \subseteq log
    BY RowsInLog
  <2>3. wire' \in [Clients -> SUBSET Msgs(seq)] /\ base' \in [Clients -> 0 .. seq]
    BY <2>1, <2>2, WriteFramesType
  <2>4. UNCHANGED <<store, outbox, chan, sub, last, client, faults>>
    BY <1>10 DEF ReadBatch
  <2> HIDE DEF rows
  <2> QED
    BY <1>0, <2>1, <2>3, <2>4 DEF TypeOK, store, client, Checking
<1>11. CASE ReceiveEvent(c)
  <2>1. PICK e \in wire[c] :
          /\ wire' = [wire EXCEPT ![c] = @ \ {e}]
          /\ cursor' = [cursor EXCEPT ![c] = e.id]
          /\ seen' = [seen EXCEPT ![c] = @ \cup {e.id}]
          /\ Apply(c, {e})
    BY <1>11 DEF ReceiveEvent
  <2>2. e.id \in 1 .. seq
    BY <2>1 DEF TypeOK, Msgs
  <2>3. known' \in [Clients -> SUBSET Issues]
    BY <2>1, ApplyType
  <2>4. UNCHANGED <<store, outbox, chan, sub, srv, base, through, last, fresh, faults>>
    BY <1>11 DEF ReceiveEvent
  <2>5. wire' \in [Clients -> SUBSET Msgs(seq)] /\ cursor' \in [Clients -> 0 .. seq]
    BY <1>0, <2>1, <2>2 DEF TypeOK
  <2>6. seen' \in [Clients -> SUBSET Nat]
    BY <1>0, <2>1, <2>2 DEF TypeOK
  <2> QED
    BY <2>3, <2>4, <2>5, <2>6 DEF TypeOK, store
<1>12. CASE ReceiveReset(c)
  BY <1>0, <1>12 DEF TypeOK, ReceiveReset, AdoptReset, store
<1>13. CASE EndOfStream(c)
  BY <1>0, <1>13 DEF TypeOK, EndOfStream, store, client
<1> QED
  BY <1>1, <1>2, <1>3, <1>4, <1>5, <1>6, <1>7, <1>8, <1>9, <1>10, <1>11, <1>12, <1>13
     DEF Stream

LEMMA RefetchType ==
  ASSUME TypeOK, NEW c \in Clients, Refetch(c)
  PROVE  TypeOK'
<1>1. Listed(c) \subseteq Issues /\ 1 .. seq \subseteq Nat
  BY DEF Listed, TypeOK
<1>2. /\ known' \in [Clients -> SUBSET Issues]
      /\ seen' \in [Clients -> SUBSET Nat]
      /\ fresh' \in [Clients -> BOOLEAN]
  BY <1>1 DEF TypeOK, Refetch
<1> QED
  BY <1>2 DEF TypeOK, Refetch, store, conn

LEMMA PollType ==
  ASSUME TypeOK, NEW c \in Clients, Poll(c)
  PROVE  TypeOK'
<1>1. CASE PollReset(c)
  <2>1. PICK r \in Resets(c) : AdoptReset(c, r)
    BY <1>1 DEF PollReset
  <2>2. r \in 0 .. seq
    BY <2>1, ResetsTyped
  <2> QED
    BY <1>1, <2>1, <2>2 DEF TypeOK, PollReset, AdoptReset, store, conn
<1>2. CASE PollChecked(c)
  BY <1>2 DEF TypeOK, PollChecked, store, client
<1>3. CASE PollRead(c)
  <2> DEFINE rows == FirstRows(Window(c, cursor[c], 0), PollLimit)
  <2>1. PICK m \in 0 .. seq : cursor' = [cursor EXCEPT ![c] = m]
    BY <1>3 DEF PollRead
  <2>2. /\ seen' = [seen EXCEPT ![c] = @ \cup {e.id : e \in rows}]
        /\ Apply(c, rows)
        /\ srv' = [srv EXCEPT ![c] = "off"]
        /\ UNCHANGED <<store, outbox, chan, sub, base, through, wire, last, fresh, faults>>
    BY <1>3 DEF PollRead
  <2>3. known' \in [Clients -> SUBSET Issues]
    BY <2>2, ApplyType
  <2>4. \A e \in rows : e.id \in Nat
    <3>1. rows \subseteq Msgs(seq) /\ seq \in Nat
      BY RowsInLog DEF TypeOK
    <3> QED
      BY <3>1 DEF Msgs
  <2> HIDE DEF rows
  <2>5. seen' \in [Clients -> SUBSET Nat]
    BY <2>2, <2>4 DEF TypeOK
  <2> QED
    BY <2>1, <2>2, <2>3, <2>5 DEF TypeOK, store
<1> QED
  BY <1>1, <1>2, <1>3 DEF Poll

LEMMA DropType ==
  ASSUME TypeOK, NEW S, Drop(S), outbox' \subseteq outbox
  PROVE  TypeOK'
<1>1. <<>> \in Seq(Msgs(seq)) /\ Len(<<>>) = 0 /\ 0 \in 0 .. seq
  BY DEF TypeOK
<1>2. /\ chan' \in [Clients -> Seq(Msgs(seq))] 
      /\ \A d \in Clients : Len(chan'[d]) <= ChannelBuffer
  BY <1>1, BoundsAssumption DEF TypeOK, Drop
<1> QED
  BY <1>1, <1>2 DEF TypeOK, Drop, store, client

LEMMA InitType ==
  ASSUME Init
  PROVE  TypeOK
<1>1. PICK p \in Projects : log = {Event(1, p, NoIssue, NoProject)}
  BY DEF Init
<1>2. seq = 1 /\ log \subseteq Msgs(seq) /\ \A e \in log : e.kind = "event"
  BY <1>1 DEF Init, Event, Msgs
<1>3. <<>> \in Seq(Msgs(seq)) /\ Len(<<>>) = 0
  OBVIOUS
<1> QED
  BY <1>2, <1>3, BoundsAssumption DEF Init, TypeOK

LEMMA NextType ==
  ASSUME TypeOK, [Next]_vars
  PROVE  TypeOK'
<1>1. CASE Store
  <2>1. ASSUME NEW i \in Issues, NEW p \in Projects, CreateIssue(i, p)
        PROVE  TypeOK'
    BY <2>1, AppendType DEF CreateIssue, TypeOK
  <2>2. ASSUME NEW i \in Issues, NEW p \in Projects, MoveIssue(i, p)
        PROVE  TypeOK'
    BY <2>2, AppendType DEF MoveIssue, TypeOK
  <2>3. ASSUME NEW i \in Issues, ChangeIssue(i)
        PROVE  TypeOK'
    BY <2>3, AppendType DEF ChangeIssue, TypeOK
  <2> QED
    BY <1>1, <2>1, <2>2, <2>3, PurgeType DEF Store
<1>2. CASE \E m \in outbox : Publish(m)
  BY <1>2, PublishType
<1>3. CASE \E c \in Clients : Stream(c) \/ Poll(c) \/ Refetch(c) \/ Disconnect(c)
  BY <1>3, StreamType, PollType, RefetchType, DropType DEF Disconnect
<1>4. CASE Crash
  BY <1>4, DropType DEF Crash
<1>5. CASE UNCHANGED vars
  BY <1>5 DEF TypeOK, vars, Checking
<1> QED
  BY <1>1, <1>2, <1>3, <1>4, <1>5 DEF Next

\* Every variable keeps its type, whatever the interleaving of writers,
\* broadcasts, handlers, clients and faults.
THEOREM TypeCorrect == Spec => []TypeOK
  BY InitType, NextType, PTL DEF Spec

-----------------------------------------------------------------------------
(* The inductive invariant.  StreamPurgeAhead alone is not inductive: a     *)
(* frame on its way may hold a dead issue, a window read after the reset    *)
(* check may not reach past a reset that came later, and a purge must reach *)
(* every client that still caches the issue, its former projects' included. *)

\* Only live issues have history, project.created is never deleted, and an id
\* is one event.
LogOK ==
    /\ \A e \in log : e.issue \in Issues => home[e.issue] \in Projects
    /\ \E e \in log : e.issue = NoIssue
    /\ \A e, f \in log : e.id = f.id => e = f

Reading   == {"check", "drain", "woken", "read"}
Connected == {"subscribed", "live"} \cup Reading

\* A window has an upper end, and once the check is over no reset of the
\* client lies in it.
WindowOK(c) ==
    /\ srv[c] \in Reading => through[c] # 0
    /\ srv[c] \in {"drain", "read"} =>
          \A r \in Resets(c) : r <= base[c] \/ r > through[c]

\* The wire holds distinct ids between the client's cursor and lastSent, and a
\* reset frame ends the stream.
FramesOK(c) ==
    /\ srv[c] \in Connected => cursor[c] <= base[c]
    /\ srv[c] \in {"off", "polled"} => wire[c] = {}
    /\ last[c] # 0 => srv[c] = "returned"
    /\ \A f \in wire[c] : cursor[c] < f.id /\ f.id <= base[c]
    /\ \A e, f \in wire[c] : e.id = f.id => e = f

\* A frame is visible to its client and still in the log unless its issue was
\* purged.
WireOK(c) ==
    \A f \in wire[c] :
        /\ Visible(c, f)
        /\ f.issue \in Issues => home[f.issue] = "purged" \/ f \in log

\* A cached issue that lives is in the client's scope, or the log has an event
\* about it that the client can see.
CacheOK(c) ==
    \A i \in known[c] :
        \/ home[i] = "purged"
        \/ /\ home[i] \in Projects
           /\ InScope(c, home[i]) \/ \E e \in log : e.issue = i /\ Visible(c, e)

\* A purged issue that is cached or on the wire has a reset ahead of cursor
\* and lastSent.
DeadAhead(c) ==
    \A i \in Issues :
        /\ home[i] = "purged"
        /\ i \in known[c] \/ \E f \in wire[c] : f.issue = i
        => \E r \in Resets(c) : r > cursor[c] /\ r > base[c]

ClientOK(c) ==
    /\ WindowOK(c)
    /\ FramesOK(c)
    /\ WireOK(c)
    /\ c \in Streamers => CacheOK(c) /\ DeadAhead(c)

IInv ==
    /\ TypeOK
    /\ LogOK
    /\ \A c \in Clients : ClientOK(c)

LEMMA ResetsSame ==
  ASSUME NEW c \in Clients, UNCHANGED store
  PROVE  Resets(c)' = Resets(c)
  BY DEF Resets, store

LEMMA LogSame ==
  ASSUME LogOK, UNCHANGED store
  PROVE  LogOK'
  BY DEF LogOK, store

\* What a client and its handler hold is good as long as neither they nor the
\* store move.
LEMMA Untouched ==
  ASSUME NEW c \in Clients, ClientOK(c), UNCHANGED store,
         srv'[c] = srv[c], base'[c] = base[c], through'[c] = through[c],
         wire'[c] = wire[c], last'[c] = last[c],
         cursor'[c] = cursor[c], known'[c] = known[c]
  PROVE  ClientOK(c)'
<1>1. Resets(c)' = Resets(c)
  BY ResetsSame
<1>2. WindowOK(c)'
  BY <1>1 DEF ClientOK, WindowOK
<1>3. FramesOK(c)'
  BY DEF ClientOK, FramesOK
<1>4. WireOK(c)'
  BY DEF ClientOK, WireOK, store
<1>5. CASE c \in Streamers
  <2>1. CacheOK(c)'
    BY <1>5 DEF ClientOK, CacheOK, store
  <2>2. DeadAhead(c)'
    BY <1>1, <1>5 DEF ClientOK, DeadAhead, store
  <2> QED
    BY <1>2, <1>3, <1>4, <2>1, <2>2 DEF ClientOK
<1> QED
  BY <1>2, <1>3, <1>4, <1>5 DEF ClientOK

-----------------------------------------------------------------------------
(* The store's transactions.                                               *)

LEMMA AppendKeeps ==
  ASSUME IInv, NEW i \in Issues, NEW p \in Projects, NEW q \in Projects \cup {NoProject},
         Append1(p, i, q), UNCHANGED <<purgeLog, former, conn, client, faults>>,
         home' = [home EXCEPT ![i] = p],
         \/ home[i] = "absent"
         \/ home[i] \in Projects /\ (home[i] = p \/ home[i] = q)
  PROVE  LogOK' /\ \A c \in Clients : ClientOK(c)'
<1> DEFINE e == Event(seq + 1, p, i, q)
<1>1. /\ log' = log \cup {e} /\ seq \in Nat
      /\ e.id = seq + 1 /\ e.issue = i /\ e.proj = p /\ e.from = q
  BY DEF Append1, Event, IInv, TypeOK
<1>2. \A f \in log : f.id \in 1 .. seq /\ f.id # seq + 1
  BY <1>1 DEF IInv, TypeOK, Msgs
<1>3. /\ home \in [Issues -> Projects \cup {"absent", "purged"}]
      /\ home'[i] = p /\ \A j \in Issues : j # i => home'[j] = home[j]
      /\ home[i] # "purged" /\ p # "purged"
  BY NamesAssumption DEF IInv, TypeOK
<1> HIDE DEF e
<1>4. LogOK'
  <2>1. \A f \in log' : f.issue \in Issues => home'[f.issue] \in Projects
    BY <1>1, <1>3 DEF IInv, LogOK
  <2>2. \E f \in log' : f.issue = NoIssue
    BY <1>1 DEF IInv, LogOK
  <2>3. \A f, g \in log' : f.id = g.id => f = g
    BY <1>1, <1>2 DEF IInv, LogOK
  <2> QED
    BY <2>1, <2>2, <2>3 DEF LogOK
<1>5. ASSUME NEW c \in Clients
      PROVE  ClientOK(c)'
  <2>1. ClientOK(c) /\ Resets(c)' = Resets(c)
    BY DEF IInv, Resets
  <2>2. WindowOK(c)' /\ FramesOK(c)'
    BY <2>1 DEF ClientOK, WindowOK, FramesOK, conn, client
  <2>3. WireOK(c)'
    BY <1>1, <1>3, <2>1 DEF ClientOK, WireOK, conn
  <2>4. ASSUME c \in Streamers
        PROVE  CacheOK(c)'
    <3>1. SUFFICES ASSUME NEW j \in known[c], home'[j] # "purged"
                   PROVE  /\ home'[j] \in Projects
                          /\ \/ InScope(c, home'[j])
                             \/ \E f \in log' : f.issue = j /\ Visible(c, f)
      BY DEF CacheOK, client
    <3>2. /\ j \in Issues /\ home[j] # "purged" /\ home[j] \in Projects
          /\ InScope(c, home[j]) \/ \E f \in log : f.issue = j /\ Visible(c, f)
      BY <1>3, <2>1, <2>4, <3>1 DEF ClientOK, CacheOK, IInv, TypeOK
    <3>3. CASE j # i
      BY <1>1, <1>3, <3>2, <3>3
    <3>4. CASE j = i
      <4>1. home[i] = p \/ home[i] = q
        BY <3>2, <3>4, NamesAssumption
      <4>2. CASE \E f \in log : f.issue = j /\ Visible(c, f)
        BY <1>1, <1>3, <3>4, <4>2
      <4>3. CASE InScope(c, home[j])
        <5>1. CASE home[i] = p
          BY <1>3, <3>4, <4>3, <5>1
        <5>2. CASE home[i] = q
          <6>1. Visible(c, e) \/ InScope(c, p)
            BY <1>1, <3>4, <4>3, <5>2 DEF InScope, Visible
          <6> QED
            BY <1>1, <1>3, <3>4, <6>1
        <5> QED
          BY <4>1, <5>1, <5>2
      <4> QED
        BY <3>2, <4>2, <4>3
    <3> QED
      BY <3>3, <3>4
  <2>5. ASSUME c \in Streamers
        PROVE  DeadAhead(c)'
    BY <1>3, <2>1, <2>5 DEF ClientOK, DeadAhead, conn, client
  <2> QED
    BY <2>2, <2>3, <2>4, <2>5 DEF ClientOK
<1> QED
  BY <1>4, <1>5

\* A purge's reset is above everything, and reaches each client in whose scope
\* the issue is or was.
LEMMA PurgeResets ==
  ASSUME TypeOK, NEW i \in Issues, PurgeIssue(i), NEW c \in Clients
  PROVE  /\ \A r \in Resets(c)' : r \in Resets(c) \/ r = seq + 1
         /\ \A r \in Resets(c) : r \in Resets(c)' \/ seq + 1 \in Resets(c)'
         /\ InScope(c, home[i]) => seq + 1 \in Resets(c)'
         /\ \A e \in log : e.issue = i /\ Visible(c, e) => seq + 1 \in Resets(c)'
<1>1. /\ purgeLog' = purgeLog \cup {[proj |-> home[i], at |-> seq + 1]}
      /\ former' = [p \in Projects |-> IF p \in FormerProjects(i) THEN seq + 1 ELSE former[p]]
      /\ home[i] \in Projects
  BY DEF PurgeIssue
<1>2. \A r \in Resets(c)' : r \in Resets(c) \/ r = seq + 1
  BY <1>1 DEF Resets
<1>3. \A r \in Resets(c) : r \in Resets(c)' \/ seq + 1 \in Resets(c)'
  BY <1>1 DEF Resets
<1>4. InScope(c, home[i]) => seq + 1 \in Resets(c)'
  <2>1. [proj |-> home[i], at |-> seq + 1] \in purgeLog'
    BY <1>1
  <2> QED
    BY <2>1 DEF Resets
<1>5. ASSUME NEW e \in log, e.issue = i, Visible(c, e)
      PROVE  seq + 1 \in Resets(c)'
  <2>1. e.proj \in Projects /\ e.from \in Projects \cup {NoProject}
    BY DEF TypeOK, Msgs
  <2>2. CASE Scope[c] = AllProjects
    BY <1>4, <2>2 DEF InScope
  <2>3. CASE Scope[c] # AllProjects
    <3>1. Scope[c] \in Projects /\ (Scope[c] = e.proj \/ Scope[c] = e.from)
      BY <1>5, <2>3, ScopeAssumption DEF Visible, InScope
    <3>2. CASE Scope[c] = home[i]
      BY <1>4, <3>2 DEF InScope
    <3>3. CASE Scope[c] # home[i]
      <4>1. Scope[c] \in FormerProjects(i)
        BY <1>5, <3>1, <3>3 DEF FormerProjects, About
      <4>2. former'[Scope[c]] = seq + 1
        BY <1>1, <3>1, <4>1
      <4> QED
        BY <3>1, <4>2 DEF Resets, InScope
    <3> QED
      BY <3>2, <3>3
  <2> QED
    BY <2>2, <2>3
<1> QED
  BY <1>2, <1>3, <1>4, <1>5

LEMMA PurgeKeeps ==
  ASSUME IInv, NEW i \in Issues, PurgeIssue(i)
  PROVE  LogOK' /\ \A c \in Clients : ClientOK(c)'
<1>1. /\ log' = log \ About(i) /\ home[i] \in Projects
      /\ home' = [home EXCEPT ![i] = "purged"]
      /\ UNCHANGED <<conn, client, faults>>
  BY DEF PurgeIssue
<1>2. /\ home'[i] = "purged" /\ \A j \in Issues : j # i => home'[j] = home[j]
  BY <1>1 DEF IInv, TypeOK
<1>3. TypeOK /\ seq \in Nat
  BY DEF IInv, TypeOK
<1>4. LogOK'
  BY <1>1, <1>2, NamesAssumption DEF IInv, LogOK, About
<1>5. ASSUME NEW c \in Clients
      PROVE  ClientOK(c)'
  <2>1. ClientOK(c) /\ cursor[c] \in 0 .. seq /\ base[c] \in 0 .. seq /\ through[c] \in 0 .. seq
    BY DEF IInv, TypeOK
  <2>2. WindowOK(c)'
    <3>1. \A r \in Resets(c)' : r \in Resets(c) \/ r = seq + 1
      BY <1>3, PurgeResets
    <3>2. seq + 1 > through[c]
      BY <1>3, <2>1
    <3> QED
      BY <1>1, <2>1, <3>1, <3>2 DEF ClientOK, WindowOK, conn
  <2>3. FramesOK(c)'
    BY <1>1, <2>1 DEF ClientOK, FramesOK, conn, client
  <2>4. WireOK(c)'
    BY <1>1, <1>2, <2>1 DEF ClientOK, WireOK, About, conn
  <2>5. ASSUME c \in Streamers
        PROVE  CacheOK(c)'
    <3>1. SUFFICES ASSUME NEW j \in known[c], home'[j] # "purged"
                   PROVE  /\ home'[j] \in Projects
                          /\ \/ InScope(c, home'[j])
                             \/ \E f \in log' : f.issue = j /\ Visible(c, f)
      BY <1>1 DEF CacheOK, client
    <3>2. j \in Issues /\ j # i
      BY <1>2, <2>5, <3>1 DEF IInv, TypeOK
    <3>3. \A f \in log : f.issue = j => f \in log'
      BY <1>1, <3>2 DEF About
    <3> QED
      BY <1>2, <2>1, <2>5, <3>1, <3>2, <3>3 DEF ClientOK, CacheOK
  <2>6. ASSUME c \in Streamers
        PROVE  DeadAhead(c)'
    <3>1. SUFFICES ASSUME NEW j \in Issues, home'[j] = "purged",
                          j \in known[c] \/ \E f \in wire[c] : f.issue = j
                   PROVE  \E r \in Resets(c)' : r > cursor[c] /\ r > base[c]
      BY <1>1 DEF DeadAhead, conn, client
    <3>2. seq + 1 > cursor[c] /\ seq + 1 > base[c]
      BY <1>3, <2>1
    <3>3. CASE j = i
      <4>1. home[i] # "purged"
        BY <1>1, NamesAssumption
      <4>2. InScope(c, home[i]) \/ \E e \in log : e.issue = i /\ Visible(c, e)
        BY <2>1, <2>6, <3>1, <3>3, <4>1 DEF ClientOK, CacheOK, WireOK
      <4>3. seq + 1 \in Resets(c)'
        BY <1>3, <4>2, PurgeResets
      <4> QED
        BY <3>2, <4>3
    <3>4. CASE j # i
      <4>1. PICK r \in Resets(c) : r > cursor[c] /\ r > base[c]
        BY <1>2, <2>1, <2>6, <3>1, <3>4 DEF ClientOK, DeadAhead
      <4>2. r \in Resets(c)' \/ seq + 1 \in Resets(c)'
        BY <1>3, PurgeResets
      <4> QED
        BY <3>2, <4>1, <4>2
    <3> QED
      BY <3>3, <3>4
  <2> QED
    BY <2>2, <2>3, <2>4, <2>5, <2>6 DEF ClientOK
<1> QED
  BY <1>4, <1>5

-----------------------------------------------------------------------------
(* Handlers and clients.  Each step moves one client; IInv says enough of    *)
(* that one, and Untouched covers the others.                                *)

LEMMA ResetsAre ==
  ASSUME IInv, NEW c \in Clients
  PROVE  /\ Resets(c) \subseteq 0 .. seq /\ seq \in Nat
         /\ cursor[c] \in 0 .. seq /\ base[c] \in 0 .. seq /\ through[c] \in 0 .. seq
  BY ResetsTyped DEF IInv, TypeOK

\* Steps that only move the handler: no window is read and no frame moves.
LEMMA HandlerMoves ==
  ASSUME IInv, NEW c \in Clients, UNCHANGED store,
         base'[c] = base[c], wire'[c] = wire[c],
         cursor'[c] = cursor[c], known'[c] = known[c],
         srv[c] \in Connected,
         srv'[c] \in Connected \cup {"returned"},
         srv'[c] # "returned" => last'[c] = last[c],
         srv'[c] \in Reading => through'[c] # 0,
         srv'[c] \in {"drain", "read"} =>
            \A r \in Resets(c) : r <= base[c] \/ r > through'[c]
  PROVE  ClientOK(c)'
<1>1. ClientOK(c) /\ Resets(c)' = Resets(c)
  BY ResetsSame DEF IInv
<1>2. WindowOK(c)'
  BY <1>1 DEF WindowOK
<1>3. FramesOK(c)'
  BY <1>1 DEF ClientOK, FramesOK, Connected, Reading
<1>4. WireOK(c)'
  BY <1>1 DEF ClientOK, WireOK, store
<1>5. CASE c \in Streamers
  <2>1. CacheOK(c)'
    BY <1>1, <1>5 DEF ClientOK, CacheOK, store
  <2>2. DeadAhead(c)'
    BY <1>1, <1>5 DEF ClientOK, DeadAhead, store
  <2> QED
    BY <1>2, <1>3, <1>4, <2>1, <2>2 DEF ClientOK
<1> QED
  BY <1>2, <1>3, <1>4, <1>5 DEF ClientOK

LEMMA ReturnMoves ==
  ASSUME IInv, NEW c \in Clients, Return(c), UNCHANGED <<store, base, wire, client>>,
         srv[c] \in Connected
  PROVE  ClientOK(c)'
<1>1. srv'[c] = "returned"
  BY DEF IInv, TypeOK, Return
<1> QED
  BY <1>1, HandlerMoves DEF Reading, Connected, client

\* A window read up to through: no reset lies in it, and its rows are about
\* live issues.
LEMMA ReadMoves ==
  ASSUME IInv, NEW c \in Clients, NEW n, NEW m \in 0 .. seq,
         srv[c] \in {"drain", "read"},
         ScannedTo(FirstRows(Window(c, base[c], through[c]), n), base[c], through[c], m),
         WriteFrames(c, FirstRows(Window(c, base[c], through[c]), n), m),
         UNCHANGED <<store, last, client>>,
         \/ srv'[c] = "live"
         \/ srv'[c] = "read" /\ through'[c] = through[c]
  PROVE  ClientOK(c)'
<1> DEFINE rows == FirstRows(Window(c, base[c], through[c]), n)
<1>1. /\ ClientOK(c) /\ through[c] # 0 /\ Resets(c)' = Resets(c)
      /\ \A r \in Resets(c) : r <= base[c] \/ r > through[c]
      /\ cursor[c] <= base[c]
  BY ResetsSame DEF IInv, ClientOK, WindowOK, FramesOK, Reading, Connected
<1>2. /\ rows \subseteq log
      /\ \A e \in rows : Visible(c, e) /\ e.id > base[c] /\ e.id <= through[c]
  BY <1>1, RowsInLog
<1>3. /\ base[c] <= m
      /\ m <= base[c] \/ m <= through[c]
      /\ \A e \in rows : e.id <= m
  <2>1. CASE rows = {}
    BY <2>1, ResetsAre DEF ScannedTo
  <2>2. CASE rows # {}
    BY <1>2, <2>2, ResetsAre DEF ScannedTo, IsLastId
  <2> QED
    BY <2>1, <2>2
<1>4. wire'[c] = wire[c] \cup rows /\ base'[c] = m
  BY DEF IInv, TypeOK, WriteFrames
<1>5. \A e \in rows : e.id \in 1 .. seq /\ (e.issue \in Issues => home[e.issue] \in Projects)
  BY <1>2 DEF IInv, LogOK, TypeOK, Msgs
<1>6. \A f \in wire[c] : f.id \in 1 .. seq
  BY DEF IInv, TypeOK, Msgs
<1>7. \A e, f \in rows : e.id = f.id => e = f
  BY <1>2 DEF IInv, LogOK
<1> HIDE DEF rows
<1>8. WindowOK(c)'
  <2>1. ASSUME NEW r \in Resets(c), srv'[c] = "read"
        PROVE  r <= m \/ r > through[c]
    BY <1>1, <1>3, <2>1, ResetsAre
  <2> QED
    BY <1>1, <1>4, <2>1 DEF WindowOK, Reading
<1>9. FramesOK(c)'
  <2>1. cursor'[c] = cursor[c] /\ cursor[c] <= m
    BY <1>1, <1>3, ResetsAre DEF client
  <2>2. \A f \in wire'[c] : cursor[c] < f.id /\ f.id <= m
    BY <1>1, <1>2, <1>3, <1>4, <1>5, <1>6, ResetsAre DEF ClientOK, FramesOK
  <2>3. \A e, f \in wire'[c] : e.id = f.id => e = f
    BY <1>1, <1>2, <1>4, <1>5, <1>6, <1>7, ResetsAre DEF ClientOK, FramesOK
  <2>4. last'[c] = 0
    BY <1>1 DEF ClientOK, FramesOK
  <2> QED
    BY <1>4, <2>1, <2>2, <2>3, <2>4 DEF FramesOK
<1>10. WireOK(c)'
  BY <1>1, <1>2, <1>4 DEF ClientOK, WireOK, store
<1>11. CASE c \in Streamers
  <2>1. CacheOK(c)'
    BY <1>1, <1>11 DEF ClientOK, CacheOK, store, client
  <2>2. DeadAhead(c)'
    <3>1. SUFFICES ASSUME NEW i \in Issues, home[i] = "purged",
                          i \in known[c] \/ \E f \in wire'[c] : f.issue = i
                   PROVE  \E r \in Resets(c) : r > cursor[c] /\ r > m
      BY <1>1, <1>4 DEF DeadAhead, store, client
    <3>2. i \in known[c] \/ \E f \in wire[c] : f.issue = i
      BY <1>4, <1>5, <3>1, NamesAssumption
    <3>3. PICK r \in Resets(c) : r > cursor[c] /\ r > base[c]
      BY <1>1, <1>11, <3>1, <3>2 DEF ClientOK, DeadAhead
    <3>4. r > m
      BY <1>1, <1>3, <3>3, ResetsAre
    <3> QED
      BY <3>3, <3>4
  <2> QED
    BY <1>8, <1>9, <1>10, <2>1, <2>2 DEF ClientOK
<1> QED
  BY <1>8, <1>9, <1>10, <1>11 DEF ClientOK

LEMMA ReceiveMoves ==
  ASSUME IInv, NEW c \in Clients, ReceiveEvent(c)
  PROVE  ClientOK(c)'
<1>1. PICK e \in wire[c] :
        /\ \A f \in wire[c] : e.id <= f.id
        /\ wire' = [wire EXCEPT ![c] = @ \ {e}]
        /\ cursor' = [cursor EXCEPT ![c] = e.id]
        /\ Apply(c, {e})
  BY DEF ReceiveEvent
<1>2. UNCHANGED <<store, srv, base, through, last>>
  BY DEF ReceiveEvent
<1>3. /\ ClientOK(c) /\ Resets(c)' = Resets(c)
      /\ wire'[c] = wire[c] \ {e} /\ cursor'[c] = e.id /\ base'[c] = base[c]
      /\ cursor[c] < e.id /\ e.id <= base[c] /\ e.id \in 1 .. seq
      /\ \A f \in wire[c] : f.id \in 1 .. seq
  BY <1>1, <1>2, ResetsSame DEF IInv, TypeOK, Msgs, ClientOK, FramesOK
<1>4. \A i \in known'[c] : i \in known[c] \/ (i = e.issue /\ i \in Issues /\ InScope(c, e.proj))
  BY <1>1 DEF Apply, IInv, TypeOK
<1>5. WindowOK(c)'
  BY <1>2, <1>3 DEF ClientOK, WindowOK
<1>6. FramesOK(c)'
  <2>1. \A f \in wire'[c] : e.id < f.id /\ f.id <= base[c]
    <3>1. ASSUME NEW f \in wire'[c]
          PROVE  e.id < f.id /\ f.id <= base[c]
      <4>1. f \in wire[c] /\ f # e
        BY <1>3, <3>1
      <4>2. e.id # f.id /\ e.id <= f.id /\ f.id <= base[c]
        BY <1>1, <1>3, <4>1 DEF ClientOK, FramesOK
      <4> QED
        BY <1>3, <4>1, <4>2
    <3> QED
      BY <3>1
  <2>2. \A f, g \in wire'[c] : f.id = g.id => f = g
    BY <1>3 DEF ClientOK, FramesOK
  <2>3. srv[c] \in {"off", "polled"} => wire'[c] = {}
    BY <1>3 DEF ClientOK, FramesOK
  <2>4. last[c] # 0 => srv[c] = "returned"
    BY <1>3 DEF ClientOK, FramesOK
  <2> QED
    BY <1>2, <1>3, <2>1, <2>2, <2>3, <2>4 DEF FramesOK
<1>7. WireOK(c)'
  BY <1>2, <1>3 DEF ClientOK, WireOK, store
<1>8. CASE c \in Streamers
  <2>1. CacheOK(c)'
    <3>1. SUFFICES ASSUME NEW i \in known'[c], home[i] # "purged"
                   PROVE  /\ home[i] \in Projects
                          /\ \/ InScope(c, home[i])
                             \/ \E f \in log : f.issue = i /\ Visible(c, f)
      BY <1>2 DEF CacheOK, store
    <3>2. CASE i \in known[c]
      BY <1>3, <1>8, <3>1, <3>2 DEF ClientOK, CacheOK
    <3>3. CASE i = e.issue /\ i \in Issues
      <4>1. e \in log /\ Visible(c, e)
        BY <1>1, <1>3, <3>1, <3>3 DEF ClientOK, WireOK
      <4>2. home[i] \in Projects
        BY <3>3, <4>1 DEF IInv, LogOK
      <4> QED
        BY <3>3, <4>1, <4>2
    <3> QED
      BY <1>4, <3>2, <3>3
  <2>2. DeadAhead(c)'
    <3>1. SUFFICES ASSUME NEW i \in Issues, home[i] = "purged",
                          i \in known'[c] \/ \E f \in wire'[c] : f.issue = i
                   PROVE  \E r \in Resets(c) : r > e.id /\ r > base[c]
      BY <1>2, <1>3 DEF DeadAhead, store
    <3>2. i \in known[c] \/ \E f \in wire[c] : f.issue = i
      BY <1>1, <1>3, <1>4, <3>1
    <3>3. PICK r \in Resets(c) : r > base[c]
      BY <1>3, <1>8, <3>1, <3>2 DEF ClientOK, DeadAhead
    <3> QED
      BY <1>3, <3>3, ResetsAre
  <2> QED
    BY <1>5, <1>6, <1>7, <2>1, <2>2 DEF ClientOK
<1> QED
  BY <1>5, <1>6, <1>7, <1>8 DEF ClientOK

\* With an empty cache and an empty wire there is nothing to be ahead of.
LEMMA EmptyMoves ==
  ASSUME IInv, NEW c \in Clients, UNCHANGED store, wire'[c] = {},
         srv'[c] \notin Connected, last'[c] # 0 => srv'[c] = "returned",
         c \in Streamers => known'[c] = {}
  PROVE  ClientOK(c)'
  BY DEF ClientOK, WindowOK, FramesOK, WireOK, CacheOK, DeadAhead, Connected, Reading

\* A handler that goes away takes its frames and its locals with it.
LEMMA CloseMoves ==
  ASSUME IInv, NEW c \in Clients, UNCHANGED store,
         srv'[c] = "off", wire'[c] = {}, last'[c] = 0, base'[c] = 0,
         cursor'[c] = cursor[c], known'[c] = known[c]
  PROVE  ClientOK(c)'
<1>1. ClientOK(c) /\ Resets(c)' = Resets(c)
  BY ResetsSame DEF IInv
<1>2. WindowOK(c)' /\ FramesOK(c)' /\ WireOK(c)'
  BY DEF WindowOK, FramesOK, WireOK, Connected, Reading
<1>3. CASE c \in Streamers
  <2>1. CacheOK(c)'
    BY <1>1, <1>3 DEF ClientOK, CacheOK, store
  <2>2. DeadAhead(c)'
    <3>1. SUFFICES ASSUME NEW i \in Issues, home[i] = "purged", i \in known[c]
                   PROVE  \E r \in Resets(c) : r > cursor[c] /\ r > 0
      BY <1>1 DEF DeadAhead, store
    <3>2. PICK r \in Resets(c) : r > cursor[c] /\ r > base[c]
      BY <1>1, <1>3, <3>1 DEF ClientOK, DeadAhead
    <3> QED
      BY <3>2, ResetsAre
  <2> QED
    BY <1>2, <2>1, <2>2 DEF ClientOK
<1> QED
  BY <1>2, <1>3 DEF ClientOK

LEMMA SubscribeMoves ==
  ASSUME IInv, NEW c \in Clients, Subscribe(c)
  PROVE  ClientOK(c)'
<1>1. /\ srv[c] = "off" /\ srv'[c] = "subscribed" /\ base'[c] = cursor[c]
      /\ UNCHANGED <<store, wire, last, client>>
  BY DEF Subscribe, IInv, TypeOK
<1>2. ClientOK(c) /\ Resets(c)' = Resets(c) /\ wire[c] = {} /\ last[c] = 0
  BY <1>1, ResetsSame DEF IInv, ClientOK, FramesOK
<1>3. WindowOK(c)' /\ FramesOK(c)' /\ WireOK(c)'
  BY <1>1, <1>2, ResetsAre DEF WindowOK, FramesOK, WireOK, Reading, client
<1>4. CASE c \in Streamers
  <2>1. CacheOK(c)'
    BY <1>1, <1>2, <1>4 DEF ClientOK, CacheOK, store, client
  <2>2. DeadAhead(c)'
    BY <1>1, <1>2, <1>4 DEF ClientOK, DeadAhead, store, client
  <2> QED
    BY <1>3, <2>1, <2>2 DEF ClientOK
<1> QED
  BY <1>3, <1>4 DEF ClientOK

LEMMA StreamKeeps ==
  ASSUME IInv, NEW c \in Clients, Stream(c)
  PROVE  LogOK' /\ \A d \in Clients : ClientOK(d)'
<1>0. UNCHANGED store /\ TypeOK
  BY DEF Stream, Subscribe, CaptureHighWater, ResetFound, ResetNotFound, Drain,
         DrainTooLong, Wake, TakeReset, Overflowed, ReadBatch, ReceiveEvent,
         ReceiveReset, EndOfStream, EndWithReset, IInv
<1>1. ASSUME NEW d \in Clients, d # c
      PROVE  ClientOK(d)'
  <2>1. /\ srv'[d] = srv[d] /\ base'[d] = base[d] /\ through'[d] = through[d]
        /\ wire'[d] = wire[d] /\ last'[d] = last[d] /\ cursor'[d] = cursor[d] /\ known'[d] = known[d]
    BY <1>0, <1>1 DEF Stream, Subscribe, CaptureHighWater, ResetFound, ResetNotFound,
         Drain, DrainTooLong, Wake, TakeReset, Overflowed, ReadBatch, ReceiveEvent,
         ReceiveReset, EndOfStream, EndWithReset, Return, WriteFrames, AdoptReset,
         Apply, TypeOK, client
  <2> QED
    BY <1>0, <2>1, Untouched DEF IInv
<1>2. ClientOK(c)'
  <2>0. ClientOK(c)
    BY DEF IInv
  <2>1. CASE Subscribe(c)
    BY <2>1, SubscribeMoves
  <2>2. CASE CaptureHighWater(c)
    <3>1. PICK m \in 0 .. seq : /\ IF log = {} THEN m = 0 ELSE IsLastId(log, m)
                                /\ through' = [through EXCEPT ![c] = m]
      BY <2>2 DEF CaptureHighWater
    <3>2. m # 0
      BY <3>1 DEF IsLastId, IInv, LogOK, TypeOK, Msgs
    <3> QED
      BY <2>2, <3>1, <3>2, HandlerMoves
         DEF CaptureHighWater, client, IInv, TypeOK, Reading, Connected
  <2>3. CASE ResetFound(c)
    BY <2>3, ReturnMoves DEF ResetFound, EndWithReset, Checking, Connected, Reading
  <2>4. CASE ResetNotFound(c)
    <3>1. /\ srv[c] \in {"check", "woken"} /\ srv'[c] \in {"drain", "read"}
          /\ through'[c] = through[c] /\ through[c] # 0
          /\ \A r \in Resets(c) : r <= base[c]
          /\ UNCHANGED <<store, base, wire, last, client>>
      BY <2>0, <2>4 DEF ResetNotFound, NoResetDue, ClientOK, WindowOK, Reading, IInv, TypeOK
    <3> QED
      BY <3>1, HandlerMoves DEF client, Reading, Connected
  <2>5. CASE Drain(c)
    <3>1. srv[c] = "drain" /\ srv'[c] = "live" /\ UNCHANGED <<store, last, client>>
      BY <2>5 DEF Drain, IInv, TypeOK
    <3> QED
      BY <2>5, <3>1, ReadMoves DEF Drain
  <2>6. CASE DrainTooLong(c)
    BY <2>6, ReturnMoves DEF DrainTooLong, EndWithReset, Connected, Reading
  <2>7. CASE Wake(c)
    <3>1. chan[c] \in Seq(Msgs(seq)) /\ chan[c] # <<>>
      BY <2>7 DEF Wake, IInv, TypeOK
    <3>2. Head(chan[c]) \in Msgs(seq) /\ seq \in Nat
      BY <3>1, HeadTailProperties DEF IInv, TypeOK
    <3>3. Head(chan[c]).id # 0
      BY <3>2 DEF Msgs
    <3>4. /\ srv[c] = "live" /\ srv'[c] = "woken" /\ through'[c] # 0
          /\ UNCHANGED <<store, base, wire, last, client>>
      BY <2>7, <3>3 DEF Wake, IInv, TypeOK
    <3> QED
      BY <3>4, HandlerMoves DEF client, Reading, Connected
  <2>8. CASE TakeReset(c)
    BY <2>8, ReturnMoves DEF TakeReset, EndWithReset, Connected, Reading
  <2>9. CASE Overflowed(c)
    BY <2>9, ReturnMoves DEF Overflowed, Connected, Reading
  <2>10. CASE ReadBatch(c)
    <3>1. PICK m \in 0 .. seq :
            /\ ScannedTo(FirstRows(Window(c, base[c], through[c]), LiveBatch), base[c], through[c], m)
            /\ WriteFrames(c, FirstRows(Window(c, base[c], through[c]), LiveBatch), m)
            /\ srv' = [srv EXCEPT ![c] = IF m >= through[c] THEN "live" ELSE "read"]
            /\ through' = [through EXCEPT ![c] = IF m >= @ THEN 0 ELSE @]
      BY <2>10 DEF ReadBatch
    <3>2. srv[c] = "read" /\ UNCHANGED <<store, last, client>>
      BY <2>10 DEF ReadBatch
    <3>3. srv'[c] = "live" \/ (srv'[c] = "read" /\ through'[c] = through[c])
      BY <3>1 DEF IInv, TypeOK
    <3> QED
      BY <3>1, <3>2, <3>3, ReadMoves
  <2>11. CASE ReceiveEvent(c)
    BY <2>11, ReceiveMoves
  <2>12. CASE ReceiveReset(c)
    <3>1. /\ wire[c] = {} /\ known'[c] = {} /\ UNCHANGED <<store, srv, base, through, wire>>
          /\ last[c] # 0 /\ last'[c] = 0
      BY <2>12 DEF ReceiveReset, AdoptReset, IInv, TypeOK
    <3>2. srv[c] = "returned"
      BY <2>0, <3>1 DEF ClientOK, FramesOK
    <3> QED
      BY <3>1, <3>2, EmptyMoves DEF Connected, Reading
  <2>13. CASE EndOfStream(c)
    BY <2>13, CloseMoves DEF EndOfStream, IInv, TypeOK, client
  <2> QED
    BY <2>1, <2>2, <2>3, <2>4, <2>5, <2>6, <2>7, <2>8, <2>9, <2>10, <2>11, <2>12, <2>13
       DEF Stream
<1> QED
  BY <1>0, <1>1, <1>2, LogSame DEF IInv

LEMMA RefetchKeeps ==
  ASSUME IInv, NEW c \in Clients, Refetch(c)
  PROVE  LogOK' /\ \A d \in Clients : ClientOK(d)'
<1>1. UNCHANGED <<store, conn, cursor>> /\ known' = [known EXCEPT ![c] = Listed(c)]
  BY DEF Refetch
<1>2. UNCHANGED <<store, srv, base, through, wire, last, cursor>>
  BY <1>1 DEF conn
<1>3. ASSUME NEW d \in Clients, d # c
      PROVE  ClientOK(d)'
  BY <1>1, <1>2, <1>3, Untouched DEF IInv, TypeOK
<1>4. ClientOK(c)'
  <2>1. ClientOK(c) /\ Resets(c)' = Resets(c) /\ known'[c] = Listed(c)
    BY <1>1, <1>2, ResetsSame DEF IInv, TypeOK
  <2>2. WindowOK(c)' /\ FramesOK(c)' /\ WireOK(c)'
    BY <1>2, <2>1 DEF ClientOK, WindowOK, FramesOK, WireOK, store
  <2>3. CacheOK(c)'
    BY <1>2, <2>1 DEF CacheOK, Listed, store
  <2>4. c \in Streamers => DeadAhead(c)'
    BY <1>2, <2>1, NamesAssumption DEF ClientOK, DeadAhead, Listed, store
  <2> QED
    BY <2>2, <2>3, <2>4 DEF ClientOK
<1> QED
  BY <1>2, <1>3, <1>4, LogSame DEF IInv

LEMMA PollKeeps ==
  ASSUME IInv, NEW c \in Clients, Poll(c), srv[c] = "polled" => c \notin Streamers
  PROVE  LogOK' /\ \A d \in Clients : ClientOK(d)'
<1>1. UNCHANGED store /\ TypeOK
  BY DEF Poll, PollReset, PollChecked, PollRead, IInv
<1>2. c \notin Streamers
  BY ClientsAssumption DEF Poll, PollReset, PollChecked, PollRead
<1>3. ASSUME NEW d \in Clients, d # c
      PROVE  ClientOK(d)'
  <2>1. /\ srv'[d] = srv[d] /\ base'[d] = base[d] /\ through'[d] = through[d]
        /\ wire'[d] = wire[d] /\ last'[d] = last[d] /\ cursor'[d] = cursor[d]
        /\ known'[d] = known[d]
    BY <1>1, <1>3 DEF Poll, PollReset, PollChecked, PollRead, AdoptReset, Apply,
         TypeOK, conn, client
  <2> QED
    BY <1>1, <2>1, Untouched DEF IInv
<1>4. ClientOK(c)'
  <2>1. /\ srv[c] \in {"off", "polled"} /\ srv'[c] \in {"off", "polled"}
        /\ wire'[c] = wire[c] /\ last'[c] = last[c]
    BY <1>1 DEF Poll, PollReset, PollChecked, PollRead, TypeOK, conn
  <2>2. wire[c] = {} /\ last[c] = 0
    BY <2>1 DEF IInv, ClientOK, FramesOK
  <2> QED
    BY <1>1, <1>2, <2>1, <2>2, EmptyMoves DEF Connected, Reading
<1> QED
  BY <1>1, <1>3, <1>4, LogSame DEF IInv

LEMMA DropKeeps ==
  ASSUME IInv, NEW S, Drop(S)
  PROVE  LogOK' /\ \A d \in Clients : ClientOK(d)'
<1>1. UNCHANGED <<store, client>>
  BY DEF Drop
<1>2. ASSUME NEW d \in Clients
      PROVE  ClientOK(d)'
  <2>1. CASE d \in S
    <3>1. srv'[d] = "off" /\ wire'[d] = {} /\ last'[d] = 0 /\ base'[d] = 0
      BY <2>1 DEF Drop
    <3> QED
      BY <1>1, <3>1, CloseMoves DEF client
  <2>2. CASE d \notin S
    <3>1. /\ srv'[d] = srv[d] /\ base'[d] = base[d] /\ through'[d] = through[d]
          /\ wire'[d] = wire[d] /\ last'[d] = last[d]
      BY <2>2 DEF Drop
    <3> QED
      BY <1>1, <3>1, Untouched DEF client, IInv
  <2> QED
    BY <2>1, <2>2
<1> QED
  BY <1>1, <1>2, LogSame DEF IInv

-----------------------------------------------------------------------------
(* The theorems.                                                           *)

\* Only pollers stand between a poll's check and its read.
PollersPoll == \A c \in Clients : srv[c] = "polled" => c \notin Streamers

Inductive == IInv /\ PollersPoll

LEMMA InitKeeps ==
  ASSUME Init
  PROVE  Inductive
<1>1. PICK p \in Projects : log = {Event(1, p, NoIssue, NoProject)}
  BY DEF Init
<1>2. LogOK
  BY <1>1, NamesAssumption DEF LogOK, Event
<1>3. \A c \in Clients : ClientOK(c)
  BY DEF Init, ClientOK, WindowOK, FramesOK, WireOK, CacheOK, DeadAhead, Reading, Connected
<1> QED
  BY <1>2, <1>3, InitType DEF Init, Inductive, IInv, PollersPoll

LEMMA PollersKeep ==
  ASSUME TypeOK, PollersPoll, [Next]_vars
  PROVE  PollersPoll'
<1>1. CASE Store
  BY <1>1 DEF Store, CreateIssue, MoveIssue, ChangeIssue, PurgeIssue, PollersPoll, conn
<1>2. CASE \E m \in outbox : Publish(m)
  BY <1>2 DEF Publish, PollersPoll
<1>3. ASSUME NEW c \in Clients, Stream(c) \/ Poll(c) \/ Refetch(c)
      PROVE  PollersPoll'
  <2>1. \A d \in Clients : srv'[d] = "polled" => srv[d] = "polled" \/ d \in Pollers
    <3>1. CASE Stream(c)
      BY <3>1 DEF TypeOK, Stream, Subscribe, CaptureHighWater, ResetFound, ResetNotFound,
           Drain, DrainTooLong, Wake, TakeReset, Overflowed, ReadBatch, ReceiveEvent,
           ReceiveReset, EndOfStream, EndWithReset, Return
    <3>2. CASE Poll(c) \/ Refetch(c)
      BY <3>2 DEF TypeOK, Poll, PollReset, PollChecked, PollRead, Refetch, conn
    <3> QED
      BY <1>3, <3>1, <3>2
  <2> QED
    BY <2>1, ClientsAssumption DEF PollersPoll
<1>4. ASSUME NEW S, Drop(S)
      PROVE  PollersPoll'
  BY <1>4 DEF Drop, PollersPoll
<1>5. CASE UNCHANGED vars
  BY <1>5 DEF PollersPoll, vars
<1> QED
  BY <1>1, <1>2, <1>3, <1>4, <1>5 DEF Next, Disconnect, Crash

LEMMA NextKeeps ==
  ASSUME Inductive, [Next]_vars
  PROVE  Inductive'
<1>0. TypeOK /\ IInv /\ PollersPoll
  BY DEF Inductive, IInv
<1>1. LogOK' /\ \A c \in Clients : ClientOK(c)'
  <2>1. CASE Store
    <3>0. home \in [Issues -> Projects \cup {"absent", "purged"}]
      BY <1>0 DEF TypeOK
    <3>1. ASSUME NEW i \in Issues, NEW p \in Projects, CreateIssue(i, p)
          PROVE  LogOK' /\ \A c \in Clients : ClientOK(c)'
      BY <1>0, <3>1, AppendKeeps DEF CreateIssue
    <3>2. ASSUME NEW i \in Issues, NEW p \in Projects, MoveIssue(i, p)
          PROVE  LogOK' /\ \A c \in Clients : ClientOK(c)'
      BY <1>0, <3>2, AppendKeeps DEF MoveIssue
    <3>3. ASSUME NEW i \in Issues, ChangeIssue(i)
          PROVE  LogOK' /\ \A c \in Clients : ClientOK(c)'
      <4>1. home' = [home EXCEPT ![i] = home[i]]
        BY <3>0, <3>3 DEF ChangeIssue
      <4> QED
        BY <1>0, <3>3, <4>1, AppendKeeps DEF ChangeIssue
    <3> QED
      BY <1>0, <2>1, <3>1, <3>2, <3>3, PurgeKeeps DEF Store
  <2>2. CASE \E m \in outbox : Publish(m)
    <3>1. UNCHANGED <<store, srv, base, through, wire, last, client>>
      BY <2>2 DEF Publish
    <3> QED
      BY <1>0, <3>1, Untouched, LogSame DEF IInv, client
  <2>3. CASE \E c \in Clients : Stream(c) \/ Poll(c) \/ Refetch(c) \/ Disconnect(c)
    BY <1>0, <2>3, StreamKeeps, PollKeeps, RefetchKeeps, DropKeeps DEF Disconnect, PollersPoll
  <2>4. CASE Crash
    BY <1>0, <2>4, DropKeeps DEF Crash
  <2>5. CASE UNCHANGED vars
    <3>1. UNCHANGED <<store, srv, base, through, wire, last, client>>
      BY <2>5 DEF vars, store, client
    <3> QED
      BY <1>0, <3>1, Untouched, LogSame DEF IInv, client
  <2> QED
    BY <2>1, <2>2, <2>3, <2>4, <2>5 DEF Next
<1> QED
  BY <1>0, <1>1, NextType, PollersKeep DEF Inductive, IInv

THEOREM Invariance == Spec => []Inductive
  BY InitKeeps, NextKeeps, PTL DEF Spec

\* A client of the stream that still caches a purged issue is behind a reset of
\* that purge: purgeCascade's reserved cursor, the check before every window and
\* the window's upper end together keep Last-Event-ID from passing it.
THEOREM PurgeReported == Spec => []StreamPurgeAhead
<1>1. Inductive => StreamPurgeAhead
  BY DEF Inductive, IInv, ClientOK, DeadAhead, TypeOK, StreamPurgeAhead, PurgeAhead, Clients
<1> QED
  BY <1>1, Invariance, PTL

\* The frames of a connection go out once and in id order, whatever order the
\* wakeups of runLivePhase come in.
THEOREM FramesOrdered == Spec => []FramesInOrder
<1>1. Inductive => FramesInOrder
  BY DEF Inductive, IInv, ClientOK, FramesOK, FramesInOrder, Clients
<1> QED
  BY <1>1, Invariance, PTL
-----------------------------------------------------------------------------
(* No event is skipped.  A page is a prefix of its window, so the cursor    *)
(* that follows it passes nothing that is not on the wire.                  *)

\* Whatever lies below lastSent was sent or is on its way, and whatever lies
\* below the client's cursor has arrived.
SeenOK(c) ==
    fresh[c] =>
        \A e \in log : Visible(c, e) =>
            /\ e.id <= cursor[c] => e.id \in seen[c]
            /\ e.id <= base[c] => e.id \in seen[c] \/ e \in wire[c]

LEMMA LogFinite ==
  ASSUME TypeOK, LogOK
  PROVE  IsFiniteSet(log)
<1> DEFINE f == [e \in log |-> e.id]
<1>1. seq \in Nat /\ IsFiniteSet(1 .. seq)
  BY FS_Interval DEF TypeOK
<1>2. f \in [log -> 1 .. seq] /\ \A d, e \in log : f[d] = f[e] => d = e
  BY DEF TypeOK, Msgs, LogOK
<1> HIDE DEF f
<1>3. f \in Injection(log, 1 .. seq)
  <2>1. DOMAIN f = log
    BY <1>2
  <2> QED
    BY <1>2, <2>1 DEF Injection, IsInjective
<1> QED
  BY <1>1, <1>3, FS_Injection

\* A set of messages that is not empty has a first one.
LEMMA FirstOf ==
  ASSUME NEW S, S # {}, \A e \in S : e.id \in Nat
  PROVE  \E e \in S : \A f \in S : e.id <= f.id
<1> DEFINE R == {p \in Nat \X Nat : p[1] < p[2]}
           I == {e.id : e \in S}
<1>1. IsWellFoundedOn(R, Nat)
  BY NatLessThanWellFounded DEF OpToRel
<1>2. I \subseteq Nat /\ I # {}
  OBVIOUS
<1>3. \E n \in I : \A k \in I : <<k, n>> \notin R
  <2> HIDE DEF R, I
  <2> QED
    BY <1>1, <1>2, WFMin
<1>4. PICK e \in S : \A k \in I : <<k, e.id>> \notin R
  BY <1>3
<1>5. \A f \in S : ~(f.id < e.id)
  BY <1>4
<1> QED
  BY <1>5

\* The rows of a page are all there is to see up to where it scanned.
LEMMA ScanComplete ==
  ASSUME TypeOK, LogOK, NEW c \in Clients, NEW lo \in Nat, NEW hi \in Nat,
         NEW n \in Nat \ {0}, NEW m \in Nat,
         ScannedTo(FirstRows(Window(c, lo, hi), n), lo, hi, m),
         NEW e \in log, Visible(c, e), lo < e.id, e.id <= m
  PROVE  e \in FirstRows(Window(c, lo, hi), n)
<1> DEFINE S == Window(c, lo, hi)
           rows == FirstRows(S, n)
<1>1. S \subseteq log /\ rows \subseteq S /\ \A f \in log : f.id \in Nat
  BY DEF Window, FirstRows, TypeOK, Msgs
<1>2. IsFiniteSet(S)
  BY <1>1, LogFinite, FS_Subset
<1>3. CASE rows # {}
  <2>1. PICK r \in rows : r.id = m
    BY <1>3 DEF ScannedTo, IsLastId
  <2>2. e \in S
    BY <2>1, <1>1 DEF Window
  <2> DEFINE A == {f \in S : f.id < e.id}
             B == {f \in S : f.id < m}
  <2>3. A \subseteq B /\ B \subseteq S
    BY <1>1
  <2>4. IsFiniteSet(B) /\ Cardinality(B) \in Nat
    BY <1>2, <2>3, FS_Subset, FS_CardinalityType
  <2>5. IsFiniteSet(A) /\ Cardinality(A) \in Nat /\ Cardinality(A) <= Cardinality(B)
    BY <2>3, <2>4, FS_Subset, FS_CardinalityType
  <2>6. Cardinality(B) < n
    BY <2>1 DEF FirstRows
  <2>7. Cardinality(A) < n
    BY <2>4, <2>5, <2>6
  <2> QED
    BY <2>2, <2>7 DEF FirstRows
<1>4. CASE rows = {}
  <2>1. m = IF hi > lo THEN hi ELSE lo
    BY <1>4 DEF ScannedTo
  <2>2. e \in S
    BY <1>1, <2>1 DEF Window
  <2>3. PICK d \in S : \A f \in S : d.id <= f.id
    BY <1>1, <2>2, FirstOf
  <2>4. {f \in S : f.id < d.id} = {}
    BY <1>1, <2>3
  <2>5. d \in rows
    BY <2>3, <2>4, FS_EmptySet DEF FirstRows
  <2> QED
    BY <1>4, <2>5
<1> QED
  BY <1>3, <1>4

\* Nothing new in the log, and nothing less on either side of the wire.
LEMMA SeenStays ==
  ASSUME NEW c \in Clients, SeenOK(c), log' \subseteq log,
         cursor'[c] = cursor[c], seen'[c] = seen[c], fresh'[c] = fresh[c],
         base'[c] = base[c] /\ wire'[c] = wire[c]
  PROVE  SeenOK(c)'
  BY DEF SeenOK, Visible, InScope

\* A handler that is gone, or about to begin, has sent nothing beyond the cursor.
LEMMA SeenAtRest ==
  ASSUME IInv, NEW c \in Clients, SeenOK(c), UNCHANGED store,
         cursor'[c] = cursor[c], seen'[c] = seen[c], fresh'[c] = fresh[c],
         base'[c] \in {0, cursor[c]}
  PROVE  SeenOK(c)'
<1>1. \A e \in log : e.id \in Nat /\ e.id # 0
  BY DEF IInv, TypeOK, Msgs
<1>2. cursor[c] \in Nat
  BY DEF IInv, TypeOK
<1> QED
  BY <1>1, <1>2 DEF SeenOK, Visible, InScope, store

LEMMA AppendSeen ==
  ASSUME IInv, NEW c \in Clients, SeenOK(c), NEW p, NEW i, NEW q, Append1(p, i, q),
         UNCHANGED <<conn, client>>
  PROVE  SeenOK(c)'
<1>1. /\ seq \in Nat /\ cursor[c] \in 0 .. seq /\ base[c] \in 0 .. seq
      /\ \A e \in log' : e \in log \/ e.id = seq + 1
  BY DEF IInv, TypeOK, Append1, Event
<1>2. \A e \in log' : e.id <= cursor[c] \/ e.id <= base[c] => e \in log
  BY <1>1
<1> QED
  BY <1>2 DEF SeenOK, Visible, InScope, conn, client

LEMMA ReadSeen ==
  ASSUME IInv, NEW c \in Clients, SeenOK(c), NEW n \in Nat \ {0}, NEW m \in 0 .. seq,
         ScannedTo(FirstRows(Window(c, base[c], through[c]), n), base[c], through[c], m),
         WriteFrames(c, FirstRows(Window(c, base[c], through[c]), n), m),
         UNCHANGED <<store, client>>
  PROVE  SeenOK(c)'
<1> DEFINE rows == FirstRows(Window(c, base[c], through[c]), n)
<1>1. wire'[c] = wire[c] \cup rows /\ base'[c] = m
  BY DEF IInv, TypeOK, WriteFrames
<1>2. base[c] \in Nat /\ through[c] \in Nat /\ m \in Nat /\ \A e \in log : e.id \in Nat
  BY DEF IInv, TypeOK, Msgs
<1>3. ASSUME NEW e \in log, Visible(c, e), base[c] < e.id, e.id <= m
      PROVE  e \in rows
  BY <1>2, <1>3, ScanComplete DEF IInv
<1> HIDE DEF rows
<1>4. ASSUME NEW e \in log, fresh[c], Visible(c, e), e.id <= m
      PROVE  e.id \in seen[c] \/ e \in wire'[c]
  <2>1. CASE e.id <= base[c]
    BY <1>1, <1>4, <2>1 DEF SeenOK
  <2>2. CASE base[c] < e.id
    BY <1>1, <1>3, <1>4, <2>2
  <2> QED
    BY <1>2, <2>1, <2>2
<1> QED
  BY <1>1, <1>4 DEF SeenOK, Visible, InScope, store, client

LEMMA ReceiveSeen ==
  ASSUME IInv, NEW c \in Clients, SeenOK(c), ReceiveEvent(c)
  PROVE  SeenOK(c)'
<1>1. PICK f \in wire[c] :
        /\ \A g \in wire[c] : f.id <= g.id
        /\ wire' = [wire EXCEPT ![c] = @ \ {f}]
        /\ cursor' = [cursor EXCEPT ![c] = f.id]
        /\ seen' = [seen EXCEPT ![c] = @ \cup {f.id}]
  BY DEF ReceiveEvent
<1>2. UNCHANGED <<store, base, fresh>>
  BY DEF ReceiveEvent
<1>3. /\ wire'[c] = wire[c] \ {f} /\ cursor'[c] = f.id /\ seen'[c] = seen[c] \cup {f.id}
      /\ base'[c] = base[c] /\ fresh'[c] = fresh[c] /\ log' = log
  BY <1>1, <1>2 DEF IInv, TypeOK, store
<1>4. /\ f.id <= base[c] /\ base[c] \in Nat /\ f.id \in Nat
      /\ \A e \in log : e.id \in Nat
  BY <1>1 DEF IInv, ClientOK, FramesOK, TypeOK, Msgs
<1>5. ASSUME NEW e \in log, fresh[c], Visible(c, e)
      PROVE  /\ e.id <= f.id => e.id \in seen'[c]
             /\ e.id <= base[c] => e.id \in seen'[c] \/ e \in wire'[c]
  <2>1. e.id <= base[c] => e.id \in seen[c] \/ e \in wire[c]
    BY <1>5 DEF SeenOK
  <2>2. e \in wire[c] /\ e.id <= f.id => e.id = f.id
    BY <1>1, <1>4
  <2>3. e.id <= f.id => e.id <= base[c]
    BY <1>4
  <2> QED
    BY <1>3, <2>1, <2>2, <2>3
<1> QED
  BY <1>3, <1>5 DEF SeenOK, Visible, InScope

LEMMA PollSeen ==
  ASSUME IInv, NEW c \in Clients, SeenOK(c), Poll(c)
  PROVE  SeenOK(c)'
<1>1. CASE PollReset(c)
  BY <1>1 DEF PollReset, AdoptReset, SeenOK, IInv, TypeOK
<1>2. CASE PollChecked(c)
  BY <1>2, SeenStays DEF PollChecked, store, client
<1>3. CASE PollRead(c)
  <2> DEFINE rows == FirstRows(Window(c, cursor[c], 0), PollLimit)
  <2>1. PICK m \in 0 .. seq : /\ ScannedTo(rows, cursor[c], 0, m)
                              /\ cursor' = [cursor EXCEPT ![c] = m]
    BY <1>3 DEF PollRead
  <2>2. /\ seen' = [seen EXCEPT ![c] = @ \cup {e.id : e \in rows}]
        /\ UNCHANGED <<store, base, wire, fresh>>
    BY <1>3 DEF PollRead
  <2>3. /\ cursor'[c] = m /\ seen'[c] = seen[c] \cup {e.id : e \in rows}
        /\ base'[c] = base[c] /\ wire'[c] = wire[c] /\ fresh'[c] = fresh[c] /\ log' = log
        /\ cursor[c] \in Nat /\ m \in Nat /\ 0 \in Nat /\ PollLimit \in Nat \ {0}
        /\ \A e \in log : e.id \in Nat
    BY <2>1, <2>2, BoundsAssumption DEF IInv, TypeOK, Msgs, store
  <2>4. ASSUME NEW e \in log, Visible(c, e), cursor[c] < e.id, e.id <= m
        PROVE  e \in rows
    BY <2>1, <2>3, <2>4, ScanComplete DEF IInv
  <2> HIDE DEF rows
  <2>5. ASSUME NEW e \in log, fresh[c], Visible(c, e), e.id <= m
        PROVE  e.id \in seen'[c]
    <3>1. CASE e.id <= cursor[c]
      BY <2>3, <2>5, <3>1 DEF SeenOK
    <3>2. CASE cursor[c] < e.id
      BY <2>3, <2>4, <2>5, <3>2
    <3> QED
      BY <2>3, <3>1, <3>2
  <2> QED
    BY <2>3, <2>5 DEF SeenOK, Visible, InScope
<1> QED
  BY <1>1, <1>2, <1>3 DEF Poll

LEMMA RefetchSeen ==
  ASSUME IInv, NEW c \in Clients, Refetch(c)
  PROVE  SeenOK(c)'
<1>1. log' = log /\ 1 .. seq \subseteq seen'[c]
  BY DEF IInv, TypeOK, Refetch, store
<1>2. \A e \in log : e.id \in 1 .. seq
  BY DEF IInv, TypeOK, Msgs
<1> QED
  BY <1>1, <1>2 DEF SeenOK

LEMMA StreamSeen ==
  ASSUME IInv, NEW c \in Clients, SeenOK(c), Stream(c)
  PROVE  SeenOK(c)'
<1>1. CASE \/ CaptureHighWater(c) \/ ResetFound(c) \/ ResetNotFound(c) \/ DrainTooLong(c)
           \/ Wake(c) \/ TakeReset(c) \/ Overflowed(c)
  <2>1. UNCHANGED <<store, base, wire, client>>
    BY <1>1 DEF CaptureHighWater, ResetFound, ResetNotFound, DrainTooLong, Wake, TakeReset,
         Overflowed, EndWithReset
  <2> QED
    BY <2>1, SeenStays DEF store, client
<1>2. CASE Subscribe(c)
  <2>1. UNCHANGED <<store, client>> /\ base'[c] = cursor[c]
    BY <1>2 DEF Subscribe, IInv, TypeOK
  <2> QED
    BY <2>1, SeenAtRest DEF client
<1>3. CASE Drain(c)
  <2>1. DrainCap + 1 \in Nat \ {0} /\ UNCHANGED <<store, client>>
    BY <1>3, BoundsAssumption DEF Drain
  <2> QED
    BY <1>3, <2>1, ReadSeen DEF Drain
<1>4. CASE ReadBatch(c)
  <2>1. LiveBatch \in Nat \ {0} /\ UNCHANGED <<store, client>>
    BY <1>4, BoundsAssumption DEF ReadBatch
  <2> QED
    BY <1>4, <2>1, ReadSeen DEF ReadBatch
<1>5. CASE ReceiveEvent(c)
  BY <1>5, ReceiveSeen
<1>6. CASE ReceiveReset(c)
  BY <1>6 DEF ReceiveReset, AdoptReset, SeenOK, IInv, TypeOK
<1>7. CASE EndOfStream(c)
  <2>1. UNCHANGED <<store, client>> /\ base'[c] = 0
    BY <1>7 DEF EndOfStream, IInv, TypeOK
  <2> QED
    BY <2>1, SeenAtRest DEF client
<1> QED
  BY <1>1, <1>2, <1>3, <1>4, <1>5, <1>6, <1>7 DEF Stream

\* A client's own steps leave what the others have seen alone.
LEMMA OthersSeen ==
  ASSUME IInv, NEW c \in Clients, Stream(c) \/ Poll(c) \/ Refetch(c),
         NEW d \in Clients, d # c, SeenOK(d)
  PROVE  SeenOK(d)'
<1>1. log' = log
  BY DEF Stream, Subscribe, CaptureHighWater, ResetFound, ResetNotFound, Drain, DrainTooLong,
     Wake, TakeReset, Overflowed, ReadBatch, ReceiveEvent, ReceiveReset, EndOfStream,
     EndWithReset, Poll, PollReset, PollChecked, PollRead, Refetch, store
<1>2. /\ base'[d] = base[d] /\ wire'[d] = wire[d] /\ cursor'[d] = cursor[d]
      /\ seen'[d] = seen[d] /\ fresh'[d] = fresh[d]
  <2>1. CASE Stream(c)
    BY <2>1 DEF Stream, Subscribe, CaptureHighWater, ResetFound, ResetNotFound,
       Drain, DrainTooLong, Wake, TakeReset, Overflowed, ReadBatch, ReceiveEvent,
       ReceiveReset, EndOfStream, EndWithReset, Return, WriteFrames, AdoptReset,
       IInv, TypeOK, client
  <2>2. CASE Poll(c) \/ Refetch(c)
    BY <2>2 DEF Poll, PollReset, PollChecked, PollRead, Refetch, AdoptReset, IInv, TypeOK,
       conn, client
  <2> QED
    BY <2>1, <2>2
<1> QED
  BY <1>1, <1>2, SeenStays

LEMMA NextSeen ==
  ASSUME IInv, \A c \in Clients : SeenOK(c), [Next]_vars, NEW c \in Clients
  PROVE  SeenOK(c)'
<1>1. CASE Store
  <2>1. ASSUME NEW i \in Issues, ChangeIssue(i) \/ \E p \in Projects : CreateIssue(i, p) \/ MoveIssue(i, p)
        PROVE  SeenOK(c)'
    BY <2>1, AppendSeen DEF CreateIssue, MoveIssue, ChangeIssue
  <2>2. ASSUME NEW i \in Issues, PurgeIssue(i)
        PROVE  SeenOK(c)'
    BY <2>2, SeenStays DEF PurgeIssue, conn, client
  <2> QED
    BY <1>1, <2>1, <2>2 DEF Store
<1>2. CASE \E m \in outbox : Publish(m)
  BY <1>2, SeenStays DEF Publish, store, client
<1>3. ASSUME NEW d \in Clients, Stream(d) \/ Poll(d) \/ Refetch(d)
      PROVE  SeenOK(c)'
  BY <1>3, StreamSeen, PollSeen, RefetchSeen, OthersSeen
<1>4. ASSUME NEW S, Drop(S)
      PROVE  SeenOK(c)'
  <2>1. UNCHANGED <<store, client>>
    BY <1>4 DEF Drop
  <2>2. CASE c \in S
    <3>1. base'[c] = 0
      BY <1>4, <2>2 DEF Drop
    <3> QED
      BY <2>1, <3>1, SeenAtRest DEF client
  <2>3. CASE c \notin S
    BY <1>4, <2>1, <2>3, SeenStays DEF Drop, store, client
  <2> QED
    BY <2>2, <2>3
<1>5. CASE UNCHANGED vars
  BY <1>5, SeenStays DEF vars
<1> QED
  BY <1>1, <1>2, <1>3, <1>4, <1>5 DEF Next, Disconnect, Crash

\* A client that is not in the middle of a reset has every event of its scope up
\* to its cursor, streaming or polling: the limits of EventsAfter, the high-water
\* mark, coalesced wakeups, broken connections and crashes skip none.
THEOREM NothingSkipped == Spec => []NoMissedEvent
<1>1. Init => \A c \in Clients : SeenOK(c)
  <2> SUFFICES ASSUME Init PROVE \A c \in Clients : SeenOK(c)
    OBVIOUS
  <2>1. \A e \in log : e.id = 1
    BY DEF Init, Event
  <2> QED
    BY <2>1 DEF Init, SeenOK
<1>2. Inductive /\ (\A c \in Clients : SeenOK(c)) /\ [Next]_vars
        => (\A c \in Clients : SeenOK(c))'
  BY NextSeen DEF Inductive
<1>3. (\A c \in Clients : SeenOK(c)) => NoMissedEvent
  BY DEF SeenOK, NoMissedEvent
<1> QED
  BY <1>1, <1>2, <1>3, Invariance, PTL DEF Spec
=============================================================================
