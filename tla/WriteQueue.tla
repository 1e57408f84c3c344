----------------------------- MODULE WriteQueue -----------------------------
(***************************************************************************)
(* The in-process SQLite write queue of                                    *)
(* internal/db/sqlitestore/write_queue.go, the driver connections that     *)
(* join it (queuedConn, queuedTx), and the bounded optimistic preparation  *)
(* of federation_retry.go that reads before it joins.                      *)
(*                                                                         *)
(* A member of Conns is a driver connection together with the goroutine    *)
(* that uses it: database/sql never uses one driver connection             *)
(* concurrently.  An action is a critical section of writeQueue.mu or one  *)
(* statement on the connection, so every interleaving of the lock-free     *)
(* code between two of them is explored.                                   *)
(*                                                                         *)
(* SQLite is modelled by what the queue protects: the one writer lock      *)
(* (dirty) and, per transaction, whether somebody committed after its      *)
(* snapshot was read (snap).  Another process shares the file, not the     *)
(* queue (other).                                                          *)
(***************************************************************************)
EXTENDS Naturals, FiniteSets, Sequences, SequencesExt

CONSTANTS
    Conns,        \* driver connections of this process
    Attempts,     \* federationIngestOptimisticAttempts
    Modes,        \* the kinds of work each connection does, out of AllModes
    Cancels,      \* TRUE if callers' contexts may end
    OtherProcess  \* TRUE if another process may write the same file

AllModes == {"queued", "manual", "optimistic", "reader", "auto"}

ASSUME AttemptsAssumption == Attempts \in Nat \ {0}
ASSUME ModesAssumption == Modes \in [Conns -> SUBSET AllModes]
ASSUME SwitchAssumption == Cancels \in BOOLEAN /\ OtherProcess \in BOOLEAN

VARIABLES
    held,     \* writeQueue.held
    waiters,  \* writeQueue.waiters: whose turn channels are in line
    turn,     \* turn channels closed by release and not yet received
    pc,       \* where the goroutine using the connection stands
    mode,     \* the kind of transaction it runs
    holding,  \* queuedConn.holding
    inTx,     \* queuedConn.inTx
    dirty,    \* the connections holding SQLite's writer lock
    snap,     \* what the transaction's read snapshot is worth
    tries,    \* invalidated optimistic attempts of its current preparation
    other     \* the other process holds SQLite's writer lock

qvars == <<held, waiters, turn>>
cvars == <<pc, mode, holding, inTx>>
svars == <<dirty, snap, other>>
vars  == <<held, waiters, turn, pc, mode, holding, inTx, dirty, snap, tries, other>>

PCs == {"idle",      \* no call in progress
        "line",      \* in acquire's select, its turn channel appended
        "gaveUp",    \* chose ctx.Done(), about to lock mu again
        "pass",      \* not in line any more, about to call release
        "admitted",  \* acquire returned nil, statement not yet executed
        "open",      \* inside a transaction
        "busy",      \* a statement returned SQLITE_BUSY or BUSY_SNAPSHOT
        "failed",    \* a statement returned another error
        "ending"}    \* SQLite's transaction is over, endTx not yet run

Snaps == {"none", "fresh", "behind", "behindOther"}

Init ==
    /\ held = FALSE
    /\ waiters = <<>>
    /\ turn = {}
    /\ pc = [c \in Conns |-> "idle"]
    /\ mode = [c \in Conns |-> "reader"]
    /\ holding = [c \in Conns |-> FALSE]
    /\ inTx = [c \in Conns |-> FALSE]
    /\ dirty = {}
    /\ snap = [c \in Conns |-> "none"]
    /\ tries = [c \in Conns |-> 0]
    /\ other = FALSE

-----------------------------------------------------------------------------
(* writeQueue: its two critical sections.                                  *)

\* acquire up to its select: take a free slot at once, or line up.  join sets
\* holding as acquire returns; an autocommit write (m = "auto") calls acquire
\* itself and defers the release.
Acquire(c, m) ==
    IF held
    THEN /\ waiters' = Append(waiters, c)
         /\ pc' = [pc EXCEPT ![c] = "line"]
         /\ UNCHANGED <<held, turn, holding>>
    ELSE /\ held' = TRUE
         /\ pc' = [pc EXCEPT ![c] = "admitted"]
         /\ holding' = [holding EXCEPT ![c] = m # "auto"]
         /\ UNCHANGED <<waiters, turn>>

\* Mutant: the newest waiter gets the slot.
ReleaseNewest(turns) ==
    IF waiters = <<>>
    THEN /\ held' = FALSE
         /\ turn' = turns
         /\ UNCHANGED waiters
    ELSE /\ turn' = turns \cup {Last(waiters)}
         /\ waiters' = Front(waiters)
         /\ UNCHANGED held

\* release: hand the slot to the oldest waiter, or free it.  The slot stays
\* held while it changes hands.
Release(turns) ==
    IF waiters = <<>>
    THEN /\ held' = FALSE
         /\ turn' = turns
         /\ UNCHANGED waiters
    ELSE /\ turn' = turns \cup {Head(waiters)}
         /\ waiters' = Tail(waiters)
         /\ UNCHANGED held

\* The select received the closed turn channel: acquire returns nil.
TakeTurn(c) ==
    /\ pc[c] = "line"
    /\ c \in turn
    /\ turn' = turn \ {c}
    /\ pc' = [pc EXCEPT ![c] = "admitted"]
    /\ holding' = [holding EXCEPT ![c] = mode[c] # "auto"]
    /\ UNCHANGED <<held, waiters, mode, inTx, tries, svars>>

\* The select received ctx.Done(), possibly with the turn channel closed too.
GiveUp(c) ==
    /\ Cancels
    /\ pc[c] = "line"
    /\ pc' = [pc EXCEPT ![c] = "gaveUp"]
    /\ UNCHANGED <<qvars, mode, holding, inTx, tries, svars>>

\* acquire returned ctx.Err(): a transaction that was open must be rolled
\* back, a BeginTx or autocommit write has nothing to undo.
AbandonWait(c) ==
    /\ pc' = [pc EXCEPT ![c] = IF inTx[c] THEN "failed" ELSE "idle"]
    /\ tries' = [tries EXCEPT ![c] = IF inTx[c] THEN @ ELSE 0]

\* Still in line: leave it.
LeaveLine(c) ==
    /\ pc[c] = "gaveUp"
    /\ \E i \in 1 .. Len(waiters) : waiters[i] = c /\ waiters' = RemoveAt(waiters, i)
    /\ AbandonWait(c)
    /\ UNCHANGED <<held, turn, mode, holding, inTx, svars>>

\* Mutant: a waiter that gives up returns without passing the slot on.
MissedTurnLost(c) ==
    /\ pc[c] = "gaveUp"
    /\ \A i \in 1 .. Len(waiters) : waiters[i] # c
    /\ turn' = turn \ {c}
    /\ AbandonWait(c)
    /\ UNCHANGED <<held, waiters, mode, holding, inTx, svars>>

\* release handed the slot over in the meantime: it must be passed on.
MissedTurn(c) ==
    /\ pc[c] = "gaveUp"
    /\ \A i \in 1 .. Len(waiters) : waiters[i] # c
    /\ pc' = [pc EXCEPT ![c] = "pass"]
    /\ UNCHANGED <<qvars, mode, holding, inTx, tries, svars>>

PassOn(c) ==
    /\ pc[c] = "pass"
    /\ Release(turn \ {c})
    /\ AbandonWait(c)
    /\ UNCHANGED <<mode, holding, inTx, svars>>

-----------------------------------------------------------------------------
(* queuedConn and queuedTx: what a transaction does with the queue.        *)

\* SQLite refuses the writer lock to c: somebody else holds it, or somebody
\* committed after c's snapshot.
LockTaken(c) == other \/ dirty \ {c} # {}
Stale(c) == snap[c] \in {"behind", "behindOther"}

\* A commit leaves every other open snapshot behind.
Outdate(c, how) ==
    [d \in Conns |-> IF d # c /\ snap[d] = "fresh" THEN how ELSE snap[d]]

\* BeginTx without the queue: read-only, or under withOptimisticWrite.
BeginUnqueued(c, m) ==
    /\ pc[c] = "idle"
    /\ m \in {"optimistic", "reader"}
    /\ mode' = [mode EXCEPT ![c] = m]
    /\ pc' = [pc EXCEPT ![c] = "open"]
    /\ inTx' = [inTx EXCEPT ![c] = TRUE]
    /\ UNCHANGED <<qvars, holding, tries, svars>>

\* Mutant: autocommit writes go straight to SQLite.
BeginQueuedBypass(c, m) ==
    /\ pc[c] = "idle"
    /\ m \in {"queued", "manual", "auto"}
    /\ mode' = [mode EXCEPT ![c] = m]
    /\ IF m = "auto"
       THEN /\ pc' = [pc EXCEPT ![c] = "admitted"]
            /\ UNCHANGED <<qvars, holding>>
       ELSE Acquire(c, m)
    /\ UNCHANGED <<inTx, tries, svars>>

\* BeginTx, an ExecContext of BEGIN IMMEDIATE, or an autocommit write: each
\* calls acquire first.
BeginQueued(c, m) ==
    /\ pc[c] = "idle"
    /\ m \in {"queued", "manual", "auto"}
    /\ mode' = [mode EXCEPT ![c] = m]
    /\ Acquire(c, m)
    /\ UNCHANGED <<inTx, tries, svars>>

\* inner.BeginTx or BEGIN IMMEDIATE after joining.  The deferred BEGIN reads
\* nothing yet; BEGIN IMMEDIATE takes SQLite's writer lock at once.
BeginInner(c) ==
    /\ pc[c] = "admitted"
    /\ ~inTx[c]
    /\ mode[c] # "auto"
    /\ mode[c] = "manual" => ~LockTaken(c)
    /\ pc' = [pc EXCEPT ![c] = "open"]
    /\ inTx' = [inTx EXCEPT ![c] = TRUE]
    /\ dirty' = IF mode[c] = "manual" THEN dirty \cup {c} ELSE dirty
    /\ snap' = [snap EXCEPT ![c] = IF mode[c] = "manual" THEN "fresh" ELSE "none"]
    /\ UNCHANGED <<qvars, mode, holding, tries, other>>

\* The inner BEGIN failed (busy timeout, or the context ended): the slot goes
\* back.
BeginFailed(c) ==
    /\ pc[c] = "admitted"
    /\ ~inTx[c]
    /\ mode[c] # "auto"
    /\ Cancels \/ (mode[c] = "manual" /\ LockTaken(c))
    /\ pc' = [pc EXCEPT ![c] = "idle"]
    /\ tries' = [tries EXCEPT ![c] = 0]
    /\ holding' = [holding EXCEPT ![c] = FALSE]
    /\ Release(turn)
    /\ UNCHANGED <<mode, inTx, svars>>

\* The first read of a transaction takes its snapshot.
Read(c) ==
    /\ pc[c] = "open"
    /\ snap[c] = "none"
    /\ snap' = [snap EXCEPT ![c] = "fresh"]
    /\ UNCHANGED <<qvars, cvars, dirty, tries, other>>

\* The first write of an optimistic transaction joins the queue.
JoinToWrite(c) ==
    /\ pc[c] = "open"
    /\ mode[c] = "optimistic"
    /\ ~holding[c]
    /\ Acquire(c, "optimistic")
    /\ UNCHANGED <<mode, inTx, tries, svars>>

\* A write statement inside a transaction that holds the slot.
AtWrite(c) ==
    /\ inTx[c]
    /\ holding[c]
    /\ c \notin dirty
    /\ pc[c] \in {"admitted", "open"}

Write(c) ==
    /\ AtWrite(c)
    /\ ~LockTaken(c)
    /\ ~Stale(c)
    /\ dirty' = dirty \cup {c}
    /\ snap' = [snap EXCEPT ![c] = "fresh"]
    /\ pc' = [pc EXCEPT ![c] = "open"]
    /\ UNCHANGED <<qvars, mode, holding, inTx, tries, other>>

\* SQLITE_BUSY after the busy timeout, or BUSY_SNAPSHOT at once.
WriteBusy(c) ==
    /\ AtWrite(c)
    /\ LockTaken(c) \/ Stale(c)
    /\ pc' = [pc EXCEPT ![c] = "busy"]
    /\ UNCHANGED <<qvars, mode, holding, inTx, tries, svars>>

\* An autocommit write executes and commits under the slot, or fails because
\* the other process keeps the lock; the deferred release follows either way.
AutoWrite(c) ==
    /\ pc[c] = "admitted"
    /\ mode[c] = "auto"
    /\ pc' = [pc EXCEPT ![c] = "ending"]
    /\ snap' = IF LockTaken(c) THEN snap ELSE Outdate(c, "behind")
    /\ UNCHANGED <<qvars, mode, holding, inTx, tries, dirty, other>>

\* inner.Commit, or COMMIT, succeeded.  The preparation is done.
Commit(c) ==
    /\ pc[c] = "open"
    /\ pc' = [pc EXCEPT ![c] = "ending"]
    /\ tries' = [tries EXCEPT ![c] = 0]
    /\ dirty' = dirty \ {c}
    /\ snap' = [IF c \in dirty THEN Outdate(c, "behind") ELSE snap EXCEPT ![c] = "none"]
    /\ UNCHANGED <<qvars, mode, holding, inTx, other>>

\* Mutant: endTx runs although the COMMIT failed.
CommitFailedReleases(c) ==
    /\ Cancels
    /\ pc[c] = "open"
    /\ mode[c] = "manual"
    /\ pc' = [pc EXCEPT ![c] = "failed"]
    /\ holding' = [holding EXCEPT ![c] = FALSE]
    /\ Release(turn)
    /\ UNCHANGED <<mode, inTx, tries, svars>>

\* COMMIT on a raw connection failed: the transaction is still open and the
\* slot is kept for the ROLLBACK that follows.  modernc rolls a failed
\* queuedTx.Commit back itself, which is Rollback below.
CommitFailed(c) ==
    /\ Cancels
    /\ pc[c] = "open"
    /\ mode[c] = "manual"
    /\ pc' = [pc EXCEPT ![c] = "failed"]
    /\ UNCHANGED <<qvars, mode, holding, inTx, tries, svars>>

\* Mutant: an invalidated attempt is not counted.
AfterRollbackUncounted(c) ==
    IF pc[c] # "busy" THEN {0}
    ELSE IF mode[c] = "optimistic" THEN {IF tries[c] = 0 THEN 1 ELSE tries[c]}
    ELSE IF tries[c] = 0 THEN {0} ELSE {0, Attempts}

\* What the retry loops make of a rolled-back attempt: an invalidated
\* optimistic attempt is counted, a slow one uses all of them up, and a busy
\* locked attempt is repeated until its budget ends.
AfterRollback(c) ==
    IF pc[c] # "busy" THEN {0}
    ELSE IF mode[c] = "optimistic" THEN {tries[c] + 1, Attempts}
    ELSE IF tries[c] = 0 THEN {0} ELSE {0, Attempts}

Rollback(c) ==
    /\ pc[c] \in {"open", "busy", "failed"}
    /\ \E n \in AfterRollback(c) : tries' = [tries EXCEPT ![c] = n]
    /\ pc' = [pc EXCEPT ![c] = "ending"]
    /\ dirty' = dirty \ {c}
    /\ snap' = [snap EXCEPT ![c] = "none"]
    /\ UNCHANGED <<qvars, mode, holding, inTx, other>>

\* endTx after the inner call returned, and the deferred release of an
\* autocommit write.
EndTx(c) ==
    /\ pc[c] = "ending"
    /\ pc' = [pc EXCEPT ![c] = "idle"]
    /\ inTx' = [inTx EXCEPT ![c] = FALSE]
    /\ holding' = [holding EXCEPT ![c] = FALSE]
    /\ IF holding[c] \/ mode[c] = "auto" THEN Release(turn) ELSE UNCHANGED qvars
    /\ UNCHANGED <<mode, tries, svars>>

\* The other process takes SQLite's writer lock and commits.
OtherLocks ==
    /\ OtherProcess
    /\ ~other
    /\ dirty = {}
    /\ other' = TRUE
    /\ UNCHANGED <<qvars, cvars, dirty, snap, tries>>

OtherCommits ==
    /\ other
    /\ other' = FALSE
    /\ snap' = [d \in Conns |-> IF snap[d] = "fresh" THEN "behindOther" ELSE snap[d]]
    /\ UNCHANGED <<qvars, cvars, dirty, tries>>

-----------------------------------------------------------------------------

\* An idle goroutine starts new work of some kind.
Start(c) ==
    /\ tries[c] = 0
    /\ \E m \in Modes[c] : BeginUnqueued(c, m) \/ BeginQueued(c, m)

\* Mutant: one optimistic attempt too many.
RetryOnceMore(c) ==
    /\ tries[c] > 0
    /\ IF tries[c] <= Attempts THEN BeginUnqueued(c, "optimistic")
                               ELSE BeginQueued(c, "queued")

\* retryFederationPreparation: optimistic while attempts remain, and then
\* the attempt joins before it reads.
Retry(c) ==
    /\ tries[c] > 0
    /\ IF tries[c] < Attempts THEN BeginUnqueued(c, "optimistic")
                              ELSE BeginQueued(c, "queued")

\* The steps a goroutine takes by itself once it has started.
Proceed(c) ==
    \/ TakeTurn(c) \/ LeaveLine(c) \/ MissedTurn(c) \/ PassOn(c)
    \/ BeginInner(c) \/ BeginFailed(c)
    \/ Read(c) \/ JoinToWrite(c) \/ Write(c) \/ WriteBusy(c) \/ AutoWrite(c)
    \/ Commit(c) \/ CommitFailed(c) \/ Rollback(c) \/ EndTx(c)

Next ==
    \/ \E c \in Conns : Start(c) \/ Retry(c) \/ GiveUp(c) \/ Proceed(c)
    \/ OtherLocks
    \/ OtherCommits

Spec == Init /\ [][Next]_vars

(* The Go scheduler runs every goroutine that can run, and a goroutine whose *)
(* preparation was invalidated retries it; no goroutine has to start new     *)
(* work and no context has to end.                                           *)
Fairness == \A c \in Conns : WF_vars(Proceed(c)) /\ WF_vars(Retry(c))

FairSpec == Spec /\ Fairness

-----------------------------------------------------------------------------
(* Properties *)

TypeOK ==
    /\ held \in BOOLEAN
    /\ waiters \in Seq(Conns)
    /\ turn \subseteq Conns
    /\ pc \in [Conns -> PCs]
    /\ mode \in [Conns -> AllModes]
    /\ holding \in [Conns -> BOOLEAN]
    /\ inTx \in [Conns -> BOOLEAN]
    /\ dirty \subseteq Conns
    /\ snap \in [Conns -> Snaps]
    /\ tries \in [Conns -> 0 .. Attempts]
    /\ other \in BOOLEAN

InLine(c) == \E i \in 1 .. Len(waiters) : waiters[i] = c

\* c is the one the slot belongs to: its turn channel is closed, it is about
\* to pass the slot on, its transaction holds it, or its autocommit write does.
Owner(c) ==
    \/ c \in turn
    \/ pc[c] = "pass"
    \/ holding[c]
    \/ mode[c] = "auto" /\ pc[c] \in {"admitted", "ending"}

(* "writeQueue admits one in-process SQLite writer at a time": the slot has  *)
(* at most one owner, and it is marked held exactly while it has one.  A     *)
(* hand-off lost in the race between release and a cancelled waiter leaves   *)
(* the slot held by nobody, and every later writer waits for good.           *)
OneOwner ==
    /\ \A c, d \in Conns : Owner(c) /\ Owner(d) => c = d
    /\ held <=> \E c \in Conns : Owner(c)

(* SQLite's writer lock is only ever held by the connection that owns the    *)
(* queue's slot, so no writer of this process meets another one of it in     *)
(* SQLite's polling busy handler -- in particular not between a failed       *)
(* COMMIT and its ROLLBACK, nor between a commit and endTx.                  *)
LockUnderSlot == \A c \in dirty : Owner(c)

(* "A transaction joins when it begins, before it reads": as long as it      *)
(* holds the slot no commit of this process outdates what it has read.       *)
QueuedReadsStayCurrent ==
    \A c \in Conns : holding[c] /\ mode[c] \in {"queued", "manual"} => snap[c] # "behind"

(* "in arrival order": whoever gets the slot while c stays in line was in    *)
(* line before c.                                                            *)
Before(d, c) == \E i, j \in 1 .. Len(waiters) : i < j /\ waiters[i] = d /\ waiters[j] = c

NoOvertaking ==
    [][\A c, d \in Conns :
          InLine(c) /\ InLine(c)' /\ ~Owner(d) /\ Owner(d)' => Before(d, c)]_vars

(* Every waiter is admitted or gives up; where contexts do not end (Cancels  *)
(* is FALSE) it is admitted.                                                 *)
WaitEnds ==
    \A c \in Conns :
        pc[c] = "line" ~> (pc[c] = "admitted" \/ (Cancels /\ pc[c] # "line"))

(* "Steady writes that invalidated a slow snapshot will likely invalidate    *)
(* the next one too": a preparation the optimistic attempts could not finish *)
(* still comes to an end among writers that never pause, because the locked  *)
(* fallback cannot be invalidated.  Only another process that takes SQLite's *)
(* lock again and again can hold it up, as it can any writer.                *)
PreparationEnds ==
    []<>other \/ (\A c \in Conns : tries[c] > 0 ~> tries[c] = 0)

=============================================================================
