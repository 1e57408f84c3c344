--------------------------- MODULE HookDispatcher ---------------------------
(***************************************************************************)
(* The hook dispatcher (hooks/dispatcher.go) between the idle controller   *)
(* and the shutdown coordinator (cmd/kata/daemon_supervisor.go).           *)
(*                                                                         *)
(* A producer is a request handler or a background worker that holds a     *)
(* lease of the idle controller while it works; what it commits it hands   *)
(* to the dispatcher, which takes a lease of its own for every job.  The   *)
(* coordinator, once triggered by a signal or by the idle controller,      *)
(* joins the producers, then the dispatcher, and reports whether the store *)
(* may be closed.  A startup that fails before the coordinator exists      *)
(* shuts the dispatcher down with the background workers still running.    *)
(*                                                                         *)
(* The actions of IdleController are used as they are: each step here is   *)
(* one of its steps or leaves its variables alone.                         *)
(***************************************************************************)
EXTENDS IdleController, Sequences

CONSTANTS Requests, Background,   \* the producers
          Jobs,                   \* slots for the jobs on their way
          Workers, QueueCap,
          MaxHooks,               \* bound on the hooks one lease's events match
          Nobody                  \* stands for no job

Producers == Requests \cup Background

ASSUME HooksAssumption ==
    /\ Units = Producers \cup Jobs /\ Schedulers = Background
    /\ Requests \cap Background = {} /\ Producers \cap Jobs = {}
    /\ QueueCap \in Nat \ {0} /\ MaxHooks \in Nat
    /\ Workers # {} /\ Nobody \notin Jobs

VARIABLES
    producerDrain, stopped,
    done,       \* the channel done is closed: running hooks are cancelled
    queue,      \* the jobs in the channel queue
    closed,     \* that channel is closed
    appender,   \* runs.jsonl is open
    prod,       \* where each producer stands
    budget,     \* the hooks its events still match
    slot,       \* the job it is about to send
    work,       \* where each worker of the pool stands, and its job
    coord,      \* where the trigger, the coordinator or the fallback stands
    failed      \* a producer or a hook did not stop in time

gates == <<producerDrain, stopped, done, closed, appender>>
dispatcher == <<gates, queue, slot, work>>
producers == <<prod, budget>>
shutdown == <<coord, failed>>
hookVars == <<dispatcher, producers, shutdown>>
allVars == <<vars, hookVars>>

AtRest == [at |-> "idle", job |-> Nobody]

HooksInit ==
    /\ Init
    /\ producerDrain = FALSE /\ stopped = FALSE /\ done = FALSE
    /\ queue = <<>> /\ closed = FALSE /\ appender = TRUE
    /\ prod = [p \in Producers |-> "off"]
    /\ budget = [p \in Producers |-> 0]
    /\ slot = [p \in Producers |-> Nobody]
    /\ work = [w \in Workers |-> AtRest]
    /\ coord = "none" /\ failed = FALSE

-----------------------------------------------------------------------------
(* The producers.                                                          *)

\* Release of a lease that is out: one of the controller's three branches.
Release(u) == ReleaseForeground(u) \/ ReleaseDrain(u) \/ ReleaseLate(u)

\* releaseActivity: a job accepted without admission has no lease.
ReleaseJob(j) == IF Unheld(j) THEN UNCHANGED vars ELSE Release(j)

Begun(p) ==
    /\ prod[p] = "off"
    /\ prod' = [prod EXCEPT ![p] = "active"]
    /\ budget' = [budget EXCEPT ![p] = MaxHooks]
    /\ UNCHANGED <<dispatcher, shutdown>>

\* withIdleAdmission admits a request, once the daemon serves.
BeginRequest(r) == started /\ TryForeground(r) /\ Begun(r)

\* A background loop's operation is admitted, when the loop does not wait.
BeginWork(b) == b \notin waiting /\ AdmitDrain(b) /\ Begun(b)

\* The handler or the operation returns.
Finish(p) ==
    /\ prod[p] = "active"
    /\ Release(p)
    /\ prod' = [prod EXCEPT ![p] = "off"]
    /\ budget' = [budget EXCEPT ![p] = 0]
    /\ UNCHANGED <<dispatcher, shutdown>>

\* enqueue: RLock, unless Shutdown waits for the lock or has had it.
Enqueue(p) ==
    /\ prod[p] = "active" /\ budget[p] > 0
    /\ ~stopped
    /\ prod' = [prod EXCEPT ![p] = "acquire"]
    /\ UNCHANGED <<vars, dispatcher, budget, shutdown>>

Free(j) == /\ Unheld(j)
           /\ \A i \in DOMAIN queue : queue[i] # j
           /\ \A p \in Producers : slot[p] # j
           /\ \A w \in Workers : work[w].job # j

ToSend(p, j) ==
    /\ prod' = [prod EXCEPT ![p] = "send"]
    /\ slot' = [slot EXCEPT ![p] = j]
    /\ UNCHANGED <<gates, queue, work, budget, shutdown>>

\* For each matching hook the look at done, and acquire: a request asks for
\* background work of its own, a background operation forks its lease ...
Acquire(p, j) ==
    /\ prod[p] = "acquire" /\ ~done /\ Free(j)
    /\ IF p \in Requests THEN AdmitDrain(j) ELSE Fork(p, j)
    /\ ToSend(p, j)

\* on to the next hook that matches, or out of enqueue
NextHook(p) ==
    /\ budget' = [budget EXCEPT ![p] = @ - 1]
    /\ \E next \in {"active"} \cup (IF budget[p] > 1 THEN {"acquire"} ELSE {}) :
           prod' = [prod EXCEPT ![p] = next]

\* ... and when it is denied, the job is dropped, or accepted without a lease
\* while the shutdown lets producers drain.  HandoffNeverDenied is why no
\* other denial is an action ...
AcquireDenied(p, j) ==
    /\ prod[p] = "acquire" /\ ~done /\ Free(j)
    /\ stopping
    /\ IF producerDrain
       THEN ToSend(p, j)
       ELSE NextHook(p) /\ UNCHANGED <<dispatcher, shutdown>>
    /\ UNCHANGED vars

\* ... and the send, which a full queue refuses.
Send(p) ==
    /\ prod[p] = "send"
    /\ IF Len(queue) < QueueCap
       THEN queue' = Append(queue, slot[p]) /\ UNCHANGED vars
       ELSE ReleaseJob(slot[p]) /\ UNCHANGED queue
    /\ slot' = [slot EXCEPT ![p] = Nobody]
    /\ NextHook(p)
    /\ UNCHANGED <<gates, work, shutdown>>

-----------------------------------------------------------------------------
(* The workers of the pool.                                                *)

SetWork(w, at, j) == work' = [work EXCEPT ![w] = [at |-> at, job |-> j]]

Pop(w) ==
    /\ work[w].at = "idle" /\ queue # <<>>
    /\ queue' = Tail(queue) /\ SetWork(w, "popped", Head(queue))
    /\ UNCHANGED <<vars, gates, slot, producers, shutdown>>

\* (mutant) the loop ends when the queue is closed, whatever is in it
ExitAtOnce(w) ==
    /\ work[w].at = "idle" /\ (done \/ closed)
    /\ SetWork(w, "exited", Nobody)
    /\ UNCHANGED <<vars, gates, queue, slot, producers, shutdown>>

\* The loop ends: done is closed, or the queue is closed and drained.
Exit(w) ==
    /\ work[w].at = "idle" /\ (done \/ (closed /\ queue = <<>>))
    /\ SetWork(w, "exited", Nobody)
    /\ UNCHANGED <<vars, gates, queue, slot, producers, shutdown>>

\* (mutant) the lease covers the wait in the queue only
RunUnprotected(w) ==
    /\ work[w].at = "popped" /\ ~done
    /\ ReleaseJob(work[w].job)
    /\ SetWork(w, "running", work[w].job)
    /\ UNCHANGED <<gates, queue, slot, producers, shutdown>>

\* The look at done after the pop: run the job ...
Run(w) ==
    /\ work[w].at = "popped" /\ ~done
    /\ SetWork(w, "running", work[w].job)
    /\ UNCHANGED <<vars, gates, queue, slot, producers, shutdown>>

\* ... or drop it and return.
DropPopped(w) ==
    /\ work[w].at = "popped" /\ done
    /\ ReleaseJob(work[w].job)
    /\ SetWork(w, "exited", Nobody)
    /\ UNCHANGED <<gates, queue, slot, producers, shutdown>>

\* runOne ends, by itself, by its timeout, killed or panicking; the deferred
\* release is last.
EndRun(w) ==
    /\ work[w].at = "running"
    /\ ReleaseJob(work[w].job)
    /\ SetWork(w, "idle", Nobody)
    /\ UNCHANGED <<gates, queue, slot, producers, shutdown>>

-----------------------------------------------------------------------------
(* Start and shutdown of the daemon.                                       *)

Coord(to) == coord' = to /\ UNCHANGED failed

\* startDaemonShutdownCoordinator
Supervise ==
    /\ coord = "none" /\ Coord("watch")
    /\ UNCHANGED <<vars, dispatcher, producers>>

\* runDaemonProcess fails before that, and its deferred Shutdown runs.
StartupFails ==
    /\ coord = "none"
    /\ coord' = "closing" /\ stopped' = TRUE /\ failed' = TRUE
    /\ UNCHANGED <<vars, producerDrain, done, queue, closed, appender, slot, work, producers>>

\* PublishReady
Ready == coord = "watch" /\ Start /\ UNCHANGED hookVars

\* (mutant) leaves the handoff closed
TriggerOnly ==
    /\ coord = "watch" /\ Coord("drain")
    /\ UNCHANGED <<vars, dispatcher, producers>>

\* Trigger, called by onIdle or for a signal: first BeginProducerDrain ...
TriggerDrain ==
    /\ coord = "watch" /\ Coord("drain")
    /\ producerDrain' = TRUE
    /\ UNCHANGED <<vars, stopped, done, queue, closed, appender, slot, work, producers>>

\* ... then stopAdmission ...
TriggerSeal ==
    /\ coord = "drain" /\ Coord("sealed")
    /\ IF stopping THEN UNCHANGED vars ELSE Stop
    /\ UNCHANGED <<dispatcher, producers>>

\* (mutant) does not say that the deadline has passed
JoinUnrecorded(S, from, to) ==
    /\ coord = from /\ coord' = to
    /\ UNCHANGED <<vars, dispatcher, producers, failed>>

\* ... then the root context is cancelled, and the coordinator joins the
\* workers and the HTTP handlers, or the deadline passes.
Join(S, from, to) ==
    /\ coord = from /\ coord' = to
    /\ \/ (\A p \in S : prod[p] = "off") /\ UNCHANGED failed
       \/ failed' = TRUE
    /\ UNCHANGED <<vars, dispatcher, producers>>

JoinWorkers == Join(Background, "sealed", "http")
JoinHandlers == Join(Requests, "http", "joined")

\* Dispatcher.Shutdown, only if all producers are joined: no more enqueues ...
BeginClose ==
    /\ coord = "joined" /\ ~failed
    /\ stopped' = TRUE /\ Coord("closing")
    /\ UNCHANGED <<vars, producerDrain, done, queue, closed, appender, slot, work, producers>>

GiveUp ==
    /\ coord = "joined" /\ failed
    /\ Coord("done")
    /\ UNCHANGED <<vars, dispatcher, producers>>

\* (mutant) closes without the lock
CloseUnlocked ==
    /\ coord = "closing"
    /\ closed' = TRUE /\ Coord("draining")
    /\ UNCHANGED <<vars, producerDrain, stopped, done, queue, appender, slot, work, producers>>

\* ... the write lock, which waits for the enqueues under way ...
CloseQueue ==
    /\ coord = "closing"
    /\ \A p \in Producers : prod[p] \in {"off", "active"}
    /\ closed' = TRUE /\ Coord("draining")
    /\ UNCHANGED <<vars, producerDrain, stopped, done, queue, appender, slot, work, producers>>

\* ... abortInFlight when its timer is due ...
Abort ==
    /\ coord = "draining" /\ ~done
    /\ done' = TRUE
    /\ UNCHANGED <<vars, producerDrain, stopped, closed, appender, queue, slot, work,
                   producers, shutdown>>

\* ... with releaseQueued, which finishShutdown calls too ...
ReleaseQueued ==
    /\ coord = "draining" /\ queue # <<>>
    /\ done \/ \A w \in Workers : work[w].at = "exited"
    /\ ReleaseJob(Head(queue)) /\ queue' = Tail(queue)
    /\ UNCHANGED <<gates, slot, work, producers, shutdown>>

\* ... finishShutdown once the workers are gone ...
FinishShutdown ==
    /\ coord = "draining" /\ queue = <<>>
    /\ \A w \in Workers : work[w].at = "exited"
    /\ appender' = FALSE /\ Coord("done")
    /\ UNCHANGED <<vars, producerDrain, stopped, done, queue, closed, slot, work, producers>>

\* ... or the error when they are not in time.
ShutdownTimesOut ==
    /\ coord = "draining" /\ done /\ queue = <<>>
    /\ coord' = "done" /\ failed' = TRUE
    /\ UNCHANGED <<vars, dispatcher, producers>>

-----------------------------------------------------------------------------
(* The idle controller's own steps.                                        *)
Idle ==
    /\ \/ \E s \in Schedulers : prod[s] = "off" /\ (DenyDrain(s) \/ ExpireAtDrain(s))
       \/ \E u \in Units : ReleaseAgain(u)
       \/ Tick \/ Fire
       \/ \E g \in callbacks : StaleCallback(g) \/ EarlyCallback(g) \/ Expire(g)
    /\ UNCHANGED hookVars

Handoff(p) == Send(p) \/ \E j \in Jobs : Acquire(p, j) \/ AcquireDenied(p, j)

Pool(w) == Pop(w) \/ Exit(w) \/ Run(w) \/ DropPopped(w) \/ EndRun(w)

Coordinate ==
    \/ TriggerSeal \/ JoinWorkers \/ JoinHandlers \/ BeginClose
    \/ GiveUp \/ CloseQueue \/ Abort \/ ReleaseQueued \/ FinishShutdown \/ ShutdownTimesOut

\* The process exits.
Exited == coord = "done" /\ UNCHANGED allVars

Step ==
    \/ \E r \in Requests : BeginRequest(r)
    \/ \E b \in Background : BeginWork(b)
    \/ \E p \in Producers : Finish(p) \/ Enqueue(p) \/ Handoff(p)
    \/ \E w \in Workers : Pool(w)
    \/ Supervise \/ StartupFails \/ Ready \/ TriggerDrain \/ Coordinate
    \/ Idle

HooksNext == (coord # "done" /\ Step) \/ Exited

HooksSpec == HooksInit /\ [][HooksNext]_allVars

Running(A) == coord # "done" /\ A
Controller(A) == Running(A /\ UNCHANGED hookVars)

\* While the process runs, time passes, timers that are due fire and their
\* callbacks run, an enqueue and a worker of the pool never block for good,
\* background work is finite, and the shutdown goes on once it is triggered;
\* the idle controller triggers it.  A request may last for ever.
HooksFairSpec ==
    /\ HooksSpec
    /\ WF_allVars(Controller(Tick)) /\ WF_allVars(Controller(Fire /\ left = 0))
    /\ WF_allVars(Controller(\E g \in callbacks : StaleCallback(g) \/ EarlyCallback(g) \/ Expire(g)))
    /\ \A p \in Producers : WF_allVars(Running(Handoff(p)))
    /\ \A b \in Background : WF_allVars(Running(Finish(b)))
    /\ \A w \in Workers : WF_allVars(Running(Pool(w)))
    /\ WF_allVars(Running(Coordinate)) /\ WF_allVars(idleCalls > 0 /\ TriggerDrain)

-----------------------------------------------------------------------------
(* Properties.                                                             *)

InQueue(j) == \E i \in DOMAIN queue : queue[i] = j
AtWorker(j) == \E w \in Workers : work[w].job = j

\* Whatever order a shutdown and an enqueue come in, the job of an admitted
\* producer is not refused for want of admission, and acquiring its lease is
\* never what decides that the daemon is idle (enqueue holds the read lock,
\* and onIdle must not come back for the write lock): a producer in enqueue
\* finds admission open, or the handoff that BeginProducerDrain opens.
HandoffNeverDenied ==
    \A p \in Producers : prod[p] = "acquire" =>
        IF stopping THEN producerDrain ELSE p \in Background \/ Admissible

\* Nobody sends on the closed queue, which would panic: also when a startup
\* that fails shuts the dispatcher down under running background workers.
NoSendOnClosed == \A p \in Producers : prod[p] = "send" => ~closed

\* What the coordinator reports as joined is at rest: no producer, no hook, no
\* job and no lease is left to use the dependencies that are closed next, and
\* the log of runs is open as long as a hook runs.
DependenciesOutliveUse ==
    /\ coord = "done" /\ ~failed =>
          /\ \A p \in Producers : prod[p] = "off"
          /\ \A w \in Workers : work[w].at = "exited"
          /\ queue = <<>> /\ Out({"foreground", "drain", "child"}) = {}
    /\ \A w \in Workers : work[w].at = "running" => appender

\* Idle shutdown is decided when all is quiet: no producer is at work, no job
\* waits and no hook runs.
IdleStopOnlyAtRest ==
    [][idleCalls' > idleCalls =>
          /\ \A p \in Producers : prod'[p] = "off"
          /\ \A j \in Jobs : ~InQueue(j)' /\ ~AtWorker(j)']_allVars

\* "Graceful shutdown closes the queue so workers drain every accepted job":
\* a job that was accepted goes without having run only once done is closed.
GracefulDrain ==
    [][\A j \in Jobs :
          (InQueue(j) \/ \E w \in Workers : work[w] = [at |-> "popped", job |-> j])
          /\ ~(InQueue(j) \/ AtWorker(j))' => done]_allVars
=============================================================================
