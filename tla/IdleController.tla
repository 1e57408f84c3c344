-------------------------- MODULE IdleController --------------------------
(* The controller that stops an auto-started daemon after a period without  *)
(* foreground use: admission of requests and of background work, the idle   *)
(* timer with its callbacks, expiry that running work holds up, and the     *)
(* retry channel schedulers wait on (daemon/idle_controller.go).  Every     *)
(* action is one critical section of the controller's mutex.                *)
EXTENDS Integers, FiniteSets

CONSTANTS Units,          \* leases that can be out at a time
          Schedulers,     \* the background loops that ask for a lease
          Timeout,        \* the idle interval in ticks
          Early,          \* how many ticks before the deadline a timer may fire
          MaxGeneration   \* bounds what clients and early timers may begin

ASSUME ParametersAssumption ==
    /\ IsFiniteSet(Units)
    /\ Timeout \in Nat \ {0} /\ Early \in Nat /\ MaxGeneration \in Nat

VARIABLES started, stopping, foreground, drains, expired, generation,
          left,       \* c.deadline - now, never below 0
          timer,      \* the generation of the pending timer, 0 if there is none
          callbacks,  \* generations whose callback runs and waits for the mutex
          retry,      \* c.drainRetry is an open channel
          waiting,    \* the schedulers that wait on it
          leases,     \* what each lease protects, and whether it was released
          idleCalls,  \* how often onIdle was called
          quiet       \* history: ticks without foreground work, up to Timeout

controller == <<started, stopping, foreground, drains, expired, generation>>
clock == <<left, timer, callbacks, quiet>>
channel == <<retry, waiting>>
vars == <<controller, clock, channel, leases, idleCalls>>

None == [kind |-> "none", released |-> FALSE]
Lease(kind) == [kind |-> kind, released |-> FALSE]

Init ==
    /\ started = FALSE /\ stopping = FALSE /\ expired = FALSE
    /\ foreground = 0 /\ drains = 0 /\ generation = 0
    /\ left = 0 /\ timer = 0 /\ callbacks = {} /\ quiet = 0
    /\ retry = FALSE /\ waiting = {}
    /\ leases = [u \in Units |-> None]
    /\ idleCalls = 0

-----------------------------------------------------------------------------
\* wakeDrainRetryLocked
Wake == retry' = FALSE /\ waiting' = {}

\* a denial that can be reversed: drainRetryLocked, and the scheduler waits
Await(s) == retry' = TRUE /\ waiting' = waiting \cup {s}

\* what TryForeground and armLocked do to an expiry that work held up
Revive == expired' = FALSE /\ IF expired THEN Wake ELSE UNCHANGED channel

\* what TryForeground does to the running interval
Invalidate == timer' = 0 /\ generation' = generation + 1

\* (mutant) calls onIdle and leaves the door open
StopIdleOpen == /\ Wake /\ UNCHANGED stopping
                /\ generation' = generation + 1 /\ idleCalls' = idleCalls + 1

\* the steps that commit the shutdown and call onIdle
StopIdle == /\ Wake /\ stopping' = TRUE
            /\ generation' = generation + 1 /\ idleCalls' = idleCalls + 1

\* armLocked with a deadline that many ticks away
Arm(ticks) == /\ Revive /\ left' = ticks
              /\ generation' = generation + 1 /\ timer' = generation + 1

-----------------------------------------------------------------------------
Unheld(u) == leases[u].kind = "none" \/ leases[u].released

\* TryForeground
TryForeground(u) ==
    /\ Unheld(u) /\ ~stopping /\ generation < MaxGeneration
    /\ foreground' = foreground + 1
    /\ Revive /\ Invalidate /\ quiet' = 0
    /\ leases' = [leases EXCEPT ![u] = Lease("foreground")]
    /\ UNCHANGED <<started, stopping, drains, left, callbacks, idleCalls>>

\* TryDrainWaitable's own look at the deadline
DeadlinePassed == started /\ foreground = 0 /\ left = 0

\* (mutant) admits until the timer's callback has run, and while it is held up
AdmissibleLate == ~stopping

\* whether TryDrainWaitable admits
Admissible == ~stopping /\ ~expired /\ ~DeadlinePassed

\* TryDrain and TryDrainWaitable: admitted ...
AdmitDrain(u) ==
    /\ Unheld(u) /\ Admissible
    /\ drains' = drains + 1
    /\ leases' = [leases EXCEPT ![u] = Lease("drain")]
    /\ UNCHANGED <<started, stopping, foreground, expired, generation, clock, channel, idleCalls>>

\* ... denied while expired ...
DenyDrain(s) ==
    /\ s \notin waiting /\ ~stopping /\ expired
    /\ Await(s)
    /\ UNCHANGED <<controller, clock, leases, idleCalls>>

\* (mutant) stops the daemon and sends the scheduler to wait
ExpireAtDrainWaits(s) ==
    /\ s \notin waiting /\ ~stopping /\ ~expired /\ DeadlinePassed
    /\ expired' = TRUE
    /\ Await(s)
    /\ stopping' = (drains = 0)
    /\ generation' = IF drains = 0 THEN generation + 1 ELSE generation
    /\ idleCalls' = IF drains = 0 THEN idleCalls + 1 ELSE idleCalls
    /\ UNCHANGED <<started, foreground, drains, clock, leases>>

\* ... or the first to see the deadline, which stops the daemon or waits.
ExpireAtDrain(s) ==
    /\ s \notin waiting /\ ~stopping /\ ~expired /\ DeadlinePassed
    /\ expired' = TRUE
    /\ IF drains = 0
       THEN StopIdle
       ELSE Await(s) /\ UNCHANGED <<stopping, generation, idleCalls>>
    /\ UNCHANGED <<started, foreground, drains, clock, leases>>

\* Fork: one child of a drain that is still out, also while expired
Fork(u, v) ==
    /\ leases[u] = Lease("drain") /\ Unheld(v) /\ ~stopping
    /\ drains' = drains + 1
    /\ leases' = [leases EXCEPT ![v] = Lease("child")]
    /\ UNCHANGED <<started, stopping, foreground, expired, generation, clock, channel, idleCalls>>

-----------------------------------------------------------------------------
Released(u) == leases' = [leases EXCEPT ![u].released = TRUE]

\* release of a request: the last one begins a complete new interval
ReleaseForeground(u) ==
    /\ leases[u] = Lease("foreground") /\ Released(u) /\ ~stopping
    /\ foreground' = foreground - 1
    /\ quiet' = 0
    /\ IF started /\ foreground = 1
       THEN Arm(Timeout)
       ELSE UNCHANGED <<expired, generation, left, timer, channel>>
    /\ UNCHANGED <<started, stopping, drains, callbacks, idleCalls>>

\* release of background work: the last one stops a daemon that has expired
ReleaseDrain(u) ==
    /\ leases[u] \in {Lease("drain"), Lease("child")} /\ Released(u) /\ ~stopping
    /\ drains' = drains - 1
    /\ IF expired /\ drains = 1 /\ foreground = 0
       THEN StopIdle
       ELSE UNCHANGED <<stopping, generation, channel, idleCalls>>
    /\ UNCHANGED <<started, foreground, expired, clock>>

\* release when the daemon stops already
ReleaseLate(u) ==
    /\ leases[u].kind # "none" /\ ~leases[u].released /\ Released(u) /\ stopping
    /\ UNCHANGED <<controller, clock, channel, idleCalls>>

\* a second Release finds the lease released
ReleaseAgain(u) == leases[u].released /\ UNCHANGED vars

-----------------------------------------------------------------------------
\* Start
Start ==
    /\ ~started /\ ~stopping
    /\ started' = TRUE /\ quiet' = 0
    /\ IF foreground = 0
       THEN Arm(Timeout)
       ELSE UNCHANGED <<expired, generation, left, timer, channel>>
    /\ UNCHANGED <<stopping, foreground, drains, callbacks, leases, idleCalls>>

\* Stop, which another source of the shutdown calls
Stop ==
    /\ ~stopping
    /\ stopping' = TRUE
    /\ generation' = generation + 1
    /\ Wake
    /\ timer' = 0
    /\ UNCHANGED <<started, foreground, drains, expired, left, callbacks, quiet, leases, idleCalls>>

\* time passes, while the clock is still looked at
Tick ==
    /\ ~stopping
    /\ left' = IF left > 0 THEN left - 1 ELSE 0
    /\ quiet' = IF started /\ foreground = 0 /\ quiet < Timeout THEN quiet + 1 ELSE quiet
    /\ UNCHANGED <<controller, timer, callbacks, channel, leases, idleCalls>>

\* the timer fires: its callback starts and waits for the mutex
Fire ==
    /\ timer # 0
    /\ left <= Early /\ (left > 0 => generation < MaxGeneration)
    /\ callbacks' = callbacks \cup {timer}
    /\ timer' = 0
    /\ UNCHANGED <<controller, left, quiet, channel, leases, idleCalls>>

\* expire, by a callback of a generation that has passed ...
StaleCallback(g) ==
    /\ g \in callbacks /\ (stopping \/ g # generation)
    /\ callbacks' = callbacks \ {g}
    /\ UNCHANGED <<controller, left, timer, quiet, channel, leases, idleCalls>>

\* ... of a timer that fired early ...
EarlyCallback(g) ==
    /\ g \in callbacks /\ ~stopping /\ g = generation /\ left > 0
    /\ callbacks' = callbacks \ {g}
    /\ Arm(left)
    /\ UNCHANGED <<started, stopping, foreground, drains, quiet, leases, idleCalls>>

\* ... or at the deadline, which running work holds up.
Expire(g) ==
    /\ g \in callbacks /\ ~stopping /\ g = generation /\ left = 0
    /\ callbacks' = callbacks \ {g}
    /\ IF drains > 0
       THEN expired' = TRUE /\ UNCHANGED <<stopping, generation, channel, idleCalls>>
       ELSE StopIdle /\ UNCHANGED expired
    /\ UNCHANGED <<started, foreground, drains, left, timer, quiet, leases>>

Next ==
    \/ \E u \in Units : TryForeground(u) \/ AdmitDrain(u) \/ ReleaseForeground(u)
                        \/ ReleaseDrain(u) \/ ReleaseLate(u) \/ ReleaseAgain(u)
    \/ \E s \in Schedulers : DenyDrain(s) \/ ExpireAtDrain(s)
    \/ \E u, v \in Units : Fork(u, v)
    \/ Start \/ Stop \/ Tick \/ Fire
    \/ \E g \in callbacks : StaleCallback(g) \/ EarlyCallback(g) \/ Expire(g)

Spec == Init /\ [][Next]_vars

\* Time passes, the runtime fires timers that are due and runs their
\* callbacks, and background work is finite.  A request may last for ever.
FairSpec ==
    /\ Spec
    /\ WF_vars(Tick) /\ WF_vars(Fire /\ left = 0)
    /\ WF_vars(\E g \in callbacks : StaleCallback(g) \/ EarlyCallback(g) \/ Expire(g))
    /\ \A u \in Units : WF_vars(ReleaseDrain(u))

-----------------------------------------------------------------------------
Out(kinds) == {u \in Units : leases[u].kind \in kinds /\ ~leases[u].released}

\* The fields keep their types, both counters tell how much admitted work is
\* out, however often and in whatever order leases are released and forked,
\* and onIdle is called once at most.
TypeOK ==
    /\ started \in BOOLEAN /\ stopping \in BOOLEAN /\ expired \in BOOLEAN
    /\ foreground \in Nat /\ drains \in Nat /\ generation \in Nat
    /\ left \in 0 .. Timeout /\ quiet \in 0 .. Timeout
    /\ timer \in Nat /\ callbacks \subseteq Nat
    /\ retry \in BOOLEAN /\ waiting \subseteq Schedulers
    /\ leases \in [Units -> [kind : {"none", "foreground", "drain", "child"}, released : BOOLEAN]]
    /\ idleCalls \in 0 .. 1

\* While the daemon runs, the counters are the work that is out: Release is
\* idempotent, and a fork counts for itself.
CountersMatch ==
    ~stopping => /\ foreground = Cardinality(Out({"foreground"}))
                 /\ drains = Cardinality(Out({"drain", "child"}))

\* Idle shutdown is only ever decided with no admitted work left, and a full
\* interval after the last request: a callback of an earlier timer, a release
\* or a scheduler that is first to see the deadline never decides too soon.
IdleStopJustified ==
    idleCalls > 0 => Out({"foreground", "drain", "child"}) = {} /\ quiet = Timeout

\* A scheduler waits on the retry channel only while the deadline has passed
\* and some work is out whose release will close the channel.
WaitersWillBeWoken ==
    waiting # {} => retry /\ ~stopping /\ expired /\ foreground = 0 /\ drains > 0

\* Nobody waits on the retry channel for ever.
WaitersWoken == \A s \in Schedulers : s \in waiting ~> s \notin waiting

\* A daemon that is not used any more stops, although background loops never
\* stop asking for leases.
UnusedDaemonStops == <>[](started /\ foreground = 0) => <>stopping
=============================================================================
