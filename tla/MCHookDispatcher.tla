-------------------------- MODULE MCHookDispatcher --------------------------
(* A request, a background loop, one worker of the pool, two jobs on their  *)
(* way and a queue of one: a full queue, forks, overlapping leases and every *)
(* order of a shutdown and an enqueue.                                      *)
EXTENDS HookDispatcher

CONSTANTS r1, b1, j1, j2, w1

MCRequests == {r1}
MCBackground == {b1}
MCJobs == {j1, j2}
MCUnits == {r1, b1, j1, j2}
MCWorkers == {w1}
=============================================================================
