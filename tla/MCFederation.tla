---------------------------- MODULE MCFederation ----------------------------
(* Small instances of Federation.                                          *)
EXTENDS Federation, TLC

CONSTANTS s1, s2, t1, t2

\* The hub's UID lies between those of the spokes.
MCRank == [n \in Nodes |-> IF n = Hub THEN 2 ELSE IF n = s1 THEN 1 ELSE 3]

\* A spoke's runner with a push that a cron forward starts, or a pull that a handler starts.
AtOne == [t \in Turns |-> s1]
SyncAndPush == [t \in Turns |-> IF t = t1 THEN "sync" ELSE "push"]
SyncAndPull == [t \in Turns |-> IF t = t1 THEN "sync" ELSE "pull"]
=============================================================================
