---------------------------- MODULE MCWriteQueue ----------------------------
(* A small instance of WriteQueue for TLC. *)
EXTENDS WriteQueue, TLC

CONSTANTS c1, c2, c3

MCConns3 == {c1, c2, c3}
MCAttempts == 2

MCModes ==
    (c1 :> {"queued", "optimistic"}) @@
    (c2 :> {"optimistic", "manual", "reader"}) @@
    (c3 :> {"queued", "manual", "auto"})

=============================================================================
