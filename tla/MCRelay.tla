------------------------------ MODULE MCRelay ------------------------------
(* A small instance of Relay for TLC: a root, a relay and a leaf in a row. *)
EXTENDS Relay, TLC

CONSTANTS r, m, l

MCParent == [h \in Hops |-> IF h = l THEN m ELSE r]
=============================================================================
