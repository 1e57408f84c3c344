------------------------------ MODULE MCClaims ------------------------------
(* Small instances of Claims: a principal at each of two spokes and one at *)
(* the hub.                                                                *)
EXTENDS Claims, TLC

CONSTANTS p1, p2, h1, s1, s2

MCHome == [p \in Principals |-> IF p = p1 THEN s1 ELSE IF p = p2 THEN s2 ELSE Hub]

BothKinds == [p \in Principals |-> {"hard", "timed"}]
MixedKinds == [p \in Principals |-> IF p = p1 THEN {"hard", "timed"} ELSE {"hard"}]
OneKind == [p \in Principals |-> IF p = p1 THEN {"timed"} ELSE {"hard"}]

CallSymmetry == Permutations(Calls)
=============================================================================
