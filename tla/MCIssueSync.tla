---------------------------- MODULE MCIssueSync ----------------------------
(* A small instance of IssueSync for TLC. *)
EXTENDS IssueSync

CONSTANTS r1, r2

MCRuns == {r1, r2}

=============================================================================
