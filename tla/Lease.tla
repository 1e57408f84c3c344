------------------------------- MODULE Lease -------------------------------
(***************************************************************************)
(* What a lease on one issue promises: one holder at a time, and a lease   *)
(* passes on only after it has ended or its time has run out.  A lease     *)
(* that is over never comes back; a later one has a higher serial.         *)
(***************************************************************************)
EXTENDS Naturals

CONSTANTS Principals, NoLease

VARIABLES
    time,    \* the arbiter's clock
    lease,   \* the lease in force, or NoLease
    serial   \* leases granted so far

vars == <<time, lease, serial>>

Leases == [serial : Nat \ {0}, holder : Principals,
           kind : {"hard", "timed"}, expires : Nat]

Lapsed == lease # NoLease /\ lease.kind = "timed" /\ lease.expires <= time

Init == time \in Nat /\ lease = NoLease /\ serial = 0

Grant ==
    /\ lease = NoLease \/ Lapsed
    /\ serial' = serial + 1
    /\ lease' \in Leases /\ lease'.serial = serial'

\* Only a timed lease is extended, and it keeps its holder.
Extend ==
    /\ lease # NoLease /\ lease.kind = "timed"
    /\ lease' \in Leases /\ lease' = [lease EXCEPT !.expires = lease'.expires]
    /\ UNCHANGED serial

End ==
    /\ lease # NoLease /\ lease' = NoLease
    /\ UNCHANGED serial

Pass == UNCHANGED <<lease, serial>>

Next == /\ time' \in Nat /\ time <= time'
        /\ Grant \/ Extend \/ End \/ Pass

Spec == Init /\ [][Next]_vars
=============================================================================
