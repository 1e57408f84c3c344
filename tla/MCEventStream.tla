--------------------------- MODULE MCEventStream ---------------------------
(* Small instances of EventStream: what each client follows, and runs in    *)
(* which one client, which streams or polls, is active.  A client changes   *)
(* nothing that another client or the store reads, so one at a time meets   *)
(* every behaviour any of them can meet.                                    *)
EXTENDS EventStream, TLC

CONSTANTS p1, p2, i1, i2, s1, s2, q1, q2

VARIABLE who     \* the client that is active

\* s1 and q1 follow one project, s2 and q2 all of them.
MCScope == [c \in Clients |-> IF c \in {s1, q1} THEN p1 ELSE AllProjects]

IssueSymmetry == Permutations(Issues)

OneInit == Init /\ who \in Clients

OneNext ==
    /\ UNCHANGED who
    /\ \/ Store
       \/ \E m \in outbox : Publish(m)
       \/ Stream(who) \/ Poll(who) \/ Refetch(who) \/ Disconnect(who)
       \/ Crash

OneSpec == OneInit /\ [][OneNext]_<<vars, who>>

\* A committed write is broadcast unless the daemon dies first; a handler and
\* its client keep going (the heartbeat included) and the client reconnects; a
\* poller keeps polling; a reset is followed by a refetch.  New writes, faults
\* and other refetches are never owed.
OneFairSpec ==
    /\ OneSpec
    /\ WF_vars(\E m \in outbox : Publish(m))
    /\ WF_vars(Stream(who)) /\ WF_vars(Poll(who)) /\ WF_vars(~fresh[who] /\ Refetch(who))

\* Every event reaches the client whose scope it is in, streaming or polling,
\* unless a purge deletes it first: overflow, disconnects, pages of one event
\* and a crash only delay it.
EventsReachFollowers ==
    \A c \in Clients : \A n \in 1 .. MaxSeq :
        (who = c /\ \E e \in log : e.id = n /\ Visible(c, e))
            ~> (n \in seen[c] \/ \A e \in log : e.id # n)
=============================================================================
