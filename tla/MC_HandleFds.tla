---------------------------- MODULE MC_HandleFds ----------------------------
EXTENDS HandleFds

CONSTANTS p1, p2

\* To keep the instance small: of pending reads, events in two tables, and
\* named pipes, a state has one kind, and they belong to p1 (p2 connects to the
\* pipes, inherits, duplicates and exits); one read is pending, one duplicate
\* has failed (beside no read and no event) and one reference was lost at a time.
Families ==
    LET read == reads[p1] # {}
        event == nts[p1] # {}
        failed == {<<p, h>> \in Procs \X Handles : h \in Entries(p) /\ slots[p][h] = NoFd}
    IN  /\ reads[p2] = {} /\ nts[p2] = {} /\ \A i \in pipes : i.p = p1
        /\ ~(read /\ event) /\ ~(read /\ pipes # {}) /\ ~(event /\ pipes # {})
        /\ Cardinality(reads[p1]) <= 1 /\ Cardinality(left) <= 1
        /\ Cardinality(failed) <= 1 /\ (failed # {} => ~read /\ ~event)
=============================================================================
