------------------------- MODULE MC_CompletionPorts -------------------------
EXTENDS CompletionPorts, TLC

CONSTANTS t1, t2, t3, p1, p2, j1, j2

\* t1 and t2 are threads of p1, t3 is one of p2
Owner == [t \in Threads |-> IF t = t3 THEN p2 ELSE p1]
Twins == Permutations({t1, t2}) \cup Permutations({j1, j2})

\* To keep the instance small: one port is made by create_completion, only one
\* of the jobs has a port, and once both jobs have processes, or a process was
\* assigned to something else, no thread is registered with a port or waits.
Families ==
    /\ Cardinality(made) <= 1
    /\ \E j \in Jobs : jobs[j].h = None
    /\ (\A j \in Jobs : jobs[j].processes # {}) \/ (\E p \in Processes : process_job[p] = NoJob)
          => /\ \A h \in Handles : waiters[h] = <<>>
             /\ \A t \in Threads : at[t] = Running /\ cache[t] = None
=============================================================================
