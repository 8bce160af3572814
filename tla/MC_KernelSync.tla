---------------------------- MODULE MC_KernelSync ----------------------------
EXTENDS KernelSync, TLC

CONSTANTS t1, t2, t3, sem1, mtx1, auto1, manual1

WaitAny(objs, time) == [objs |-> objs, all |-> FALSE, time |-> time]
WaitAll(objs, time) == [objs |-> objs, all |-> TRUE, time |-> time]

\* blocking waits, a wait with a timeout, a poll; a WaitAll that sleeps and
\* comes round again
Calls == {WaitAny(<<mtx1, sem1>>, "forever"), WaitAny(<<auto1>>, "poll"),
          WaitAny(<<manual1, auto1>>, "finite"), WaitAll(<<sem1, auto1>>, "forever")}
SemCalls == {WaitAny(<<sem1>>, "forever")}

ThreadSymmetry == Permutations(Threads)
=============================================================================
