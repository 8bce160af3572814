------------------------- MODULE MC_WindowMessages -------------------------
EXTENDS WindowMessages, TLC

CONSTANTS t1, t2, t3

\* t1 and t2 share a process
TwoProcesses == [t \in Threads |-> IF t = t3 THEN "q" ELSE "p"]

\* window 1 is the parent of 2
Owners == [w \in Windows |-> t1]
SameThreadChildren == [w \in Windows |-> {2} \cap {w + 1}]

\* Two families of behaviours: nobody posts, quits, paints or sets timers, a
\* callback that is not refused is the second of three messages, and one thread
\* dies; or one thread does all of that, at most twice each, and nobody sends.
\* In the first t1 and t2 are alike, and the first message has t1 at one end.
NoTimers == [id \in TimerIds |-> 0]
NobodyPosts ==
    /\ quit = {} /\ paint = {} /\ Cardinality(connected) >= 2
    /\ \A t \in Threads : \A m \in ToSet(ring[t]) :
          /\ m.kind = "callback" => m.id = 2
          /\ m.id = 1 => m.from = t1 \/ (m.from = t3 /\ t = t1)
    /\ \A t \in Threads :
          /\ armed[t] = NoTimers /\ next_timer[t] = TIMER_TOP
          /\ bits[t] \subseteq {"send", "smresult"}
OneThreadPosts ==
    /\ sends <= 2 /\ {t2, t3} \subseteq connected /\ ring[t2] = <<>> /\ ring[t3] = <<>>
    /\ \A t \in Threads : bits[t] \subseteq {"post", "paint"}
    /\ \A t \in {t2, t3} : next_timer[t] = TIMER_TOP /\ armed[t] = NoTimers
Families == NobodyPosts \/ OneThreadPosts
=============================================================================
