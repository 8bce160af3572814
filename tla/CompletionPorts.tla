-------------------------- MODULE CompletionPorts --------------------------
(***************************************************************************)
(* I/O completion ports and the job notifications posted to them           *)
(* (event_loop/completion.rs, the job part of disconnect_client).          *)
(*                                                                         *)
(* The daemon keeps, per handle VALUE, a queue of messages and a list of   *)
(* threads blocked in remove_completion; no handler checks that the value  *)
(* is a port of the caller.  A message for a value with a waiter goes to   *)
(* the waiter's cache slot and sets the waiter's event, which is           *)
(* manual-reset and is never reset.  Closing the handle leaves the queue,  *)
(* the waiters and the event as they are (handle_close_handle and          *)
(* remove_ntsync_obj), so it is no action.                                 *)
(*                                                                         *)
(* The Wine side is external: NtRemoveIoCompletion calls remove_completion *)
(* and, when that is pending, waits for the port's event, perhaps with a   *)
(* timeout, and then calls get_thread_completion once.                     *)
(***************************************************************************)
EXTENDS Integers, Sequences, FiniteSets, SequencesExt

CONSTANTS Threads, Processes,
          ProcessOf,    \* the process of a thread
          Handles,      \* handle values; every process has its own table
          Jobs,
          NoJob,        \* the object of a handle that is not a job
          None,
          MAX_MSGS,     \* bound: messages posted
          MAX_WAITERS   \* bound: registrations with one port

ASSUME PortAssumption ==
    /\ ProcessOf \in [Threads -> Processes]
    /\ None \notin Jobs \cup Handles \cup {NoJob} /\ NoJob \notin Jobs
    /\ MAX_MSGS \in Nat /\ MAX_WAITERS \in Nat

VARIABLES threads,   \* connected threads
          made,      \* handle values create_completion returned: never again
          event,     \* ntsync_objects: a process's event under a value is set
          queues,    \* completion_queues
          waiters,   \* completion_waiters
          cache,     \* thread_completion_cache
          at,        \* Wine: where a thread is in NtRemoveIoCompletion
          got,       \* not in the code: how often each message was returned
          jobs,      \* jobs
          process_job,
          posted     \* bound: messages posted so far

vars == <<threads, made, event, queues, waiters, cache, at, got, jobs, process_job, posted>>
jobVars == <<jobs, process_job>>

Running == [op |-> "run", h |-> None]
Keys == Processes \X Handles
Ids == 1 .. MAX_MSGS

Init ==
    /\ threads = Threads
    /\ made = {}
    /\ event = [k \in Keys |-> FALSE]
    /\ queues = [h \in Handles |-> <<>>] /\ waiters = [h \in Handles |-> <<>>]
    /\ cache = [t \in Threads |-> None]
    /\ at = [t \in Threads |-> Running]
    /\ got = [i \in Ids |-> 0]
    /\ jobs = [j \in Jobs |-> [processes |-> {}, num |-> 0, h |-> None]]
    /\ process_job = [p \in Processes |-> None]
    /\ posted = 0

Alive(p) == \E t \in threads : ProcessOf[t] = p
Free(t) == t \in threads /\ at[t] = Running

\* CompletionMsg: messages are told apart by their number
Message == posted + 1

\* handle_create_completion: a new event under the value, not set.  A thread of
\* the process that already waits under it waits for the event it replaces.
CreateCompletion(t, h) ==
    LET k == <<ProcessOf[t], h>> IN
    /\ Free(t) /\ k \notin made
    /\ made' = made \cup {k}
    /\ event' = [event EXCEPT ![k] = FALSE]
    /\ at' = [u \in Threads |->
                 IF <<ProcessOf[u], at[u].h>> = k /\ at[u].op = "wait" /\ ~event[k]
                 THEN [at[u] EXCEPT !.op = "replaced"] ELSE at[u]]
    /\ UNCHANGED <<threads, queues, waiters, cache, got, jobVars, posted>>

-----------------------------------------------------------------------------
\* a message for handle value h: to the waiter registered last, else queued
Deliver(h, m) ==
    IF waiters[h] # <<>>
    THEN LET w == Last(waiters[h])
         IN  /\ waiters' = [waiters EXCEPT ![h] = Front(@)]
             /\ cache' = [cache EXCEPT ![w] = m]
             /\ event' = [event EXCEPT ![<<ProcessOf[w], h>>] = TRUE]
             /\ UNCHANGED queues
    ELSE /\ queues' = [queues EXCEPT ![h] = Append(@, m)]
         /\ UNCHANGED <<waiters, cache, event>>

\* handle_add_completion, under any handle value
AddCompletion(t, h) ==
    /\ Free(t) /\ posted < MAX_MSGS
    /\ Deliver(h, Message)
    /\ posted' = posted + 1
    /\ UNCHANGED <<threads, made, at, got, jobVars>>

\* try_connect_named_pipe: t connects to a pipe that set_completion_info, at
\* some time before, bound to the value h
ListenCompleted(t, h) ==
    /\ Free(t) /\ posted < MAX_MSGS
    /\ Deliver(h, Message)
    /\ posted' = posted + 1
    /\ UNCHANGED <<threads, made, at, got, jobVars>>

\* handle_remove_completion with a message queued
RemoveCompletion(t, h) ==
    /\ Free(t) /\ queues[h] # <<>>
    /\ queues' = [queues EXCEPT ![h] = Tail(@)]
    /\ got' = [got EXCEPT ![Head(queues[h])] = @ + 1]
    /\ UNCHANGED <<threads, made, event, waiters, cache, at, jobVars, posted>>

\* handle_remove_completion with none: register, and wait for the event of the
\* value, which is made, not set, if the process has none
BlockOnPort(t, h) ==
    /\ Free(t) /\ queues[h] = <<>>
    /\ Len(waiters[h]) < MAX_WAITERS
    /\ waiters' = [waiters EXCEPT ![h] = Append(@, t)]
    /\ at' = [at EXCEPT ![t] = [op |-> "wait", h |-> h]]
    /\ UNCHANGED <<threads, made, event, queues, cache, got, jobVars, posted>>

\* the wait on the manual-reset event returns
WaitSatisfied(t) ==
    /\ t \in threads /\ at[t].op = "wait" /\ event[<<ProcessOf[t], at[t].h>>]
    /\ at' = [at EXCEPT ![t].op = "woken"]
    /\ UNCHANGED <<threads, made, event, queues, waiters, cache, got, jobVars, posted>>

\* the wait times out; the registration stays
WaitTimeout(t) ==
    /\ t \in threads /\ at[t].op \in {"wait", "replaced"}
    /\ at' = [at EXCEPT ![t] = Running]
    /\ UNCHANGED <<threads, made, event, queues, waiters, cache, got, jobVars, posted>>

\* fault: the cached message is read and left in the cache
GetThreadCompletionKeep(t) ==
    /\ t \in threads /\ at[t].op = "woken"
    /\ at' = [at EXCEPT ![t] = Running]
    /\ got' = IF cache[t] = None THEN got ELSE [got EXCEPT ![cache[t]] = @ + 1]
    /\ UNCHANGED <<threads, made, event, queues, waiters, cache, jobVars, posted>>

\* handle_get_thread_completion: the cached message, or STATUS_PENDING
GetThreadCompletion(t) ==
    /\ t \in threads /\ at[t].op = "woken"
    /\ at' = [at EXCEPT ![t] = Running]
    /\ cache' = [cache EXCEPT ![t] = None]
    /\ got' = IF cache[t] = None THEN got ELSE [got EXCEPT ![cache[t]] = @ + 1]
    /\ UNCHANGED <<threads, made, event, queues, waiters, jobVars, posted>>

-----------------------------------------------------------------------------
\* handle_set_job_completion_port: any value, also of a job that has a port
SetJobCompletionPort(t, j, h) ==
    /\ Free(t)
    /\ jobs' = [jobs EXCEPT ![j].h = h]
    /\ UNCHANGED <<threads, made, event, queues, waiters, cache, at, got, process_job,
                   posted>>

\* fault: a process that another job has counted is not counted again
JoinMoved(job, p) ==
    IF p \in job.processes THEN job
    ELSE [job EXCEPT !.processes = @ \cup {p},
                     !.num = IF process_job[p] = None THEN @ + 1 ELSE @]
Join(job, p) ==
    IF p \in job.processes THEN job
    ELSE [job EXCEPT !.processes = @ \cup {p}, !.num = @ + 1]

\* handle_assign_job: p becomes a process of o, which need not be a job, and
\* stays in the list of the job it had; JOB_OBJECT_MSG_NEW_PROCESS goes to
\* the job's port, also for a process that was in the job
AssignJob(t, o, p) ==
    LET h == IF o \in Jobs THEN jobs[o].h ELSE None
    IN  /\ Free(t) /\ Alive(p)
        /\ jobs' = IF o \in Jobs THEN [jobs EXCEPT ![o] = Join(@, p)] ELSE jobs
        /\ process_job' = [process_job EXCEPT ![p] = o]
        /\ IF h = None
           THEN UNCHANGED <<queues, waiters, cache, event, posted>>
           ELSE /\ posted < MAX_MSGS
                /\ Deliver(h, Message)
                /\ posted' = posted + 1
        /\ UNCHANGED <<threads, made, at, got>>

-----------------------------------------------------------------------------
\* fault: a thread that dies stays registered
DisconnectThreadStale(t) ==
    /\ t \in threads /\ \E u \in threads \ {t} : ProcessOf[u] = ProcessOf[t]
    /\ threads' = threads \ {t}
    /\ cache' = [cache EXCEPT ![t] = None]
    /\ at' = [at EXCEPT ![t] = Running]
    /\ UNCHANGED <<made, event, queues, waiters, got, jobVars, posted>>

\* disconnect_client of a thread that is not its process's last
DisconnectThread(t) ==
    /\ t \in threads /\ \E u \in threads \ {t} : ProcessOf[u] = ProcessOf[t]
    /\ threads' = threads \ {t}
    /\ cache' = [cache EXCEPT ![t] = None]
    /\ waiters' = [h \in Handles |-> SelectSeq(waiters[h], LAMBDA w : w # t)]
    /\ at' = [at EXCEPT ![t] = Running]
    /\ UNCHANGED <<made, event, queues, got, jobVars, posted>>

\* fault: an exit message is queued and the waiters are left as they are
ServeNobody(q, w, c, e, h) == [queue |-> q, waiters |-> w, cache |-> c, event |-> e]

\* The exit path empties the waiter list of port h, last registered first; as
\* many of them as there are messages get one.
ServeWaiters(q, w, c, e, h) ==
    LET served == IF Len(q) < Len(w) THEN Len(q) ELSE Len(w)
        Turn(i) == w[Len(w) - i + 1]
        Turns(t) == {i \in 1 .. served : Turn(i) = t}
    IN  [queue |-> SubSeq(q, served + 1, Len(q)),
         waiters |-> <<>>,
         cache |-> [t \in Threads |->
                       IF Turns(t) = {} THEN c[t]
                       ELSE q[CHOOSE i \in Turns(t) : \A k \in Turns(t) : k <= i]],
         event |-> [k \in Keys |->
                       e[k] \/ \E i \in 1 .. served : k = <<ProcessOf[Turn(i)], h>>]]

Leave(job, p) == [job EXCEPT !.processes = @ \ {p}, !.num = IF @ = 0 THEN 0 ELSE @ - 1]

\* JOB_OBJECT_MSG_EXIT_PROCESS, then JOB_OBJECT_MSG_ACTIVE_PROCESS_ZERO
ExitMessages(job) == IF job.num = 0 THEN <<Message, Message + 1>> ELSE <<Message>>

\* disconnect_client of the last thread of a process: its events are dropped,
\* and the job it was assigned to last, if it is one, is told
DisconnectProcess(t) ==
    LET p == ProcessOf[t]
        j == process_job[p]
        w == [h \in Handles |-> SelectSeq(waiters[h], LAMBDA x : x # t)]
        c == [cache EXCEPT ![t] = None]
        e == [k \in Keys |-> IF k[1] = p THEN FALSE ELSE event[k]]
        port == IF j \in Jobs THEN jobs[j].h ELSE None
    IN  /\ t \in threads /\ threads' = threads \ {t} /\ ~Alive(p)'
        /\ at' = [at EXCEPT ![t] = Running]
        /\ process_job' = [process_job EXCEPT ![p] = None]
        /\ jobs' = IF j \in Jobs THEN [jobs EXCEPT ![j] = Leave(@, p)] ELSE jobs
        /\ IF port = None
           THEN /\ waiters' = w /\ cache' = c /\ event' = e
                /\ UNCHANGED <<queues, posted>>
           ELSE LET ms == ExitMessages(jobs'[j])
                    s == ServeWaiters(queues[port] \o ms, w[port], c, e, port)
                IN  /\ posted + Len(ms) <= MAX_MSGS
                    /\ posted' = posted + Len(ms)
                    /\ queues' = [queues EXCEPT ![port] = s.queue]
                    /\ waiters' = [w EXCEPT ![port] = s.waiters]
                    /\ cache' = s.cache /\ event' = s.event
        /\ UNCHANGED <<made, got>>

Next ==
    \/ \E t \in Threads, h \in Handles : CreateCompletion(t, h)
    \/ \E t \in Threads, h \in Handles : AddCompletion(t, h)
    \/ \E t \in Threads, h \in Handles : ListenCompleted(t, h)
    \/ \E t \in Threads, h \in Handles : RemoveCompletion(t, h)
    \/ \E t \in Threads, h \in Handles : BlockOnPort(t, h)
    \/ \E t \in Threads : WaitSatisfied(t)
    \/ \E t \in Threads : WaitTimeout(t)
    \/ \E t \in Threads : GetThreadCompletion(t)
    \/ \E t \in Threads, j \in Jobs, h \in Handles : SetJobCompletionPort(t, j, h)
    \/ \E t \in Threads, o \in Jobs \cup {NoJob}, p \in Processes : AssignJob(t, o, p)
    \/ \E t \in Threads : DisconnectThread(t)
    \/ \E t \in Threads : DisconnectProcess(t)

Spec == Init /\ [][Next]_vars

-----------------------------------------------------------------------------
Queued(i) == Cardinality({<<h, n>> \in Handles \X Ids :
                             n <= Len(queues[h]) /\ queues[h][n] = i})
Cached(i) == Cardinality({t \in Threads : cache[t] = i})

\* Types; waiters and caches are those of connected threads.
TypeOK ==
    /\ threads \subseteq Threads /\ posted \in 0 .. MAX_MSGS
    /\ made \subseteq Keys /\ event \in [Keys -> BOOLEAN]
    /\ process_job \in [Processes -> Jobs \cup {NoJob, None}]
    /\ \A h \in Handles : ToSet(waiters[h]) \subseteq threads
    /\ \A t \in Threads \ threads : cache[t] = None /\ at[t] = Running

\* No port has a queued message and a registered waiter at once: add, assign,
\* remove, a death and the exit notifications each restore it.  Otherwise a
\* thread sleeps beside a message that is there for it.
NeverQueuedWhileWaited == \A h \in Handles : queues[h] = <<>> \/ waiters[h] = <<>>

\* A message is never in two places, nor returned twice: a completion that is
\* delivered twice completes an I/O request whose memory may be gone.  It may
\* be in none: a message in the cache of a thread that timed out is
\* overwritten by the thread's next one, and goes with the thread.
MessagesOnce == \A i \in Ids : Queued(i) + Cached(i) + got[i] <= (IF i <= posted THEN 1 ELSE 0)

\* num_processes, which decides when JOB_OBJECT_MSG_ACTIVE_PROCESS_ZERO is
\* posted, is not 0 while a live process is assigned to the job, however
\* processes were assigned again, moved between jobs and back, and exited: the
\* notice never comes early.  (It may not come at all: a process that was
\* moved stays in the old job's list.)
ZeroNeverEarly ==
    \A p \in Processes : Alive(p) /\ process_job[p] \in Jobs => jobs[process_job[p]].num > 0
=============================================================================
