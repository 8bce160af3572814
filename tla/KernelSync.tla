----------------------------- MODULE KernelSync -----------------------------
(***************************************************************************)
(* The synchronisation objects of the triskelion kernel module             *)
(* (triskelion_sync.c): semaphores released and taken with a               *)
(* compare-and-exchange loop, mutexes under a spinlock, events whose       *)
(* signalled state is one atomic word, and triskelion_wait, which queues   *)
(* the caller on every object and then loops: mark the task interruptible, *)
(* try the objects, sleep.                                                 *)
(*                                                                         *)
(* A step is one atomic access.  wake_up_interruptible and wake_up_all are *)
(* the same here: add_wait_queue queues non-exclusive entries, all of      *)
(* which are woken, and init_wait gives them a wake function that unlinks  *)
(* an entry when it has woken its task.                                    *)
(***************************************************************************)
EXTENDS Integers, Sequences, FiniteSets

CONSTANTS Threads,
          Semaphores, Mutexes, AutoEvents, ManualEvents,
          WaitCalls,      \* the calls of triskelion_wait: [objs, all, time]
          ReleaseCounts,  \* the counts a semaphore is released with
          MaxCount,       \* max_count of the semaphores
          WORD,           \* 2^32 in the code
          MAX_SETS,       \* bound: how often an event is set or pulsed
          MAX_REC,        \* bound: how often a thread takes a mutex
          None            \* owner_tid = 0

Events == AutoEvents \cup ManualEvents
Objects == Semaphores \cup Mutexes \cup Events
NoCall == [objs |-> <<>>, all |-> FALSE, time |-> "poll"]
NoneTaken == [o \in Objects |-> 0]

ASSUME SyncAssumption ==
    /\ MaxCount \in 0 .. WORD - 1 /\ ReleaseCounts \subseteq 0 .. WORD - 1
    /\ None \notin Threads

VARIABLES val,      \* count of a semaphore, signalled state (0, 1) of an event
          owner, rec,  \* owner_tid and count of a mutex
          queue,    \* the tasks queued on an object's wq
          task,     \* the scheduler state of a thread
          pending,  \* threads with a pending signal
          pc,       \* where a thread is in the module
          call,     \* its triskelion_wait arguments
          idx, old, \* locals: the loop index, the value read for the exchange
          target, amount, \* locals of release, set and pulse
          ret,      \* the result of the wait
          got,      \* not in the code: how often this wait has acquired an object
          ledger,   \* not in the code: what was released minus what was taken
          sets      \* bound: sets and pulses so far

objVars == <<val, owner, rec, ledger, sets>>
opVars == <<target, amount>>
waitVars == <<call, idx, ret, got>>
schedVars == <<queue, task, pending>>
vars == <<objVars, opVars, waitVars, schedVars, pc, old>>

Init ==
    /\ val = [o \in Semaphores \cup Events |-> 0]
    /\ owner = [m \in Mutexes |-> None] /\ rec = [m \in Mutexes |-> 0]
    /\ queue = [o \in Objects |-> {}]
    /\ task = [t \in Threads |-> "running"] /\ pending = {}
    /\ pc = [t \in Threads |-> "user"]
    /\ call = [t \in Threads |-> NoCall]
    /\ idx = [t \in Threads |-> 1] /\ old = [t \in Threads |-> 0]
    /\ target = [t \in Threads |-> None] /\ amount = [t \in Threads |-> 0]
    /\ ret = [t \in Threads |-> "none"] /\ got = [t \in Threads |-> NoneTaken]
    /\ ledger = [s \in Semaphores |-> 0]
    /\ sets = 0

Goto(t, l) == pc' = [pc EXCEPT ![t] = l]
Op(t, o, n) == target' = [target EXCEPT ![t] = o] /\ amount' = [amount EXCEPT ![t] = n]
NoOp(t) == Op(t, None, 0)
Forget(t) == old' = [old EXCEPT ![t] = 0]

-----------------------------------------------------------------------------
\* triskelion_sem_release

SemRelease(t) ==
    /\ pc[t] = "user"
    /\ \E s \in Semaphores, n \in ReleaseCounts : Op(t, s, n)
    /\ Goto(t, "release")
    /\ UNCHANGED <<objVars, waitVars, schedVars, old>>

NewCount(t, base) == (base + amount[t]) % WORD

SemReleaseRead(t) ==
    /\ pc[t] = "release"
    /\ IF NewCount(t, val[target[t]]) > MaxCount
       THEN Goto(t, "user") /\ NoOp(t) /\ UNCHANGED old
       ELSE /\ Goto(t, "release_cas") /\ UNCHANGED opVars
            /\ old' = [old EXCEPT ![t] = val[target[t]]]
    /\ UNCHANGED <<objVars, waitVars, schedVars>>

\* fault: the new count is stored whatever the count is by now
SemReleaseCasBlind(t) ==
    /\ pc[t] = "release_cas"
    /\ val' = [val EXCEPT ![target[t]] = NewCount(t, old[t])]
    /\ ledger' = [ledger EXCEPT ![target[t]] = @ + amount[t]]
    /\ Goto(t, "wake")
    /\ Forget(t)
    /\ UNCHANGED <<owner, rec, sets, opVars, waitVars, schedVars>>

SemReleaseCas(t) ==
    /\ pc[t] = "release_cas"
    /\ IF val[target[t]] = old[t]
       THEN /\ val' = [val EXCEPT ![target[t]] = NewCount(t, old[t])]
            /\ ledger' = [ledger EXCEPT ![target[t]] = @ + amount[t]]
            /\ Goto(t, "wake")
       ELSE Goto(t, "release") /\ UNCHANGED <<val, ledger>>
    /\ Forget(t)
    /\ UNCHANGED <<owner, rec, sets, opVars, waitVars, schedVars>>

\* fault: the last release leaves owner_tid as it is
MutexReleaseOwned(t, tid) ==
    /\ pc[t] = "user"
    /\ \E m \in Mutexes :
        /\ owner[m] = tid
        /\ rec' = [rec EXCEPT ![m] = (@ - 1) % WORD]
        /\ IF rec'[m] = 0
           THEN Op(t, m, 0) /\ Goto(t, "wake")
           ELSE UNCHANGED <<opVars, pc>>
    /\ UNCHANGED <<val, owner, ledger, sets, waitVars, schedVars, old>>

\* triskelion_mutex_release: owner_tid is an argument of the call, so that any
\* thread may name the owner, and 0 (None) matches a mutex that is free; any
\* other value gets EPERM
MutexRelease(t, tid) ==
    /\ pc[t] = "user"
    /\ \E m \in Mutexes :
        /\ owner[m] = tid
        /\ rec' = [rec EXCEPT ![m] = (@ - 1) % WORD]
        /\ IF rec'[m] = 0
           THEN owner' = [owner EXCEPT ![m] = None] /\ Op(t, m, 0) /\ Goto(t, "wake")
           ELSE UNCHANGED <<owner, opVars, pc>>
    /\ UNCHANGED <<val, ledger, sets, waitVars, schedVars, old>>

\* the exchange of triskelion_event_set and triskelion_event_pulse
EventSet(t) ==
    /\ pc[t] = "user" /\ sets < MAX_SETS
    /\ \E e \in Events, l \in {"wake", "pulse_wake"} :
        /\ val' = [val EXCEPT ![e] = 1]
        /\ Op(t, e, 0) /\ Goto(t, l)
    /\ sets' = sets + 1
    /\ UNCHANGED <<owner, rec, ledger, waitVars, schedVars, old>>

EventReset(t) ==
    /\ pc[t] = "user"
    /\ \E e \in Events : val[e] = 1 /\ val' = [val EXCEPT ![e] = 0]
    /\ UNCHANGED <<owner, rec, ledger, sets, opVars, waitVars, schedVars, pc, old>>

\* the kernel's wake_up on a queue of non-exclusive, self-removing entries
WakeUp(o) ==
    LET woken == {u \in queue[o] : task[u] = "interruptible"}
    IN  /\ task' = [u \in Threads |-> IF u \in woken THEN "running" ELSE task[u]]
        /\ queue' = [queue EXCEPT ![o] = @ \ woken]

Wake(t) ==
    /\ pc[t] \in {"wake", "pulse_wake"}
    /\ WakeUp(target[t])
    /\ IF pc[t] = "wake" THEN Goto(t, "user") /\ NoOp(t)
                         ELSE Goto(t, "pulse_clear") /\ UNCHANGED opVars
    /\ UNCHANGED <<objVars, waitVars, pending, old>>

PulseClear(t) ==
    /\ pc[t] = "pulse_clear"
    /\ val' = [val EXCEPT ![target[t]] = 0]
    /\ Goto(t, "user") /\ NoOp(t)
    /\ UNCHANGED <<owner, rec, ledger, sets, waitVars, schedVars, old>>

-----------------------------------------------------------------------------
\* triskelion_wait

Objs(t) == call[t].objs
Last(t) == idx[t] = Len(Objs(t))
Obj(t) == Objs(t)[idx[t]]
Waited(t) == {Objs(t)[i] : i \in 1 .. Len(Objs(t))}

\* registration: the task is still running, so a wake-up leaves its entries
WaitEnter(t) ==
    /\ pc[t] = "user"
    /\ \E c \in WaitCalls :
        /\ call' = [call EXCEPT ![t] = c]
        /\ queue' = [o \in Objects |->
                        IF \E i \in 1 .. Len(c.objs) : c.objs[i] = o
                        THEN queue[o] \cup {t} ELSE queue[o]]
    /\ Goto(t, "top")
    /\ UNCHANGED <<objVars, opVars, idx, ret, got, task, pending, old>>

\* set_current_state(TASK_INTERRUPTIBLE), before the objects are looked at
WaitTop(t) ==
    /\ pc[t] = "top"
    /\ task' = [task EXCEPT ![t] = "interruptible"]
    /\ idx' = [idx EXCEPT ![t] = 1]
    /\ Goto(t, IF call[t].all THEN "check" ELSE "try")
    /\ UNCHANGED <<objVars, opVars, call, ret, got, queue, pending, old>>

Signaled(o, t) ==
    IF o \in Mutexes THEN owner[o] \in {None, t} ELSE val[o] > 0

\* WaitAll: are all objects ready?  One object per step
WaitAllCheck(t) ==
    /\ pc[t] = "check"
    /\ \/ ~Signaled(Obj(t), t) /\ Goto(t, "block") /\ UNCHANGED idx
       \/ /\ Signaled(Obj(t), t) /\ ~Last(t)
          /\ idx' = [idx EXCEPT ![t] = @ + 1] /\ UNCHANGED pc
       \/ /\ Signaled(Obj(t), t) /\ Last(t)
          /\ idx' = [idx EXCEPT ![t] = 1] /\ Goto(t, "try")
    /\ UNCHANGED <<objVars, opVars, call, ret, got, schedVars, old>>

\* try_acquire returned true
Acquired(t) ==
    /\ got' = [got EXCEPT ![t][Obj(t)] = @ + 1]
    /\ IF ~call[t].all \/ Last(t)
       THEN Goto(t, "done") /\ ret' = [ret EXCEPT ![t] = "ok"] /\ UNCHANGED idx
       ELSE Goto(t, "try") /\ idx' = [idx EXCEPT ![t] = @ + 1] /\ UNCHANGED ret

\* fault: a WaitAll that lost an object goes on to the next one
NotAcquiredNext(t) ==
    /\ IF Last(t)
       THEN Goto(t, "block") /\ UNCHANGED idx
       ELSE Goto(t, "try") /\ idx' = [idx EXCEPT ![t] = @ + 1]
    /\ UNCHANGED <<ret, got>>

\* try_acquire returned false: the next object of a WaitAny, or sleep
NotAcquired(t) ==
    /\ IF call[t].all \/ Last(t)
       THEN Goto(t, "block") /\ UNCHANGED idx
       ELSE Goto(t, "try") /\ idx' = [idx EXCEPT ![t] = @ + 1]
    /\ UNCHANGED <<ret, got>>

TryMutex(t) ==
    /\ pc[t] = "try" /\ Obj(t) \in Mutexes
    /\ IF Signaled(Obj(t), t)
       THEN /\ owner[Obj(t)] = t => rec[Obj(t)] < MAX_REC
            /\ owner' = [owner EXCEPT ![Obj(t)] = t]
            /\ rec' = [rec EXCEPT ![Obj(t)] = IF owner[Obj(t)] = None THEN 1 ELSE @ + 1]
            /\ Acquired(t)
       ELSE NotAcquired(t) /\ UNCHANGED <<owner, rec>>
    /\ UNCHANGED <<val, ledger, sets, opVars, call, schedVars, old>>

\* the read of try_acquire; a semaphore's exchange and the reset of an
\* auto-reset event are a second access
TryRead(t) ==
    /\ pc[t] = "try" /\ Obj(t) \notin Mutexes
    /\ \/ val[Obj(t)] = 0 /\ NotAcquired(t) /\ UNCHANGED old
       \/ val[Obj(t)] > 0 /\ Obj(t) \in ManualEvents /\ Acquired(t) /\ UNCHANGED old
       \/ /\ val[Obj(t)] > 0 /\ Obj(t) \notin ManualEvents
          /\ old' = [old EXCEPT ![t] = val[Obj(t)]]
          /\ Goto(t, "take") /\ UNCHANGED <<idx, ret, got>>
    /\ UNCHANGED <<objVars, opVars, call, schedVars>>

TakeSem(t) ==
    /\ pc[t] = "take" /\ Obj(t) \in Semaphores
    /\ IF val[Obj(t)] = old[t]
       THEN /\ val' = [val EXCEPT ![Obj(t)] = old[t] - 1]
            /\ ledger' = [ledger EXCEPT ![Obj(t)] = @ - 1]
            /\ Acquired(t)
       ELSE Goto(t, "try") /\ UNCHANGED <<val, ledger, idx, ret, got>>
    /\ Forget(t)
    /\ UNCHANGED <<owner, rec, sets, opVars, call, schedVars>>

TakeEvent(t) ==
    /\ pc[t] = "take" /\ Obj(t) \in AutoEvents
    /\ val' = [val EXCEPT ![Obj(t)] = 0]
    /\ Acquired(t)
    /\ Forget(t)
    /\ UNCHANGED <<owner, rec, ledger, sets, opVars, call, schedVars>>

\* fault: the task is marked interruptible only when it goes to sleep
WaitBlockLate(t) ==
    /\ pc[t] = "block"
    /\ task' = [task EXCEPT ![t] = "interruptible"]
    /\ IF call[t].time = "poll" \/ t \in pending
       THEN Goto(t, "done") /\ ret' = [ret EXCEPT ![t] = "failed"]
       ELSE Goto(t, "asleep") /\ UNCHANGED ret
    /\ UNCHANGED <<objVars, opVars, call, idx, got, queue, pending, old>>

\* ETIMEDOUT for a poll, EINTR for a pending signal, or schedule()
WaitBlock(t) ==
    /\ pc[t] = "block"
    /\ IF call[t].time = "poll" \/ t \in pending
       THEN Goto(t, "done") /\ ret' = [ret EXCEPT ![t] = "failed"]
       ELSE Goto(t, "asleep") /\ UNCHANGED ret
    /\ UNCHANGED <<objVars, opVars, call, idx, got, schedVars, old>>

\* schedule returns once the task has been made runnable
WaitResume(t) ==
    /\ pc[t] = "asleep" /\ task[t] = "running"
    /\ Goto(t, "top")
    /\ UNCHANGED <<objVars, opVars, waitVars, schedVars, old>>

\* schedule_timeout returns 0
WaitExpire(t) ==
    /\ pc[t] = "asleep" /\ call[t].time = "finite"
    /\ Goto(t, "done") /\ ret' = [ret EXCEPT ![t] = "failed"]
    /\ UNCHANGED <<objVars, opVars, call, idx, got, schedVars, old>>

\* a signal for a thread in the wait makes an interruptible task runnable
Interrupt(t) ==
    /\ pc[t] \in {"top", "check", "try", "take", "block", "asleep"}
    /\ t \notin pending
    /\ pending' = pending \cup {t}
    /\ task' = [task EXCEPT ![t] = "running"]
    /\ UNCHANGED <<objVars, opVars, waitVars, queue, pc, old>>

\* fault: the entries are freed without being unlinked
WaitDoneQueued(t) ==
    /\ pc[t] = "done"
    /\ task' = [task EXCEPT ![t] = "running"]
    /\ pending' = pending \ {t}
    /\ call' = [call EXCEPT ![t] = NoCall] /\ idx' = [idx EXCEPT ![t] = 1]
    /\ got' = [got EXCEPT ![t] = NoneTaken] /\ ret' = [ret EXCEPT ![t] = "none"]
    /\ Goto(t, "user")
    /\ UNCHANGED <<objVars, opVars, queue, old>>

WaitDone(t) ==
    /\ pc[t] = "done"
    /\ task' = [task EXCEPT ![t] = "running"]
    /\ queue' = [o \in Objects |-> IF o \in Waited(t) THEN queue[o] \ {t} ELSE queue[o]]
    /\ pending' = pending \ {t}
    /\ call' = [call EXCEPT ![t] = NoCall] /\ idx' = [idx EXCEPT ![t] = 1]
    /\ got' = [got EXCEPT ![t] = NoneTaken] /\ ret' = [ret EXCEPT ![t] = "none"]
    /\ Goto(t, "user")
    /\ UNCHANGED <<objVars, opVars, old>>

Next ==
    \E t \in Threads :
        \/ SemRelease(t) \/ SemReleaseRead(t) \/ SemReleaseCas(t)
        \/ \E tid \in Threads \cup {None} : MutexRelease(t, tid)
        \/ EventSet(t) \/ EventReset(t)
        \/ Wake(t) \/ PulseClear(t)
        \/ WaitEnter(t) \/ WaitTop(t) \/ WaitAllCheck(t)
        \/ TryMutex(t) \/ TryRead(t) \/ TakeSem(t) \/ TakeEvent(t)
        \/ WaitBlock(t) \/ WaitResume(t) \/ WaitExpire(t) \/ Interrupt(t)
        \/ WaitDone(t)

Spec == Init /\ [][Next]_vars

-----------------------------------------------------------------------------
PcLabels == {"user", "release", "release_cas", "wake", "pulse_wake", "pulse_clear",
             "top", "check", "try", "take", "block", "asleep", "done"}

\* Types; a semaphore stays within its maximum, an event is 0 or 1, and a
\* mutex that has an owner has a recursion count (a free one may have any: a
\* release for owner_tid 0 counts down from 0).
TypeOK ==
    /\ \A s \in Semaphores : val[s] \in 0 .. MaxCount
    /\ \A e \in Events : val[e] \in 0 .. 1
    /\ \A m \in Mutexes : /\ rec[m] \in 0 .. WORD - 1 /\ owner[m] \in Threads \cup {None}
                          /\ owner[m] # None => rec[m] \in 1 .. MAX_REC
    /\ queue \in [Objects -> SUBSET Threads]
    /\ task \in [Threads -> {"running", "interruptible"}]
    /\ pending \subseteq Threads
    /\ pc \in [Threads -> PcLabels]
    /\ call \in [Threads -> WaitCalls \cup {NoCall}]
    /\ \A t \in Threads, o \in Objects : got[t][o] > 0 => o \in Waited(t)
    /\ ret \in [Threads -> {"none", "ok", "failed"}]

\* Whatever the interleaving of releases (sem_release) and waits
\* (try_acquire), a semaphore's count is what was released minus what was
\* taken: the two exchange loops lose and invent nothing.
SemConserved == \A s \in Semaphores : val[s] = ledger[s]

\* A wait-queue entry belongs to a thread that is inside triskelion_wait on
\* that object: the entries, which the wait frees before it returns, never
\* outlive it.
QueuedOnlyWhileWaiting ==
    \A o \in Objects : \A t \in queue[o] : pc[t] # "user" /\ o \in Waited(t)

\* A WaitAny that succeeds has acquired once, one of its objects, and one that
\* fails has acquired nothing, however often try_acquire failed and the loop
\* slept meanwhile.  A WaitAll that succeeds has every one of its objects,
\* although others get in between its check and its acquisitions; one that
\* lost such a race and came round again has taken an object twice.
GrantExact ==
    \A t \in Threads :
        LET taken == {o \in Objects : got[t][o] > 0}
        IN  /\ ret[t] = "ok" /\ call[t].all => taken = Waited(t)
            /\ ret[t] = "ok" /\ ~call[t].all =>
                   Cardinality(taken) = 1 /\ \A o \in taken : got[t][o] = 1
            /\ ret[t] = "failed" /\ ~call[t].all => taken = {}

\* A WaitAny sleeper can have what it waits for
CouldTake(t, o) ==
    /\ pc[t] = "asleep" /\ task[t] = "interruptible"
    /\ ~call[t].all /\ o \in Waited(t) /\ Signaled(o, t)
WakeUnderWay(o) ==
    \E u \in Threads : pc[u] \in {"wake", "pulse_wake", "pulse_clear"} /\ target[u] = o

\* Marking the task interruptible before trying the objects leaves no window
\* between the last try and schedule(): a sleeper still queued on a signalled
\* object is about to be woken by the thread that signalled it.
NoMissedWake ==
    \A t \in Threads, o \in Objects :
        CouldTake(t, o) /\ t \in queue[o] => WakeUnderWay(o)

\* The comment on the wait loop: a thread that lost a race is to "sleep and
\* retry".  A sleeper whose object is signalled again is about to be woken.
LosersRetry ==
    \A t \in Threads, o \in Objects : CouldTake(t, o) => WakeUnderWay(o)
=============================================================================
