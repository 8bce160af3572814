----------------------------- MODULE KernelRelay -----------------------------
(***************************************************************************)
(* The request relay of the triskelion kernel module (triskelion_relay.c,  *)
(* with registration in triskelion_dispatch.c and open/read/write/release  *)
(* in triskelion_main.c).  A Wine thread allocates an entry, queues it on  *)
(* `pending` and sleeps; the daemon's read moves it to `in_flight`, its    *)
(* write unlinks it, fills it and wakes the thread, which frees it.        *)
(*                                                                         *)
(* Short sections under rq->lock are atomic, and what read and write do    *)
(* with an entry after dropping the lock is a step of its own.  abort_all  *)
(* keeps the lock over several steps, because a submitter reads completed  *)
(* without it: `lock` is its holder then.  An access that the code         *)
(* may not make (freed memory, a NULL or stray pointer, a second list_del) *)
(* is recorded in `oops` and stops the system.  Entries are named by their *)
(* request_id.  A daemon makes one system call at a time.                  *)
(***************************************************************************)
EXTENDS Integers, Sequences, FiniteSets, SequencesExt

CONSTANTS Threads, Daemons,
          MAX_REQ,    \* bound: requests submitted
          None

ASSUME RelayAssumption ==
    MAX_REQ \in Nat

Ids == 1 .. MAX_REQ

VARIABLES daemon,     \* ctx->daemon
          is_daemon,  \* the open files with is_daemon set
          pending, in_flight,
          next_id,
          allocated,  \* the entries that are not freed
          completed,  \* the entries with completed set
          status,     \* entry->status once completed
          spc, cur,   \* where a Wine thread is in submit, and its entry
          dpc, dent,  \* where a daemon is in read or write, and its entry
          known,      \* the requests a daemon has read and not answered
          lock,       \* rq->lock while abort_all holds it
          lost,       \* not in the code: the requests whose read failed after
                      \* the dequeue, or was made by a replaced daemon
          oops

entryVars == <<next_id, allocated, completed, status>>
listVars == <<pending, in_flight>>
subVars == <<spc, cur>>
daemonVars == <<dpc, dent, known, lock, lost>>
vars == <<daemon, is_daemon, listVars, entryVars, subVars, daemonVars, oops>>

Init ==
    /\ daemon = None /\ is_daemon = {}
    /\ pending = <<>> /\ in_flight = <<>>
    /\ next_id = 1 /\ allocated = {} /\ completed = {}
    /\ status = [i \in Ids |-> "none"]
    /\ spc = [t \in Threads |-> "user"] /\ cur = [t \in Threads |-> None]
    /\ dpc = [d \in Daemons |-> "closed"] /\ dent = [d \in Daemons |-> None]
    /\ known = [d \in Daemons |-> {}]
    /\ lock = None /\ lost = {}
    /\ oops = {}

Listed == ToSet(pending) \cup ToSet(in_flight)
SubmitAt(t, l) == oops = {} /\ spc[t] = l
DaemonAt(d, l) == oops = {} /\ dpc[d] = l

-----------------------------------------------------------------------------
\* triskelion_relay_submit

\* `if (!ctx->daemon)`: no lock is held
SubmitCheck(t) ==
    /\ SubmitAt(t, "user") /\ daemon # None
    /\ spc' = [spc EXCEPT ![t] = "checked"]
    /\ UNCHANGED <<daemon, is_daemon, listVars, entryVars, cur, daemonVars, oops>>

SubmitEnqueue(t) ==
    /\ SubmitAt(t, "checked") /\ next_id <= MAX_REQ /\ lock = None
    /\ next_id' = next_id + 1
    /\ allocated' = allocated \cup {next_id}
    /\ pending' = Append(pending, next_id)
    /\ spc' = [spc EXCEPT ![t] = "waiting"] /\ cur' = [cur EXCEPT ![t] = next_id]
    /\ UNCHANGED <<daemon, is_daemon, in_flight, completed, status, daemonVars, oops>>

Leave(t) ==
    /\ allocated' = allocated \ {cur[t]}
    /\ spc' = [spc EXCEPT ![t] = "user"] /\ cur' = [cur EXCEPT ![t] = None]

\* the wait sees `completed` (it reads it without the lock), copies, frees
SubmitReturn(t) ==
    /\ SubmitAt(t, "waiting") /\ cur[t] \in completed
    /\ Leave(t)
    /\ UNCHANGED <<daemon, is_daemon, listVars, next_id, completed, status,
                   daemonVars, oops>>

\* fault: an interrupted submitter frees its entry without unlinking it
SubmitInterruptedLinked(t) ==
    /\ SubmitAt(t, "waiting") /\ cur[t] \notin completed
    /\ Leave(t)
    /\ UNCHANGED <<daemon, is_daemon, listVars, next_id, completed, status,
                   daemonVars, oops>>

\* a signal before completion: unlink and free, wherever the entry is
SubmitInterrupted(t) ==
    /\ SubmitAt(t, "waiting") /\ cur[t] \notin completed /\ lock = None
    /\ pending' = SelectSeq(pending, LAMBDA i : i # cur[t])
    /\ in_flight' = SelectSeq(in_flight, LAMBDA i : i # cur[t])
    /\ oops' = IF cur[t] \in Listed THEN oops ELSE oops \cup {"list_del"}
    /\ Leave(t)
    /\ UNCHANGED <<daemon, is_daemon, next_id, completed, status, daemonVars>>

-----------------------------------------------------------------------------
\* triskelion_relay_abort_all, by a daemon that replaces another or closes

AbortLock(d) ==
    /\ oops = {} /\ dpc[d] \in {"replacing", "releasing"} /\ lock = None
    /\ lock' = d
    /\ UNCHANGED <<daemon, is_daemon, listVars, entryVars, subVars, dpc, dent,
                   known, lost, oops>>

\* fault: the loop also meets entries that have been answered
AbortNextAny(d) ==
    /\ oops = {} /\ lock = d /\ dent[d] = None
    /\ \E i \in allocated :
        /\ pending' = SelectSeq(pending, LAMBDA x : x # i)
        /\ in_flight' = SelectSeq(in_flight, LAMBDA x : x # i)
        /\ completed' = completed \cup {i}
        /\ status' = [status EXCEPT ![i] = "EIO"]
        /\ dent' = [dent EXCEPT ![d] = i]
    /\ UNCHANGED <<daemon, is_daemon, next_id, allocated, subVars, dpc, known,
                   lock, lost, oops>>

\* the next entry, of `pending` first: unlink it, set status and completed
AbortNext(d) ==
    LET i == Head(pending \o in_flight)
    IN  /\ oops = {} /\ lock = d /\ dent[d] = None /\ Listed # {}
        /\ pending' = SelectSeq(pending, LAMBDA x : x # i)
        /\ in_flight' = SelectSeq(in_flight, LAMBDA x : x # i)
        /\ completed' = completed \cup {i}
        /\ status' = [status EXCEPT ![i] = "EIO"]
        /\ dent' = [dent EXCEPT ![d] = i]
        /\ UNCHANGED <<daemon, is_daemon, next_id, allocated, subVars, dpc, known,
                       lock, lost, oops>>

Touch(d) ==
    oops' = IF dent[d] \in allocated THEN oops ELSE oops \cup {"use_after_free"}

\* wake_up_interruptible(&entry->done_wq), which the submitter may have freed
AbortWake(d) ==
    /\ oops = {} /\ lock = d /\ dent[d] # None
    /\ Touch(d)
    /\ dent' = [dent EXCEPT ![d] = None]
    /\ UNCHANGED <<daemon, is_daemon, listVars, entryVars, subVars, dpc, known,
                   lock, lost>>

\* unlock; the new daemon is registered, or the closed one freed
AbortDone(d) ==
    /\ oops = {} /\ lock = d /\ dent[d] = None /\ Listed = {}
    /\ lock' = None
    /\ \/ /\ dpc[d] = "replacing"
          /\ daemon' = d /\ is_daemon' = is_daemon \cup {d}
          /\ dpc' = [dpc EXCEPT ![d] = "user"]
       \/ /\ dpc[d] = "releasing"
          /\ is_daemon' = is_daemon \ {d}
          /\ dpc' = [dpc EXCEPT ![d] = "closed"]
          /\ UNCHANGED daemon
    /\ UNCHANGED <<listVars, entryVars, subVars, dent, known, lost, oops>>

-----------------------------------------------------------------------------
\* global_lock is held throughout a replacement
GlobalLockFree == \A d \in Daemons : dpc[d] # "replacing"

\* fault: the stale daemon's requests are queued again for the new one
RegisterRequeue(d) ==
    /\ DaemonAt(d, "closed") /\ GlobalLockFree
    /\ IF daemon # None
       THEN /\ is_daemon' = (is_daemon \ {daemon}) \cup {d}
            /\ pending' = in_flight \o pending /\ in_flight' = <<>>
       ELSE is_daemon' = is_daemon \cup {d} /\ UNCHANGED listVars
    /\ daemon' = d
    /\ dpc' = [dpc EXCEPT ![d] = "user"]
    /\ UNCHANGED <<entryVars, subVars, dent, known, lock, lost, oops>>

\* open, then do_register_daemon: a daemon that is still registered is stale
\* and its requests are aborted before the new one is entered
Register(d) ==
    /\ DaemonAt(d, "closed") /\ GlobalLockFree
    /\ \/ /\ daemon # None
          /\ is_daemon' = is_daemon \ {daemon}
          /\ dpc' = [dpc EXCEPT ![d] = "replacing"]
          /\ UNCHANGED daemon
       \/ /\ daemon = None
          /\ daemon' = d /\ is_daemon' = is_daemon \cup {d}
          /\ dpc' = [dpc EXCEPT ![d] = "user"]
    /\ UNCHANGED <<listVars, entryVars, subVars, dent, known, lock, lost, oops>>

\* triskelion_release tests is_daemon without a lock
Release(d) ==
    /\ DaemonAt(d, "user")
    /\ dpc' = [dpc EXCEPT ![d] = IF d \in is_daemon THEN "closing" ELSE "closed"]
    /\ known' = [known EXCEPT ![d] = {}]
    /\ UNCHANGED <<daemon, is_daemon, listVars, entryVars, subVars, dent, lock,
                   lost, oops>>

\* daemon = NULL under global_lock, then abort_all
ReleaseUnset(d) ==
    /\ DaemonAt(d, "closing") /\ GlobalLockFree
    /\ daemon' = IF daemon = d THEN None ELSE daemon
    /\ dpc' = [dpc EXCEPT ![d] = "releasing"]
    /\ UNCHANGED <<is_daemon, listVars, entryVars, subVars, dent, known, lock,
                   lost, oops>>

-----------------------------------------------------------------------------
\* triskelion_relay_daemon_read

\* the is_daemon test of triskelion_read, then sleep on daemon_wq
ReadWait(d) ==
    /\ DaemonAt(d, "user") /\ d \in is_daemon
    /\ dpc' = [dpc EXCEPT ![d] = "reading"]
    /\ UNCHANGED <<daemon, is_daemon, listVars, entryVars, subVars, dent, known,
                   lock, lost, oops>>

\* interrupted, or another reader was faster
ReadAgain(d) ==
    /\ DaemonAt(d, "reading") /\ pending = <<>>
    /\ dpc' = [dpc EXCEPT ![d] = "user"]
    /\ UNCHANGED <<daemon, is_daemon, listVars, entryVars, subVars, dent, known,
                   lock, lost, oops>>

\* fault: the entry is not taken off `pending`
ReadDequeuePeek(d) ==
    /\ DaemonAt(d, "reading") /\ pending # <<>> /\ lock = None
    /\ in_flight' = Append(in_flight, Head(pending))
    /\ dent' = [dent EXCEPT ![d] = Head(pending)]
    /\ dpc' = [dpc EXCEPT ![d] = "dequeued"]
    /\ UNCHANGED <<daemon, is_daemon, pending, entryVars, subVars, known, lock,
                   lost, oops>>

ReadDequeue(d) ==
    /\ DaemonAt(d, "reading") /\ pending # <<>> /\ lock = None
    /\ pending' = Tail(pending)
    /\ in_flight' = Append(in_flight, Head(pending))
    /\ dent' = [dent EXCEPT ![d] = Head(pending)]
    /\ dpc' = [dpc EXCEPT ![d] = "dequeued"]
    /\ lost' = IF d \in is_daemon THEN lost ELSE lost \cup {Head(pending)}
    /\ UNCHANGED <<daemon, is_daemon, entryVars, subVars, known, lock, oops>>

\* build the header and copy the payload; ENOSPC, EFAULT and a failed
\* descriptor installation leave the entry in flight
ReadCopy(d) ==
    /\ DaemonAt(d, "dequeued")
    /\ Touch(d)
    /\ \/ known' = [known EXCEPT ![d] = @ \cup {dent[d]}] /\ UNCHANGED lost
       \/ lost' = lost \cup {dent[d]} /\ UNCHANGED known
    /\ dpc' = [dpc EXCEPT ![d] = "user"] /\ dent' = [dent EXCEPT ![d] = None]
    /\ UNCHANGED <<daemon, is_daemon, listVars, entryVars, subVars, lock>>

-----------------------------------------------------------------------------
\* triskelion_relay_daemon_write

\* The search hands the macro its cursors the other way round: after a first
\* entry that does not match the next one is NULL, and over an empty list
\* `entry` is left pointing at the list head.
WriteFind(d) ==
    /\ DaemonAt(d, "user") /\ d \in is_daemon /\ lock = None
    /\ \E i \in known[d] :
        /\ known' = [known EXCEPT ![d] = @ \ {i}]
        /\ \/ /\ in_flight # <<>> /\ Head(in_flight) = i
              /\ in_flight' = Tail(in_flight)
              /\ dent' = [dent EXCEPT ![d] = i]
              /\ dpc' = [dpc EXCEPT ![d] = "matched"]
              /\ UNCHANGED oops
           \/ /\ in_flight # <<>> /\ Head(in_flight) # i
              /\ oops' = oops \cup {"null_pointer"}
              /\ UNCHANGED <<in_flight, dent, dpc>>
           \/ /\ in_flight = <<>>
              /\ oops' = oops \cup {"stray_pointer"}
              /\ UNCHANGED <<in_flight, dent, dpc>>
    /\ UNCHANGED <<daemon, is_daemon, pending, entryVars, subVars, lock, lost>>

\* fault: an entry whose reply descriptors cannot be taken is not completed
WriteCompleteOk(d) ==
    /\ DaemonAt(d, "matched")
    /\ Touch(d)
    /\ \/ completed' = completed \cup {dent[d]} /\ status' = [status EXCEPT ![dent[d]] = "ok"]
       \/ UNCHANGED <<completed, status>>
    /\ dpc' = [dpc EXCEPT ![d] = "user"] /\ dent' = [dent EXCEPT ![d] = None]
    /\ UNCHANGED <<daemon, is_daemon, listVars, next_id, allocated, subVars, known,
                   lock, lost>>

\* copy the reply, take the descriptors, set status and completed
WriteComplete(d) ==
    /\ DaemonAt(d, "matched")
    /\ Touch(d)
    /\ completed' = completed \cup {dent[d]}
    /\ \E s \in {"ok", "EFAULT"} : status' = [status EXCEPT ![dent[d]] = s]
    /\ dpc' = [dpc EXCEPT ![d] = "waking"]
    /\ UNCHANGED <<daemon, is_daemon, listVars, next_id, allocated, subVars, dent, known,
                   lock, lost>>

\* wake_up_interruptible(&entry->done_wq)
WriteWake(d) ==
    /\ DaemonAt(d, "waking")
    /\ Touch(d)
    /\ dpc' = [dpc EXCEPT ![d] = "user"] /\ dent' = [dent EXCEPT ![d] = None]
    /\ UNCHANGED <<daemon, is_daemon, listVars, entryVars, subVars, known, lock, lost>>

Next ==
    \/ \E t \in Threads : \/ SubmitCheck(t) \/ SubmitEnqueue(t)
                          \/ SubmitReturn(t) \/ SubmitInterrupted(t)
    \/ \E d \in Daemons : \/ Register(d) \/ Release(d) \/ ReleaseUnset(d)
                          \/ AbortLock(d) \/ AbortNext(d) \/ AbortWake(d) \/ AbortDone(d)
                          \/ ReadWait(d) \/ ReadAgain(d) \/ ReadDequeue(d) \/ ReadCopy(d)
                          \/ WriteFind(d) \/ WriteComplete(d) \/ WriteWake(d)

Spec == Init /\ [][Next]_vars

-----------------------------------------------------------------------------
\* Types, and no entry is linked into the lists twice.
TypeOK ==
    /\ daemon \in Daemons \cup {None} /\ is_daemon \subseteq Daemons
    /\ pending \in Seq(Ids) /\ in_flight \in Seq(Ids)
    /\ IsInjective(pending \o in_flight)
    /\ next_id \in 1 .. MAX_REQ + 1
    /\ allocated \subseteq Ids /\ completed \subseteq Ids
    /\ status \in [Ids -> {"none", "ok", "EFAULT", "EIO"}]
    /\ spc \in [Threads -> {"user", "checked", "waiting"}]
    /\ cur \in [Threads -> Ids \cup {None}]
    /\ dpc \in [Daemons -> {"closed", "user", "replacing", "closing", "releasing",
                            "reading", "dequeued", "matched", "waking"}]
    /\ lock \in Daemons \cup {None} /\ lost \subseteq Ids
    /\ dent \in [Daemons -> Ids \cup {None}]
    /\ known \in [Daemons -> SUBSET Ids]

\* While nothing has gone wrong, an unanswered request of a sleeping submitter
\* waits for a reader, or is held by a daemon_read or daemon_write, or known to
\* a daemon that is registered and may answer it, or an abort_all that will
\* complete it is on its way.  A read that fails after the dequeue and a read
\* by a replaced daemon do strand a request (`lost`); nothing else does, in
\* whatever order submitters, interruptions, replacement and release come.
StrandedOnlyByRead ==
    oops = {} =>
        \A t \in Threads : LET i == cur[t] IN
            spc[t] = "waiting" /\ i \notin completed =>
                \/ i \in ToSet(pending)
                \/ \E d \in Daemons : dpc[d] = "matched" /\ dent[d] = i
                \/ /\ i \in ToSet(in_flight)
                   /\ \/ \E d \in is_daemon :
                            i \in known[d] \/ (dpc[d] = "dequeued" /\ dent[d] = i)
                      \/ \E d \in Daemons :
                            dpc[d] \in {"replacing", "closing", "releasing"}
                      \/ i \in lost

\* The lists hold only entries that are allocated and not completed: what
\* abort_all and daemon_read take off them is memory they may use.
ListsHoldLiveEntries == Listed \subseteq allocated \ completed

\* However reads race replacement and release of daemons, a request is handed
\* to one daemon only.
HandedOnce ==
    \A d1, d2 \in Daemons : d1 # d2 => known[d1] \cap known[d2] = {}

\* The outcome of a request is decided once: abort_all never turns an answer
\* into EIO, and no late daemon_write overwrites an EIO.
DecidedOnce ==
    [][\A i \in completed : status'[i] = status[i]]_vars
=============================================================================
