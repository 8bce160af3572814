----------------------------- MODULE HandleFds -----------------------------
(***************************************************************************)
(* Handle tables and the daemon descriptors they hold (objects.rs,         *)
(* slab.rs, side_tables.rs and the handlers that move descriptors).        *)
(*                                                                         *)
(* The kernel gives the lowest free number to whatever the daemon opens,   *)
(* in either of its threads.  A reference is a number together with, not   *)
(* in the code, the file it was made for; a closed number may by then      *)
(* name another file.  Descriptors that only one owner ever holds (the     *)
(* ntsync events of files, sections) are left out; the sockets of the I/O  *)
(* thread stand for them.  Handles without a descriptor (the wait handles  *)
(* of pipes) are left out too.                                             *)
(***************************************************************************)
EXTENDS Integers, Sequences, FiniteSets, FiniteSetsExt, SequencesExt

CONSTANTS Procs,
          First,        \* the process that is there from the start
          Fds,          \* descriptor numbers, without 0
          MAX_FILES,    \* bound: files opened
          MAX_HANDLES   \* bound: handles of a process

ASSUME HandleAssumption ==
    /\ First \in Procs /\ Fds \subseteq Nat \ {0} /\ IsFiniteSet(Fds)
    /\ MAX_FILES \in Nat /\ MAX_HANDLES \in Nat

VARIABLES desc,     \* the kernel: the file a number names (0: closed)
          files,    \* bound, and the identity of the next file
          procs,    \* processes that exist
          begun,    \* bound: processes that ever existed
          slots,    \* HeapSlab: the entries of a table, by handle
          refs,     \* fd_refcounts of a table
          data,     \* pipe_handles: data_fd
          pipes,    \* named_pipes
          nts,      \* ntsync_objects: the events whose number a table has too
          reads,    \* pending_pipe_reads: pipe_fd
          conns,    \* sockets of the I/O thread
          closing,  \* handle_close_handle between purge and handles.close
          twice,    \* not in the code: numbers with two owners, or closed for a read
          swapped,  \* not in the code: numbers a pipe took or left past its count
          left      \* not in the code: references no owner is left for

vars == <<desc, files, procs, begun, slots, refs, data, pipes, nts, reads, conns, closing,
          twice, swapped, left>>
history == <<twice, swapped, left>>

Handles == 1 .. MAX_HANDLES
Ref(n, f) == [fd |-> n, file |-> f]
Vacant == Ref(0, 0)
NoFd == Ref(-1, 0)    \* an entry made with the result of a dup that failed
Idle == <<>>

Init ==
    /\ desc = [n \in Fds |-> 0] /\ files = 0
    /\ procs = {First} /\ begun = {First}
    /\ slots = [p \in Procs |-> <<>>]
    /\ refs = [p \in Procs |-> [n \in Fds |-> 0]]
    /\ data = [p \in Procs |-> [h \in Handles |-> 0]]
    /\ pipes = {} /\ nts = [p \in Procs |-> {}] /\ reads = [p \in Procs |-> {}]
    /\ conns = {} /\ closing = Idle
    /\ twice = {} /\ swapped = {} /\ left = {}

-----------------------------------------------------------------------------
\* open, socket, dup: the lowest number that is free in d
Lowest(d) == Min({n \in DOMAIN d : d[n] = 0})
Room(d, k) == Cardinality({n \in Fds : d[n] = 0}) >= k
Opened(d, f) == [d EXCEPT ![Lowest(d)] = f]
\* close of a number; of a closed one, or of none, it is EBADF
Shut(d, n) == IF n \in Fds THEN [d EXCEPT ![n] = 0] ELSE d
ShutAll(d, ns) == [n \in Fds |-> IF n \in ns THEN 0 ELSE d[n]]

\* dup of the number in r: of a closed one, and with no number free, it fails
Dup(d, r) ==
    IF r.fd \notin Fds \/ ~Room(d, 1) THEN [desc |-> d, ref |-> NoFd]
    ELSE IF d[r.fd] = 0 THEN [desc |-> d, ref |-> NoFd]
    ELSE [desc |-> Opened(d, d[r.fd]), ref |-> Ref(Lowest(d), d[r.fd])]

Open(p, h) == h \in DOMAIN slots[p] /\ slots[p][h] # Vacant
MayAllocate(p) == p \in procs /\ Len(slots[p]) < MAX_HANDLES /\ closing = Idle

\* fault: a closed slot is used again before the table grows
InsertReuse(s, r) ==
    LET free == {h \in DOMAIN s : s[h] = Vacant}
    IN  IF free = {} THEN Append(s, r) ELSE [s EXCEPT ![Min(free)] = r]
\* HeapSlab::insert_bump
InsertBump(s, r) == Append(s, r)

\* fd_refcounts with one more entry for n
Counted(c, n) == IF n \in Fds THEN [c EXCEPT ![n] = @ + 1] ELSE c

\* HandleTable::allocate_full
AllocateFull(p, r) ==
    /\ slots' = [slots EXCEPT ![p] = InsertBump(@, r)]
    /\ refs' = [refs EXCEPT ![p] = Counted(@, r.fd)]

\* fault: the last handle of a descriptor goes, the descriptor stays
ReleaseKept(c, d, s, n) ==
    [refs |-> IF n \in Fds /\ c[n] > 0 THEN [c EXCEPT ![n] = @ - 1] ELSE c, desc |-> d]
\* The table gives up a reference to n: by its count or, if n is not counted,
\* when none of the entries s has it.
Release(c, d, s, n) ==
    IF n \notin Fds THEN [refs |-> c, desc |-> d]
    ELSE IF c[n] > 0
    THEN [refs |-> [c EXCEPT ![n] = @ - 1], desc |-> IF c[n] = 1 THEN Shut(d, n) ELSE d]
    ELSE [refs |-> c,
          desc |-> IF \E h \in DOMAIN s : s[h].fd = n THEN d ELSE Shut(d, n)]

\* fault: the entry put in place is not counted
PutAtUncounted(t, h, r) ==
    LET s == [i \in 1 .. Max({h, Len(t.slots)}) |->
                 IF i <= Len(t.slots) THEN t.slots[i] ELSE Vacant]
    IN  [t EXCEPT !.slots = [s EXCEPT ![h] = r]]

\* HandleTable::insert_at, on a table t with the descriptors of the daemon
PutAt(t, h, r) ==
    LET s == [i \in 1 .. Max({h, Len(t.slots)}) |->
                 IF i <= Len(t.slots) THEN t.slots[i] ELSE Vacant]
        o == IF s[h] = Vacant THEN [refs |-> t.refs, desc |-> t.desc]
             ELSE Release(t.refs, t.desc, s, s[h].fd)
    IN  [slots |-> [s EXCEPT ![h] = r],
         refs |-> Counted(o.refs, r.fd), desc |-> o.desc]

-----------------------------------------------------------------------------
\* create_file_handle, alloc_file_handle: a new descriptor under a new handle
CreateFileHandle(p) ==
    /\ MayAllocate(p) /\ files < MAX_FILES /\ Room(desc, 1)
    /\ files' = files + 1
    /\ desc' = Opened(desc, files')
    /\ AllocateFull(p, Ref(Lowest(desc), files'))
    /\ UNCHANGED <<procs, begun, data, pipes, nts, reads, conns, closing, history>>

\* fault: the duplicate shares the number of the original
DupHandleShared(p, h, q) ==
    /\ MayAllocate(q) /\ p \in procs /\ Open(p, h)
    /\ AllocateFull(q, slots[p][h])
    /\ UNCHANGED <<desc, files, procs, begun, data, pipes, nts, reads, conns, closing, history>>

\* handle_dup_handle: a handle of p duplicated into q with libc::dup
DupHandle(p, h, q) ==
    /\ MayAllocate(q) /\ p \in procs /\ Open(p, h)
    /\ desc' = Dup(desc, slots[p][h]).desc
    /\ AllocateFull(q, Dup(desc, slots[p][h]).ref)
    /\ UNCHANGED <<files, procs, begun, data, pipes, nts, reads, conns, closing, history>>

\* handle_dup_handle into a process that is gone: nobody gets the duplicate
DupHandleGone(p, h, q) ==
    /\ q \in begun \ procs /\ closing = Idle /\ p \in procs /\ Open(p, h)
    /\ desc' = Dup(desc, slots[p][h]).desc
    /\ left' = left \cup ({Dup(desc, slots[p][h]).ref} \ {NoFd})
    /\ UNCHANGED <<files, procs, begun, slots, refs, data, pipes, nts, reads, conns, closing,
                   twice, swapped>>

\* handle_new_process: the listed handles of p, those that are open, are
\* duplicated first, and then put into the child's table at the same values; a
\* handle may be listed twice
NewProcess(p, c, list) ==
    LET all == FoldLeft(LAMBDA a, h : LET n == Dup(a.desc, slots[p][h])
                                      IN  [desc |-> n.desc, new |-> Append(a.new, n.ref)],
                        [desc |-> desc, new |-> <<>>], list)
        child == FoldLeft(LAMBDA t, i : PutAt(t, list[i], all.new[i]),
                          [slots |-> <<>>, refs |-> refs[c], desc |-> all.desc],
                          [i \in 1 .. Len(list) |-> i])
    IN  /\ p \in procs /\ c \notin begun /\ closing = Idle
        /\ \A i \in 1 .. Len(list) : Open(p, list[i])
        /\ procs' = procs \cup {c} /\ begun' = begun \cup {c}
        /\ slots' = [slots EXCEPT ![c] = child.slots]
        /\ refs' = [refs EXCEPT ![c] = child.refs]
        /\ desc' = child.desc
        /\ UNCHANGED <<files, data, pipes, nts, reads, conns, closing, history>>

\* handle_close_handle, first half: HandleSideTables::purge closes the data
\* descriptor of a pipe
PurgeHandle(p, h) ==
    /\ p \in procs /\ closing = Idle /\ Open(p, h)
    /\ desc' = Shut(desc, data[p][h])
    /\ data' = [data EXCEPT ![p][h] = 0]
    /\ closing' = <<p, h>>
    /\ UNCHANGED <<files, procs, begun, slots, refs, pipes, nts, reads, conns, history>>

\* second half: HandleTable::close.  The event of a queue handle stays in
\* ntsync_objects (remove_ntsync_obj).
CloseHandle ==
    /\ closing # Idle
    /\ LET p == closing[1]
           h == closing[2]
           s == [slots[p] EXCEPT ![h] = Vacant]
           o == Release(refs[p], desc, s, slots[p][h].fd)
       IN  /\ slots' = [slots EXCEPT ![p] = s]
           /\ refs' = [refs EXCEPT ![p] = o.refs]
           /\ desc' = o.desc
    /\ closing' = Idle
    /\ UNCHANGED <<files, procs, begun, data, pipes, nts, reads, conns, history>>

-----------------------------------------------------------------------------
\* socketpair: the two lowest numbers, for the server end and the client end
Server == Ref(Lowest(desc), files + 1)
Client == Ref(Lowest(Opened(desc, files + 1)), files + 2)
SocketPair == Opened(Opened(desc, files + 1), files + 2)

\* handle_create_named_pipe: the server end is in the table and in data_fd
CreateNamedPipe(p) ==
    LET h == Len(slots[p]) + 1
    IN  /\ MayAllocate(p) /\ files + 2 <= MAX_FILES /\ Room(desc, 2)
        /\ files' = files + 2
        /\ desc' = SocketPair
        /\ AllocateFull(p, Server)
        /\ data' = [data EXCEPT ![p][h] = Server.fd]
        /\ pipes' = pipes \cup {[p |-> p, h |-> h, client |-> Client, state |-> "Listening"]}
        /\ twice' = twice \cup {Server.fd}
        /\ UNCHANGED <<procs, begun, nts, reads, conns, closing, swapped, left>>

\* handle_create_named_pipe without a name: the client end gets a handle of its
\* own in the same table
CreateUnnamedPipe(p) ==
    LET h == Len(slots[p]) + 1
    IN  /\ MayAllocate(p) /\ h < MAX_HANDLES /\ files + 2 <= MAX_FILES /\ Room(desc, 2)
        /\ files' = files + 2
        /\ desc' = SocketPair
        /\ slots' = [slots EXCEPT ![p] = InsertBump(InsertBump(@, Server), Client)]
        /\ refs' = [refs EXCEPT ![p] = Counted(Counted(@, Server.fd), Client.fd)]
        /\ data' = [data EXCEPT ![p][h] = Server.fd]
        /\ twice' = twice \cup {Server.fd}
        /\ UNCHANGED <<procs, begun, pipes, nts, reads, conns, closing, swapped, left>>

\* try_connect_named_pipe: the client gets a duplicate of the client end
ConnectNamedPipe(q, i) ==
    LET r == Ref(Lowest(desc), desc[i.client.fd])
    IN  /\ MayAllocate(q) /\ i \in pipes /\ i.state = "Listening"
        /\ desc[i.client.fd] # 0 /\ Room(desc, 1)
        /\ desc' = Opened(desc, desc[i.client.fd])
        /\ AllocateFull(q, r)
        /\ data' = [data EXCEPT ![q][Len(slots[q]) + 1] = r.fd]
        /\ pipes' = (pipes \ {i}) \cup {[i EXCEPT !.state = "Connected"]}
        /\ twice' = twice \cup {r.fd}
        /\ UNCHANGED <<files, procs, begun, nts, reads, conns, closing, swapped, left>>

\* FSCTL_PIPE_DISCONNECT, and FSCTL_PIPE_LISTEN if the instance is connected:
\* the entry is given the server end of a new socket pair in place, past refs
\* and data.
ResetPipe(i) ==
    LET old == slots[i.p][i.h].fd
    IN  /\ i \in pipes /\ closing = Idle /\ Open(i.p, i.h)
        /\ files + 2 <= MAX_FILES /\ Room(desc, 2)
        /\ files' = files + 2
        /\ desc' = Shut(Shut(SocketPair, old), i.client.fd)
        /\ slots' = [slots EXCEPT ![i.p][i.h] = Server]
        /\ pipes' = (pipes \ {i}) \cup {[i EXCEPT !.client = Client, !.state = "Listening"]}
        /\ swapped' = swapped \cup {old, Server.fd}
        /\ UNCHANGED <<procs, begun, refs, data, nts, reads, conns, closing, twice, left>>

\* the same when the handle was closed: the instance is still there, and the
\* new server end goes nowhere
ResetClosedPipe(i) ==
    /\ i \in pipes /\ closing = Idle /\ ~Open(i.p, i.h)
    /\ files + 2 <= MAX_FILES /\ Room(desc, 2)
    /\ files' = files + 2
    /\ desc' = Shut(SocketPair, i.client.fd)
    /\ pipes' = (pipes \ {i}) \cup {[i EXCEPT !.client = Client, !.state = "Listening"]}
    /\ left' = left \cup {Server}
    /\ UNCHANGED <<procs, begun, slots, refs, data, nts, reads, conns, closing, twice, swapped>>

\* handle_read, FSCTL_PIPE_TRANSCEIVE with no data there yet: the read keeps the
\* number of the entry.  An event cannot be read.
StartRead(p, h) ==
    /\ p \in procs /\ closing = Idle /\ Open(p, h)
    /\ LET n == slots[p][h].fd
       IN  /\ n \in Fds \ nts[p] /\ desc[n] # 0
           /\ reads' = [reads EXCEPT ![p] = @ \cup {n}]
    /\ UNCHANGED <<desc, files, procs, begun, slots, refs, data, pipes, nts, conns, closing,
                   history>>

\* check_pending_pipe_reads finds data, or the end, under the number
FinishRead(p, n) ==
    /\ n \in reads[p] /\ closing = Idle /\ desc[n] # 0
    /\ reads' = [reads EXCEPT ![p] = @ \ {n}]
    /\ UNCHANGED <<desc, files, procs, begun, slots, refs, data, pipes, nts, conns, closing,
                   history>>

\* handle_get_msg_queue_handle, and likewise handle_create_debug_obj and
\* handle_create_device_manager: one number in the table and in ntsync_objects
GetMsgQueueHandle(p) ==
    /\ MayAllocate(p) /\ files < MAX_FILES /\ Room(desc, 1)
    /\ files' = files + 1
    /\ desc' = Opened(desc, files')
    /\ AllocateFull(p, Ref(Lowest(desc), files'))
    /\ nts' = [nts EXCEPT ![p] = @ \cup {Lowest(desc)}]
    /\ twice' = twice \cup {Lowest(desc)}
    /\ UNCHANGED <<procs, begun, data, pipes, reads, conns, closing, swapped, left>>

-----------------------------------------------------------------------------
\* disconnect_client of the last thread, and what becomes of the numbers ns it
\* closes: the table goes as it is, with the numbers that are still open
Disconnected(p, ns) ==
    /\ p \in procs /\ closing = Idle
    /\ desc' = ShutAll(desc, ns)
    /\ procs' = procs \ {p}
    /\ slots' = [slots EXCEPT ![p] = <<>>]
    /\ refs' = [refs EXCEPT ![p] = [n \in Fds |-> 0]]
    /\ pipes' = {i \in pipes : i.p # p}
    /\ nts' = [nts EXCEPT ![p] = {}]
    /\ reads' = [reads EXCEPT ![p] = {}]
    /\ left' = left \cup {r \in {Ref(n, desc'[n]) : n \in Fds} :
                              r.file # 0 /\ \E h \in DOMAIN slots[p] : slots[p][h].fd = r.fd}
    /\ twice' = twice \cup reads[p]
    /\ UNCHANGED <<files, begun, conns, closing, swapped>>
Clients(p) == {i.client.fd : i \in {x \in pipes : x.p = p}}

\* fault: the data descriptors of a dead process are not purged
DisconnectProcessUnpurged(p) ==
    /\ Disconnected(p, nts[p] \cup reads[p] \cup Clients(p))
    /\ UNCHANGED data

\* the events are dropped, the data descriptors, the numbers of pending reads
\* and the client ends closed
DisconnectProcess(p) ==
    /\ Disconnected(p, nts[p] \cup {data[p][h] : h \in Handles} \cup reads[p] \cup Clients(p))
    /\ data' = [data EXCEPT ![p] = [h \in Handles |-> 0]]

\* the I/O thread accepts a connection, at any time
IoAccept ==
    /\ conns = {} /\ files < MAX_FILES /\ Room(desc, 1)
    /\ files' = files + 1
    /\ desc' = Opened(desc, files')
    /\ conns' = {Ref(Lowest(desc), files')}
    /\ UNCHANGED <<procs, begun, slots, refs, data, pipes, nts, reads, closing, history>>

\* disconnect_io_client
IoDisconnect(r) ==
    /\ r \in conns
    /\ desc' = Shut(desc, r.fd)
    /\ conns' = conns \ {r}
    /\ UNCHANGED <<files, procs, begun, slots, refs, data, pipes, nts, reads, closing, history>>

Next ==
    \/ \E p \in Procs : CreateFileHandle(p)
    \/ \E p \in Procs, q \in Procs, h \in Handles : DupHandle(p, h, q)
    \/ \E p \in Procs, q \in Procs, h \in Handles : DupHandleGone(p, h, q)
    \/ \E p \in Procs, c \in Procs \ begun :
           \E list \in BoundedSeq(Handles, 2) : NewProcess(p, c, list)
    \/ \E p \in Procs, h \in Handles : PurgeHandle(p, h)
    \/ CloseHandle
    \/ \E p \in Procs : CreateNamedPipe(p)
    \/ \E p \in Procs : CreateUnnamedPipe(p)
    \/ \E q \in Procs, i \in pipes : ConnectNamedPipe(q, i)
    \/ \E i \in pipes : ResetPipe(i)
    \/ \E i \in pipes : ResetClosedPipe(i)
    \/ \E p \in Procs, h \in Handles : StartRead(p, h)
    \/ \E p \in Procs, n \in Fds : FinishRead(p, n)
    \/ \E p \in Procs : GetMsgQueueHandle(p)
    \/ \E p \in Procs : DisconnectProcess(p)
    \/ IoAccept
    \/ \E r \in conns : IoDisconnect(r)

Spec == Init /\ [][Next]_vars

-----------------------------------------------------------------------------
Entries(p) == {h \in DOMAIN slots[p] : slots[p][h] # Vacant}
\* numbers that something in the daemon will still close
Known ==
    UNION {{slots[p][h].fd : h \in Entries(p)} \cup {data[p][h] : h \in Handles} \cup nts[p]
              : p \in Procs}
    \cup {i.client.fd : i \in pipes} \cup {r.fd : r \in conns}

\* Types; a process that is gone has no table and no side tables.
TypeOK ==
    /\ desc \in [Fds -> 0 .. files] /\ files \in 0 .. MAX_FILES
    /\ procs \subseteq begun /\ begun \subseteq Procs
    /\ \A p \in Procs : Len(slots[p]) <= MAX_HANDLES /\ reads[p] \subseteq Fds
    /\ \A p \in Procs \ procs : /\ slots[p] = <<>> /\ nts[p] = {} /\ reads[p] = {}
                                 /\ \A h \in Handles : data[p][h] = 0

\* HandleTable::allocate: a handle that was closed never names anything again
\* while its process lives, whatever is opened, inherited or reset: Wine's
\* cache of handles may still know the old one.
HandlesNeverReused ==
    [][\A p \in procs \cap procs' : \A h \in DOMAIN slots[p] :
          slots[p][h] = Vacant => slots'[p][h] = Vacant]_vars

\* Every open handle with a descriptor, and every socket of the I/O thread, has
\* a number that names the file it was made for: no close, by this process,
\* another one or the I/O thread, has taken the number away.  Excepted are the
\* handle that is being closed and the numbers that ever had a second owner,
\* as the data descriptor of a pipe or as an event, or that an exit closed for
\* a pending read.  The harm of a second close never goes beyond its number.
FilesStay ==
    /\ \A p \in procs : \A h \in Entries(p) :
          \/ <<p, h>> = closing \/ slots[p][h] = NoFd \/ slots[p][h].fd \in twice
          \/ desc[slots[p][h].fd] = slots[p][h].file
    /\ \A r \in conns : r.fd \in twice \/ desc[r.fd] = r.file

\* HandleTable::fd_refcounts: the count of a number is the number of entries
\* that have it, unless a pipe was reset from or to the number, through put,
\* duplicate, inherit and close, and whoever else closes the number.
RefsExact ==
    \A p \in procs, n \in Fds \ swapped :
        refs[p][n] = Cardinality({h \in Entries(p) : slots[p][h].fd = n})

\* HandleTable::close and the side tables: an open descriptor is one that
\* something still knows and will close.  Descriptors get lost in four ways
\* only: with the table of a process that exits, as the duplicate for a
\* process that is gone, as the new end of a pipe whose handle is closed, and
\* under a number whose count a reset pipe left behind.
LostOnlyKnownWays ==
    \A n \in Fds \ swapped : desc[n] # 0 => n \in Known \/ Ref(n, desc[n]) \in left

\* ipc.rs of the sockets of the I/O thread: "Closing them here would
\* double-close, corrupting newly-allocated fds".  A socket of the I/O thread
\* stays open until that thread closes it.
ConnIsItsSocket == \A r \in conns : desc[r.fd] = r.file
=============================================================================
