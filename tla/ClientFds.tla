----------------------------- MODULE ClientFds -----------------------------
(***************************************************************************)
(* Descriptor numbers in the triskelion daemon (csp_loop.rs, ipc.rs and    *)
(* new_thread/init_first_thread in event_loop/thread.rs).  Both threads    *)
(* name a client by the number of its request descriptor, and a reply by   *)
(* the number of its reply descriptor, while the kernel hands out the      *)
(* lowest free number: the I/O thread closes a descriptor before the       *)
(* authority hears of it, and the authority closes and dups descriptors    *)
(* whose numbers are still in the reply channel.                           *)
(*                                                                         *)
(* The channels are unbounded here (CspLoop models their capacity).  A     *)
(* thread sends two kinds of request: init, which passes its reply pipe,   *)
(* and new_thread, which passes the pipe of the thread it creates.  The    *)
(* wait descriptor that travels with a reply pipe is left out.             *)
(***************************************************************************)
EXTENDS Integers, Sequences, FiniteSets, FiniteSetsExt

CONSTANTS Primaries,  \* threads that connect to the listening socket
          Children,   \* threads that are created with new_thread
          MAX_FD      \* the descriptor numbers in play are 1 .. MAX_FD

Threads == Primaries \cup Children
Fds == 1 .. MAX_FD
LISTENER == 0
None == 0

VARIABLES phase,      \* how far a Wine thread has come
          alive,      \* the threads whose end of the request pipe is open
          unread,     \* the threads with a request in their pipe
          child,      \* the thread a new_thread request is about
          file,       \* the daemon's descriptor table
          io,         \* where the I/O thread is
          events,     \* the numbers left of the epoll batch
          io_clients, \* request number -> msg number (None: absent)
          msg_users,  \* msg_fd_clients: msg number -> request numbers
          reply_fds,  \* client_reply_fds: request number -> reply number
          req_ch, reply_ch,
          clients,    \* EventLoop.clients, by request number
          known       \* known_io_fds

threadVars == <<phase, alive, unread, child>>
ioVars == <<io_clients, msg_users, reply_fds>>
vars == <<phase, alive, unread, child, file, io, events, io_clients, msg_users,
          reply_fds, req_ch, reply_ch, clients, known>>

NoFile == [kind |-> "free", who |-> None]
File(kind, t) == [kind |-> kind, who |-> t]
\* `who` is not in the code: the thread the message is about
Msg(kind, f, passed, t) == [req |-> kind, fd |-> f, passed |-> passed, who |-> t]
NoClient == [who |-> None, msg |-> None, reply |-> None]

\* the kernel's rule: the lowest number that is not in use
Free(table) == {f \in Fds : table[f] = NoFile}
Lowest(table) == Min(Free(table))
Open(table, f, x) == [table EXCEPT ![f] = x]
Close(table, f) == IF f = None THEN table ELSE [table EXCEPT ![f] = NoFile]

Init ==
    /\ phase = [t \in Threads |-> "off"]
    /\ alive = {} /\ unread = {}
    /\ child = [t \in Threads |-> None]
    /\ file = [f \in Fds |-> NoFile]
    /\ io = "poll" /\ events = {}
    /\ io_clients = [f \in Fds |-> None]
    /\ msg_users = [f \in Fds |-> {}]
    /\ reply_fds = [f \in Fds |-> None]
    /\ req_ch = <<>> /\ reply_ch = <<>>
    /\ clients = [f \in Fds |-> NoClient]
    /\ known = {}
-----------------------------------------------------------------------------
(* The Wine threads *)

Connect(t) ==
    /\ phase[t] = "off"
    /\ phase' = [phase EXCEPT ![t] = "backlog"]
    /\ alive' = alive \cup {t}
    /\ UNCHANGED <<unread, child, file, io, events, ioVars, req_ch, reply_ch,
                   clients, known>>

\* init_first_thread or init_thread
SendInit(t) ==
    /\ t \in alive /\ phase[t] = "up"
    /\ phase' = [phase EXCEPT ![t] = "init"]
    /\ unread' = unread \cup {t}
    /\ UNCHANGED <<alive, child, file, io, events, ioVars, req_ch, reply_ch,
                   clients, known>>

SendNewThread(t, c) ==
    /\ t \in alive /\ phase[t] = "ready" /\ phase[c] = "off"
    /\ phase' = [phase EXCEPT ![t] = "spawn", ![c] = "created"]
    /\ alive' = alive \cup {c}
    /\ child' = [child EXCEPT ![t] = c]
    /\ unread' = unread \cup {t}
    /\ UNCHANGED <<file, io, events, ioVars, req_ch, reply_ch, clients, known>>

Die(t) ==
    /\ t \in alive
    /\ phase[t] # "backlog"
    /\ alive' = alive \ {t}
    /\ UNCHANGED <<phase, unread, child, file, io, events, ioVars, req_ch,
                   reply_ch, clients, known>>
-----------------------------------------------------------------------------
(* The I/O thread *)

Readable ==
    {f \in Fds : /\ io_clients[f] # None
                 /\ file[f].kind = "req"
                 /\ file[f].who \in unread \/ file[f].who \notin alive}
      \cup {f \in Fds : /\ msg_users[f] # {}
                        /\ file[f].kind = "msg" /\ file[f].who \notin alive}
      \cup {s \in {LISTENER} : \E t \in Primaries : phase[t] = "backlog"}

Poll ==
    /\ io = "poll"
    /\ events' = Readable
    /\ io' = "batch"
    /\ UNCHANGED <<threadVars, file, ioVars, req_ch, reply_ch, clients, known>>

\* accept4, pipe2, send the write end and close it, dup the read end and close
\* it: the msg socket gets the lowest number, the dup the third lowest
HandleAccept(t) ==
    LET m == Lowest(file)
        r == Lowest(Open(file, m, File("msg", t)))
        f == Lowest(Open(Open(file, m, File("msg", t)), r, File("req", t)))
    IN  /\ io = "batch" /\ LISTENER \in events
        /\ Cardinality(Free(file)) >= 3
        /\ phase[t] = "backlog"
        /\ events' = events \ {LISTENER}
        /\ phase' = [phase EXCEPT ![t] = "up"]
        /\ file' = Open(Open(file, m, File("msg", t)), f, File("req", t))
        /\ io_clients' = [io_clients EXCEPT ![f] = m]
        /\ msg_users' = [msg_users EXCEPT ![m] = @ \cup {f}]
        /\ req_ch' = Append(req_ch, Msg("connect", f, m, t))
        /\ UNCHANGED <<alive, unread, child, io, reply_fds, reply_ch, clients,
                       known>>

\* drain_msg_fd finds nothing, or the number is not registered any more
IgnoreEvent(f) ==
    /\ io = "batch" /\ f \in events \ {LISTENER}
    /\ msg_users[f] # {} \/ io_clients[f] = None
    /\ events' = events \ {f}
    /\ UNCHANGED <<threadVars, file, io, ioVars, req_ch, reply_ch, clients,
                   known>>

ClientReadable(f) ==
    /\ io = "batch" /\ f \in events \ {LISTENER}
    /\ msg_users[f] = {} /\ io_clients[f] # None
    /\ events' = events \ {f}

HasRequest(f) == file[f].kind = "req" /\ file[f].who \in unread

\* drain the msg socket, which carries the descriptor the request passes, and
\* forward the request with it
ReadRequest(f) ==
    LET t == file[f].who
        k == Lowest(file)
        kind == IF child[t] = None THEN "init" ELSE "new_thread"
        x == IF child[t] = None THEN File("reply", t) ELSE File("req", child[t])
    IN  /\ ClientReadable(f)
        /\ Free(file) # {}
        /\ HasRequest(f)
        /\ unread' = unread \ {t}
        /\ file' = Open(file, k, x)
        /\ req_ch' = Append(req_ch, Msg(kind, f, k, t))
        /\ UNCHANGED <<phase, alive, child, io, ioVars, reply_ch, clients, known>>

\* n <= 0: end of file, or nothing to read yet (EAGAIN)
DisconnectIoClient(f) ==
    LET m == io_clients[f]
        last == msg_users[m] = {f}
    IN  /\ ClientReadable(f)
        /\ ~HasRequest(f)
        /\ file' = Close(Close(file, f), IF last THEN m ELSE None)
        /\ io_clients' = [io_clients EXCEPT ![f] = None]
        /\ msg_users' = [msg_users EXCEPT ![m] = @ \ {f}]
        /\ reply_fds' = [reply_fds EXCEPT ![f] = None]
        /\ req_ch' = Append(req_ch, Msg("disconnect", f, None, file[f].who))
        /\ UNCHANGED <<threadVars, io, reply_ch, clients, known>>

BatchDone ==
    /\ io = "batch" /\ events = {}
    /\ io' = "drain"
    /\ UNCHANGED <<threadVars, file, events, ioVars, req_ch, reply_ch, clients,
                   known>>

\* effects first, then remember the reply number and write to it
ReplyTarget(m) == IF m.reply # None THEN m.reply
                  ELSE IF reply_fds[m.fd] # None THEN reply_fds[m.fd] ELSE m.fd

ExecuteReply ==
    LET m == Head(reply_ch)
        new == {f \in m.registers : io_clients[f] = None}
        reader == file[ReplyTarget(m)].who
    IN  /\ io = "drain" /\ reply_ch # <<>>
        /\ reply_ch' = Tail(reply_ch)
        /\ io_clients' = [f \in Fds |-> IF f \in new THEN m.msg ELSE io_clients[f]]
        /\ msg_users' = IF new = {} THEN msg_users
                        ELSE [msg_users EXCEPT ![m.msg] = @ \cup new]
        /\ reply_fds' = [reply_fds EXCEPT
                           ![m.fd] = IF m.reply # None THEN m.reply ELSE @]
        /\ phase' = IF file[ReplyTarget(m)].kind # "reply" THEN phase
                    ELSE [t \in Threads |->
                            IF t = reader /\ phase[t] = "init" THEN "ready"
                            ELSE IF t = reader /\ phase[t] = "spawn" THEN "idle"
                            ELSE IF t = child[reader] /\ phase[reader] = "spawn"
                                 THEN "up"
                            ELSE phase[t]]
        /\ UNCHANGED <<alive, unread, child, file, io, events, req_ch, clients,
                       known>>

DrainDone ==
    /\ io = "drain" /\ reply_ch = <<>>
    /\ io' = "poll"
    /\ UNCHANGED <<threadVars, file, events, ioVars, req_ch, reply_ch, clients,
                   known>>
-----------------------------------------------------------------------------
(* The authority thread *)

Receive(kind) ==
    /\ req_ch # <<>>
    /\ Head(req_ch).req = kind
    /\ req_ch' = Tail(req_ch)

RegisterClient ==
    LET m == Head(req_ch)
        new == clients[m.fd] = NoClient
    IN  /\ Receive("connect")
        /\ clients' = IF new THEN [clients EXCEPT ![m.fd] =
                                     [who |-> m.who, msg |-> m.passed,
                                      reply |-> None]]
                      ELSE clients
        /\ known' = IF new THEN known \cup {m.fd} ELSE known
        /\ UNCHANGED <<threadVars, file, io, events, ioVars, reply_ch>>

\* dropping the Client closes its reply descriptor
DisconnectClient ==
    LET f == Head(req_ch).fd
    IN  /\ Receive("disconnect")
        /\ clients' = [clients EXCEPT ![f] = NoClient]
        /\ file' = Close(file, clients[f].reply)
        /\ known' = known \ {f}
        /\ UNCHANGED <<threadVars, io, events, ioVars, reply_ch>>

Reply(m, reply, registers, msg) ==
    [fd |-> m.fd, reply |-> reply, registers |-> registers, msg |-> msg,
     caller |-> m.who]

InitThread ==
    LET m == Head(req_ch)
    IN  /\ Receive("init")
        /\ clients' = IF clients[m.fd] = NoClient THEN clients
                      ELSE [clients EXCEPT ![m.fd].reply = m.passed]
        /\ reply_ch' = Append(reply_ch, Reply(m, clients'[m.fd].reply, {}, None))
        /\ UNCHANGED <<threadVars, file, io, events, ioVars, known>>

\* dup the passed pipe to the lowest number, close the original and insert the
\* new client there, which is announced to the I/O thread if the map grew; a
\* client already under that number is dropped with its reply descriptor
NewThread ==
    LET m == Head(req_ch)
        f == Lowest(file)
        grew == clients[f] = NoClient
        fresh == IF grew THEN {f} \ known ELSE {}
    IN  /\ Receive("new_thread")
        /\ Free(file) # {}
        /\ clients[m.fd] # NoClient
        /\ file' = Close(Close(Open(file, f, file[m.passed]), m.passed),
                         clients[f].reply)
        /\ clients' = [clients EXCEPT ![f] = [who |-> file[m.passed].who,
                                              msg |-> clients[m.fd].msg,
                                              reply |-> None]]
        /\ known' = known \cup fresh
        /\ reply_ch' = Append(reply_ch, Reply(m, clients[m.fd].reply, fresh,
                                              clients[m.fd].msg))
        /\ UNCHANGED <<threadVars, io, events, ioVars>>

\* the caller is not in the map (any more): the passed pipe is deposited
\* nowhere, no thread is set up, and the pipe stays open
NewThreadUnhandled ==
    LET m == Head(req_ch)
    IN  /\ Receive("new_thread")
        /\ clients[m.fd] = NoClient
        /\ reply_ch' = Append(reply_ch, Reply(m, None, {}, None))
        /\ UNCHANGED <<threadVars, file, io, events, ioVars, clients, known>>
-----------------------------------------------------------------------------
Next ==
    \/ \E t \in Primaries : Connect(t) \/ HandleAccept(t)
    \/ \E t \in Threads : SendInit(t) \/ Die(t)
    \/ \E t \in Threads, c \in Children : SendNewThread(t, c)
    \/ Poll \/ BatchDone \/ ExecuteReply \/ DrainDone
    \/ \E f \in Fds : IgnoreEvent(f) \/ ReadRequest(f) \/ DisconnectIoClient(f)
    \/ RegisterClient \/ DisconnectClient \/ InitThread
    \/ NewThread \/ NewThreadUnhandled

Spec == Init /\ [][Next]_vars
-----------------------------------------------------------------------------
(* Properties *)

\* A client that new_thread creates is known by a number of its own: what the
\* authority still has to hear of a previous client of that number does not
\* reach it.  In particular the disconnection the authority handles next is
\* not an earlier client's while a created thread, whose creator lives, holds
\* its number.  handle_new_thread dups the passed pipe for this and calls the
\* new number "guaranteed unique".
DisconnectsItsOwn ==
    \A t \in alive, k \in Children :
        (/\ child[t] = k
         /\ req_ch # <<>>
         /\ Head(req_ch).req = "disconnect"
         /\ clients[Head(req_ch).fd].who = k) => Head(req_ch).who = k
=============================================================================
