------------------------------ MODULE CspLoop ------------------------------
(***************************************************************************)
(* The two threads of the triskelion daemon (csp_loop.rs).  The I/O thread *)
(* owns every descriptor: it takes up to MAX_EVENTS events from epoll,     *)
(* handles each of them, then executes every reply it finds.  The          *)
(* authority thread owns the EventLoop: it receives requests, dispatches   *)
(* them, sends the replies, and between requests runs the housekeeping     *)
(* tick that ends the daemon.  They meet in two bounded channels whose     *)
(* send blocks while the channel is full and fails once the receiver is    *)
(* dropped.                                                                *)
(*                                                                         *)
(* A client is one Wine thread.  It connects to the listening socket, or   *)
(* another one creates it: new_thread and new_process pass its pipe, the   *)
(* authority enters it in its map, and the I/O thread watches the pipe     *)
(* only when it executes the reply.  A thread writes a request and waits   *)
(* for the reply before it writes the next one, so a read of its pipe      *)
(* completes at most one request.  Descriptor numbers are the subject of   *)
(* ClientFds; a client here is never confused with another.  The effects   *)
(* of a reply other than RegisterClient (descriptors sent along, pipes and *)
(* display connections to watch) change nothing a client waits for here.   *)
(***************************************************************************)
EXTENDS Integers, Sequences, FiniteSets

CONSTANTS Clients,       \* the Wine threads that may connect
          SystemClients, \* those of make_process_system's callers (services)
          LISTENER,      \* event source: the listening socket
          SIGNAL,        \* event source: the signalfd or the death pipe
          STOP_PIPE,     \* event source: the authority's shutdown pipe
          REQ_CAP,       \* capacity of the request channel
          REPLY_CAP,     \* capacity of the reply channel
          MAX_EVENTS     \* the most events one epoll_wait returns

ASSUME CapAssumption ==
    /\ REQ_CAP \in Nat \ {0}
    /\ REPLY_CAP \in Nat \ {0}
    /\ MAX_EVENTS \in Nat \ {0}
ASSUME BatchAssumption == MAX_EVENTS <= REPLY_CAP
ASSUME SourceAssumption ==
    /\ IsFiniteSet(Clients)
    /\ SystemClients \subseteq Clients
    /\ Clients \cap {LISTENER, SIGNAL, STOP_PIPE} = {}
    /\ Cardinality({LISTENER, SIGNAL, STOP_PIPE}) = 3

VARIABLES conn,        \* a client's connection, as the kernel sees it
          asking,      \* clients inside a server call, waiting for the reply
          unread,      \* clients whose request lies unread in their pipe
          child,       \* the client a request that is not dispatched yet creates
          stop_signal, \* a termination signal or the launcher's exit is pending
          stop_pipe,   \* the byte the authority writes to shutdown_write
          SHUTDOWN,    \* the flag both threads poll
          req_ch,      \* req_tx -> req_rx
          reply_ch,    \* reply_tx -> reply_rx
          io_clients,  \* the clients whose pipe the I/O thread watches
          io,          \* where the I/O thread is
          events,      \* the rest of the batch epoll_wait returned
          auth,        \* where the authority thread is
          reply,       \* the ReplyMsg the authority is sending
          clients,     \* EventLoop.clients
          procs,       \* clients whose process has been initialised
          served,      \* EventLoop.total_requests > 0
          linger       \* EventLoop.linger_deadline.is_some()

clientVars == <<conn, asking, unread, child, stop_signal>>
ioVars == <<io_clients, io, events>>
authVars == <<auth, reply, clients, procs, served, linger>>
vars == <<conn, asking, unread, child, stop_signal, stop_pipe, SHUTDOWN, req_ch,
          reply_ch, io_clients, io, events, auth, reply, clients, procs, served,
          linger>>

Sources == Clients \cup {LISTENER, SIGNAL, STOP_PIPE}
Messages == [client : Clients, req : {"connect", "request", "disconnect"}]
Msg(c, kind) == [client |-> c, req |-> kind]
\* a reply and its RegisterClient effects
Replies == [client : Clients, registers : SUBSET Clients]

Init ==
    /\ conn = [c \in Clients |-> "off"]
    /\ asking = {} /\ unread = {}
    /\ child = [c \in Clients |-> {}]
    /\ stop_signal = FALSE /\ stop_pipe = FALSE /\ SHUTDOWN = FALSE
    /\ req_ch = <<>> /\ reply_ch = <<>>
    /\ io_clients = {} /\ io = "poll" /\ events = {}
    /\ auth = "recv" /\ reply \in {r \in Replies : r.registers = {}}
    /\ clients = {} /\ procs = {} /\ served = FALSE /\ linger = FALSE
-----------------------------------------------------------------------------
(* The clients and the launcher *)

Connect(c) ==
    /\ conn[c] = "off"
    /\ conn' = [conn EXCEPT ![c] = "backlog"]
    /\ UNCHANGED <<asking, unread, child, stop_signal, stop_pipe, SHUTDOWN,
                   req_ch, reply_ch, ioVars, authVars>>

\* write a request to the pipe and wait for the reply
Ask(c) ==
    /\ conn[c] = "up" /\ c \notin asking
    /\ asking' = asking \cup {c}
    /\ unread' = unread \cup {c}
    /\ UNCHANGED <<conn, child, stop_signal, stop_pipe, SHUTDOWN, req_ch,
                   reply_ch, ioVars, authVars>>

\* new_thread or new_process: the request passes the pipe of k, which k may
\* write to before the daemon watches it
AskNewThread(c, k) ==
    /\ conn[c] = "up" /\ c \notin asking /\ conn[k] = "off"
    /\ conn' = [conn EXCEPT ![k] = "up"]
    /\ child' = [child EXCEPT ![c] = {k}]
    /\ asking' = asking \cup {c}
    /\ unread' = unread \cup {c}
    /\ UNCHANGED <<stop_signal, stop_pipe, SHUTDOWN, req_ch, reply_ch, ioVars,
                   authVars>>

\* the thread ends, perhaps killed in the middle of a call
Exit(c) ==
    /\ conn[c] = "up"
    /\ conn' = [conn EXCEPT ![c] = "hungup"]
    /\ asking' = asking \ {c}
    /\ UNCHANGED <<unread, child, stop_signal, stop_pipe, SHUTDOWN, req_ch,
                   reply_ch, ioVars, authVars>>

StopRequested ==
    /\ ~stop_signal
    /\ stop_signal' = TRUE
    /\ UNCHANGED <<conn, asking, unread, child, stop_pipe, SHUTDOWN, req_ch,
                   reply_ch, ioVars, authVars>>
-----------------------------------------------------------------------------
(* The I/O thread *)

Ready == {c \in io_clients : c \in unread \/ conn[c] = "hungup"}
           \cup {s \in {LISTENER} : \E c \in Clients : conn[c] = "backlog"}
           \cup {s \in {SIGNAL} : stop_signal}
           \cup {s \in {STOP_PIPE} : stop_pipe}

\* Fault: a batch is as large as the number of ready descriptors.
PollUnbounded(batch) ==
    /\ io = "poll"
    /\ batch \subseteq Ready
    /\ events' = batch
    /\ io' = "batch"
    /\ UNCHANGED <<clientVars, stop_pipe, SHUTDOWN, req_ch, reply_ch, io_clients,
                   authVars>>

\* epoll_wait: the sources whose handling sends no request (the wake pipe, msg
\* sockets, watched pipes and display connections) and the timeout are why a
\* batch need not hold every ready source
Poll(batch) ==
    /\ io = "poll"
    /\ batch \subseteq Ready
    /\ Cardinality(batch) <= MAX_EVENTS
    /\ events' = batch
    /\ io' = "batch"
    /\ UNCHANGED <<clientVars, stop_pipe, SHUTDOWN, req_ch, reply_ch, io_clients,
                   authVars>>

CanSendRequest == Len(req_ch) < REQ_CAP \/ auth = "done"

\* req_tx.send: blocks while the channel is full, fails without a receiver
SendRequest(msg) ==
    /\ CanSendRequest
    /\ req_ch' = IF auth = "done" THEN req_ch ELSE Append(req_ch, msg)

Event(s) ==
    /\ io = "batch"
    /\ s \in events
    /\ events' = events \ {s}
    /\ io' = io

HandleAccept(c) ==
    /\ Event(LISTENER)
    /\ conn[c] = "backlog"
    /\ conn' = [conn EXCEPT ![c] = "up"]
    /\ io_clients' = io_clients \cup {c}
    /\ SendRequest(Msg(c, "connect"))
    /\ UNCHANGED <<asking, unread, child, stop_signal, stop_pipe, SHUTDOWN,
                   reply_ch, authVars>>

\* accept4 fails and the connection stays in the backlog, or pipe2, send_fd or
\* dup fails and it is closed; nobody is told
AcceptFails(c) ==
    /\ Event(LISTENER)
    /\ conn[c] = "backlog"
    /\ \E state \in {"backlog", "closed"} : conn' = [conn EXCEPT ![c] = state]
    /\ UNCHANGED <<asking, unread, child, stop_signal, stop_pipe, SHUTDOWN,
                   req_ch, reply_ch, io_clients, authVars>>

ReadRequest(c) ==
    /\ Event(c)
    /\ c \in unread
    /\ unread' = unread \ {c}
    /\ SendRequest(Msg(c, "request"))
    /\ UNCHANGED <<conn, asking, child, stop_signal, stop_pipe, SHUTDOWN, reply_ch,
                   io_clients, authVars>>

\* the pipe is drained and its other end closed
ReadEof(c) ==
    /\ Event(c)
    /\ c \notin unread /\ conn[c] = "hungup"
    /\ conn' = [conn EXCEPT ![c] = "closed"]
    /\ io_clients' = io_clients \ {c}
    /\ SendRequest(Msg(c, "disconnect"))
    /\ UNCHANGED <<asking, unread, child, stop_signal, stop_pipe, SHUTDOWN,
                   reply_ch, authVars>>

HandleSignal ==
    /\ Event(SIGNAL)
    /\ SHUTDOWN' = TRUE
    /\ UNCHANGED <<clientVars, stop_pipe, req_ch, reply_ch, io_clients, authVars>>

\* `break` leaves the batch, not the loop of the thread
HandleStopPipe ==
    /\ io = "batch"
    /\ STOP_PIPE \in events
    /\ stop_pipe' = FALSE
    /\ events' = {}
    /\ UNCHANGED <<clientVars, SHUTDOWN, req_ch, reply_ch, io_clients, io,
                   authVars>>

BatchDone ==
    /\ io = "batch"
    /\ events = {}
    /\ io' = "drain"
    /\ UNCHANGED <<clientVars, stop_pipe, SHUTDOWN, req_ch, reply_ch, io_clients,
                   events, authVars>>

\* the reply is written to the caller's blocking reply pipe; the write fails
\* (n <= 0), and answers nobody, when the caller has gone
WriteReply(c) == asking' = IF conn[c] = "up" THEN asking \ {c} ELSE asking

\* effects first: a client the reply registers is watched from now on
ExecuteReply ==
    LET r == Head(reply_ch)
    IN  /\ io = "drain"
        /\ reply_ch # <<>>
        /\ reply_ch' = Tail(reply_ch)
        /\ io_clients' = io_clients \cup r.registers
        /\ WriteReply(r.client)
        /\ UNCHANGED <<conn, unread, child, stop_signal, stop_pipe, SHUTDOWN,
                       req_ch, io, events, authVars>>

\* Fault: the stop byte, already consumed, is the only way out of the loop.
DrainDoneNoFlag ==
    /\ io = "drain"
    /\ reply_ch = <<>>
    /\ io' = "poll"
    /\ UNCHANGED <<clientVars, stop_pipe, SHUTDOWN, req_ch, reply_ch, io_clients,
                   events, authVars>>

\* no reply is left; a set flag ends the thread and drops both its ends
DrainDone ==
    /\ io = "drain"
    /\ reply_ch = <<>>
    /\ io' = IF SHUTDOWN THEN "done" ELSE "poll"
    /\ UNCHANGED <<clientVars, stop_pipe, SHUTDOWN, req_ch, reply_ch, io_clients,
                   events, authVars>>

IoStep ==
    \/ \E batch \in SUBSET Sources : Poll(batch)
    \/ \E c \in Clients : \/ HandleAccept(c) \/ AcceptFails(c)
                         \/ ReadRequest(c) \/ ReadEof(c)
    \/ HandleSignal
    \/ HandleStopPipe
    \/ BatchDone
    \/ ExecuteReply
    \/ DrainDone
-----------------------------------------------------------------------------
(* The authority thread *)

Receiving(kind) ==
    /\ auth \in {"recv", "drain"}
    /\ req_ch # <<>>
    /\ Head(req_ch).req = kind
    /\ req_ch' = Tail(req_ch)

RegisterClient ==
    /\ Receiving("connect")
    /\ clients' = clients \cup {Head(req_ch).client}
    /\ auth' = "drain"
    /\ UNCHANGED <<clientVars, stop_pipe, SHUTDOWN, reply_ch, ioVars, reply,
                   procs, served, linger>>

\* disconnect_client arms the deadline when the last user process is gone
LastUserProcess(c) ==
    /\ c \in procs \ SystemClients
    /\ procs \ SystemClients \subseteq {c}

\* Fault: only the last user process arms the deadline.
DisconnectClientUserOnly(c) ==
    /\ Receiving("disconnect")
    /\ c = Head(req_ch).client
    /\ clients' = clients \ {c}
    /\ procs' = procs \ {c}
    /\ linger' = (clients' = {} /\ (linger \/ LastUserProcess(c)))
    /\ auth' = "drain"
    /\ UNCHANGED <<clientVars, stop_pipe, SHUTDOWN, reply_ch, ioVars, reply,
                   served>>

\* without a client left the deadline is armed unless it is already, or no
\* request was ever served; with one left it is disarmed
DisconnectClient(c) ==
    /\ Receiving("disconnect")
    /\ c = Head(req_ch).client
    /\ clients' = clients \ {c}
    /\ procs' = procs \ {c}
    /\ linger' = (clients' = {} /\ (linger \/ LastUserProcess(c) \/ served))
    /\ auth' = "drain"
    /\ UNCHANGED <<clientVars, stop_pipe, SHUTDOWN, reply_ch, ioVars, reply,
                   served>>

\* Fault: a client that a handler creates is not announced to the I/O thread.
DispatchRequestSilent(made) ==
    LET c == Head(req_ch).client
        new == IF made THEN child[c] ELSE {}
    IN  /\ Receiving("request")
        /\ clients' = clients \cup new
        /\ reply' = [client |-> c, registers |-> {}]
        /\ child' = [child EXCEPT ![c] = {}]
        /\ conn' = [k \in Clients |-> IF k \in child[c] \ new THEN "closed" ELSE conn[k]]
        /\ asking' = asking \ (child[c] \ new)
        /\ unread' = unread \ (child[c] \ new)
        /\ procs' = procs \cup ({c} \cap clients)
        /\ served' = TRUE
        /\ auth' = "reply"
        /\ UNCHANGED <<stop_signal, stop_pipe, SHUTDOWN, reply_ch, ioVars, linger>>

\* Dispatch; the first request of a client initialises its process.  A client
\* the handler creates enters the map and is announced with the reply
\* (known_io_fds has the others); `made` is false when the handler's dup fails
\* and the passed pipe is closed.
DispatchRequest(made) ==
    LET c == Head(req_ch).client
        new == IF made THEN child[c] ELSE {}
    IN  /\ Receiving("request")
        /\ clients' = clients \cup new
        /\ reply' = [client |-> c, registers |-> new]
        /\ child' = [child EXCEPT ![c] = {}]
        /\ conn' = [k \in Clients |-> IF k \in child[c] \ new THEN "closed" ELSE conn[k]]
        /\ asking' = asking \ (child[c] \ new)
        /\ unread' = unread \ (child[c] \ new)
        /\ procs' = procs \cup ({c} \cap clients)
        /\ served' = TRUE
        /\ auth' = "reply"
        /\ UNCHANGED <<stop_signal, stop_pipe, SHUTDOWN, reply_ch, ioVars, linger>>

CanSendReply == Len(reply_ch) < REPLY_CAP \/ io = "done"

\* Fault: the reply is dropped when the channel is full (try_send).
SendReplyTry ==
    /\ auth = "reply"
    /\ reply_ch' = IF Len(reply_ch) < REPLY_CAP /\ io # "done"
                   THEN Append(reply_ch, reply) ELSE reply_ch
    /\ auth' = "drain"
    /\ UNCHANGED <<clientVars, stop_pipe, SHUTDOWN, req_ch, ioVars, reply,
                   clients, procs, served, linger>>

\* reply_tx.send: blocks while the channel is full, fails without a receiver
SendReply ==
    /\ auth = "reply"
    /\ CanSendReply
    /\ reply_ch' = IF io = "done" THEN reply_ch ELSE Append(reply_ch, reply)
    /\ auth' = "drain"
    /\ UNCHANGED <<clientVars, stop_pipe, SHUTDOWN, req_ch, ioVars, reply,
                   clients, procs, served, linger>>

\* recv_timeout times out, or try_recv finds nothing more; the tick is due or
\* TICK_MS has not passed since the last one
NothingToReceive(due) ==
    /\ req_ch = <<>>
    /\ \/ auth = "recv" /\ io # "done"
       \/ auth = "drain"
    /\ auth' = IF due THEN "tick" ELSE "recv"
    /\ UNCHANGED <<clientVars, stop_pipe, SHUTDOWN, req_ch, reply_ch, ioVars,
                   reply, clients, procs, served, linger>>

\* the I/O thread dropped req_tx and everything it sent has been handled
ChannelClosed ==
    /\ auth = "recv" /\ io = "done" /\ req_ch = <<>>
    /\ auth' = "done"
    /\ UNCHANGED <<clientVars, stop_pipe, SHUTDOWN, req_ch, reply_ch, ioVars,
                   reply, clients, procs, served, linger>>

\* the housekeeping tick; `expired` says that the deadline, if any, has passed
Tick(expired) ==
    /\ auth = "tick"
    /\ SHUTDOWN' = (SHUTDOWN \/ (linger /\ expired))
    /\ stop_pipe' = (stop_pipe \/ SHUTDOWN')
    /\ auth' = IF SHUTDOWN' THEN "done" ELSE "recv"
    /\ UNCHANGED <<clientVars, req_ch, reply_ch, ioVars, reply, clients,
                   procs, served, linger>>

AuthStep ==
    \/ RegisterClient
    \/ \E c \in Clients : DisconnectClient(c)
    \/ \E made \in BOOLEAN : DispatchRequest(made)
    \/ SendReply
    \/ \E due \in BOOLEAN : NothingToReceive(due)
    \/ ChannelClosed
    \/ \E expired \in BOOLEAN : Tick(expired)
-----------------------------------------------------------------------------
Environment ==
    \/ \E c \in Clients : Connect(c) \/ Ask(c) \/ Exit(c)
    \/ \E c, k \in Clients : AskNewThread(c, k)
    \/ StopRequested

\* csp_main joins the I/O thread after the authority returns
Stopped ==
    /\ io = "done" /\ auth = "done"
    /\ UNCHANGED vars

Next == Environment \/ IoStep \/ AuthStep \/ Stopped

Spec == Init /\ [][Next]_vars

\* The kernel schedules both threads, epoll_wait reports every descriptor that
\* stays ready, time passes (ticks become due, deadlines expire).
Fairness ==
    /\ WF_vars(IoStep) /\ WF_vars(AuthStep)
    /\ \A s \in Sources :
          SF_vars(\E batch \in SUBSET Sources : s \in batch /\ Poll(batch))
    /\ SF_vars(NothingToReceive(TRUE))
    /\ SF_vars(Tick(TRUE))

FairSpec == Spec /\ Fairness
-----------------------------------------------------------------------------
(* Properties *)

TypeOK ==
    /\ conn \in [Clients -> {"off", "backlog", "up", "hungup", "closed"}]
    /\ asking \in SUBSET Clients
    /\ unread \in SUBSET Clients
    /\ child \in [Clients -> SUBSET Clients]
    /\ stop_signal \in BOOLEAN /\ stop_pipe \in BOOLEAN /\ SHUTDOWN \in BOOLEAN
    /\ req_ch \in Seq(Messages) /\ Len(req_ch) <= REQ_CAP
    /\ reply_ch \in Seq(Replies) /\ Len(reply_ch) <= REPLY_CAP
    /\ io_clients \in SUBSET Clients
    /\ io \in {"poll", "batch", "drain", "done"}
    /\ events \in SUBSET Sources
    /\ auth \in {"recv", "drain", "reply", "tick", "done"}
    /\ reply \in Replies
    /\ clients \in SUBSET Clients
    /\ procs \in SUBSET Clients
    /\ served \in BOOLEAN /\ linger \in BOOLEAN

IoBlocked == io = "batch" /\ events # {} /\ ~CanSendRequest
AuthBlocked == auth = "reply" /\ ~CanSendReply

\* The two threads never wait for each other: the I/O thread, stuck in
\* req_tx.send in the middle of a batch, and the authority, stuck in
\* reply_tx.send, are not stuck at the same time.
NeverBothBlocked == ~(IoBlocked /\ AuthBlocked)

\* messages in the channels and in the authority's hands
Load == Len(req_ch) + Len(reply_ch) + (IF auth = "reply" THEN 1 ELSE 0)

\* Why: the I/O thread polls only after it has found the reply channel empty,
\* when at most a full request channel and one request in hand are left, and
\* each event of the batch adds at most one message to them.
LoadBound ==
    /\ io = "poll" => Load <= REQ_CAP + 1
    /\ io = "batch" => Load + Cardinality(events) <= REQ_CAP + 1 + MAX_EVENTS

\* The inductive invariant behind NeverBothBlocked.
ChannelInv == TypeOK /\ LoadBound

Count(seq, x) == Cardinality({i \in DOMAIN seq : seq[i] = x})

\* the places a request of c, or the reply to it, can be in
InFlight(c) ==
    Cardinality({x \in {1} : c \in unread})
      + Count(req_ch, Msg(c, "request"))
      + Cardinality({x \in {1} : auth = "reply" /\ reply.client = c})
      + Cardinality({i \in DOMAIN reply_ch : reply_ch[i].client = c})

\* While both threads run, a connected client that waits for a reply has
\* exactly one request or reply on its way, and one that does not wait has
\* none: no call is lost, answered twice or answered by another's reply.
OneInFlight ==
    (io # "done" /\ auth # "done") =>
       \A c \in Clients :
          conn[c] = "up" => InFlight(c) = IF c \in asking THEN 1 ELSE 0

\* Every call is answered, unless the daemon is shut down or the caller dies.
CallsAnswered ==
    \A c \in Clients :
       (c \in asking) ~> (c \notin asking \/ SHUTDOWN)

\* Once the flag is set, by a signal, the death pipe or an expired deadline,
\* both threads end, whatever they were blocked on.
ShutdownCompletes == SHUTDOWN ~> (io = "done" /\ auth = "done")

\* A daemon that has served a request and is then left by all its clients,
\* system processes included, shuts down.
IdleDaemonExits ==
    <>[](served /\ clients = {}) => <>SHUTDOWN
=============================================================================
