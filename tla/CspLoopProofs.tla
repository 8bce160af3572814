---------------------------- MODULE CspLoopProofs ----------------------------
(***************************************************************************)
(* The I/O thread and the authority never block on each other, for every   *)
(* number of clients and every pair of channel capacities, as long as one  *)
(* epoll batch is no larger than the reply channel (64 <= 256 in           *)
(* csp_loop.rs).                                                           *)
(***************************************************************************)
EXTENDS CspLoop, FiniteSetTheorems, TLAPS

\* No descriptor set of the I/O thread is infinite.
LEMMA SourcesFinite ==
    ASSUME NEW S \in SUBSET Sources
    PROVE  IsFiniteSet(S) /\ Cardinality(S) \in Nat
<1>1. IsFiniteSet({LISTENER, SIGNAL, STOP_PIPE})
  <2>1. IsFiniteSet({LISTENER}) /\ IsFiniteSet({SIGNAL})
           /\ IsFiniteSet({STOP_PIPE})
    BY FS_Singleton
  <2>2. IsFiniteSet({LISTENER} \cup {SIGNAL})
    BY <2>1, FS_Union
  <2>3. IsFiniteSet(({LISTENER} \cup {SIGNAL}) \cup {STOP_PIPE})
    BY <2>1, <2>2, FS_Union
  <2>4. {LISTENER, SIGNAL, STOP_PIPE}
           = ({LISTENER} \cup {SIGNAL}) \cup {STOP_PIPE}
    OBVIOUS
  <2> QED
    BY <2>3, <2>4
<1>2. IsFiniteSet(Sources)
  BY <1>1, FS_Union, SourceAssumption DEF Sources
<1> QED
  BY <1>2, FS_Subset, FS_CardinalityType

\* Taking an event out of a batch makes it one smaller.
LEMMA EventTaken ==
    ASSUME TypeOK, NEW s, Event(s)
    PROVE  /\ io = "batch" /\ io' = "batch"
           /\ events' \in SUBSET Sources
           /\ Cardinality(events) \in Nat
           /\ Cardinality(events') = Cardinality(events) - 1
<1>1. events \in SUBSET Sources /\ s \in events /\ events' = events \ {s}
  BY DEF TypeOK, Event
<1>2. IsFiniteSet(events) /\ Cardinality(events) \in Nat
  BY <1>1, SourcesFinite
<1>3. Cardinality(events \ {s}) = Cardinality(events) - 1
  BY <1>1, <1>2, FS_RemoveElement
<1> QED
  BY <1>1, <1>2, <1>3 DEF Event

\* A send on the request channel keeps it within its capacity.
LEMMA RequestSent ==
    ASSUME TypeOK, NEW m \in Messages, SendRequest(m)
    PROVE  /\ req_ch' \in Seq(Messages) /\ Len(req_ch') <= REQ_CAP
           /\ Len(req_ch') <= Len(req_ch) + 1
<1>1. CASE auth = "done"
  BY <1>1 DEF TypeOK, SendRequest
<1>2. CASE auth # "done"
  BY <1>2, CapAssumption DEF TypeOK, SendRequest, CanSendRequest
<1> QED
  BY <1>1, <1>2

\* What an event that sends one request does to the invariant.
LEMMA SendingEvent ==
    ASSUME ChannelInv, NEW s, Event(s), NEW m \in Messages, SendRequest(m),
           UNCHANGED <<reply_ch, auth>>
    PROVE  /\ req_ch' \in Seq(Messages) /\ Len(req_ch') <= REQ_CAP
           /\ events' \in SUBSET Sources
           /\ io' \in {"poll", "batch", "drain", "done"}
           /\ LoadBound'
<1>1. TypeOK
  BY DEF ChannelInv
<1>2. /\ io = "batch" /\ io' = "batch" /\ events' \in SUBSET Sources
      /\ Cardinality(events) \in Nat
      /\ Cardinality(events') = Cardinality(events) - 1
  BY <1>1, EventTaken
<1>3. /\ req_ch' \in Seq(Messages) /\ Len(req_ch') <= REQ_CAP
      /\ Len(req_ch') <= Len(req_ch) + 1
  BY <1>1, RequestSent
<1>4. LoadBound'
  <2>1. Load + Cardinality(events) <= REQ_CAP + 1 + MAX_EVENTS
    BY <1>2 DEF ChannelInv, LoadBound
  <2>2. Len(req_ch) \in Nat /\ Len(req_ch') \in Nat /\ Len(reply_ch) \in Nat
    BY <1>1, <1>3 DEF TypeOK
  <2>3. Load' \in Int /\ Load \in Int /\ Load' <= Load + 1
    BY <1>3, <2>2 DEF Load
  <2> QED
    BY <1>2, <2>1, <2>3, CapAssumption DEF LoadBound
<1> QED
  BY <1>2, <1>3, <1>4

\* Initially both channels are empty.
LEMMA ChannelInvInit == Init => ChannelInv
<1> SUFFICES ASSUME Init PROVE ChannelInv
  OBVIOUS
<1>1. /\ stop_signal \in BOOLEAN /\ stop_pipe \in BOOLEAN
      /\ SHUTDOWN \in BOOLEAN /\ served \in BOOLEAN /\ linger \in BOOLEAN
  BY Zenon DEF Init
<1>2. TypeOK
  BY <1>1, CapAssumption DEF Init, TypeOK
<1>3. LoadBound
  BY CapAssumption DEF Init, LoadBound, Load
<1> QED
  BY <1>2, <1>3 DEF ChannelInv

\* A step that leaves the channels, the batch and both threads alone.
LEMMA EnvironmentStep == ChannelInv /\ Environment => ChannelInv'
<1> SUFFICES ASSUME ChannelInv, Environment PROVE ChannelInv'
  OBVIOUS
<1>1. UNCHANGED <<req_ch, reply_ch, ioVars, authVars>>
  BY DEF Environment, Connect, Ask, AskNewThread, Exit, StopRequested
<1>2. LoadBound'
  BY <1>1 DEF ChannelInv, LoadBound, Load, ioVars, authVars
<1>3. /\ conn' \in [Clients -> {"off", "backlog", "up", "hungup", "closed"}]
      /\ asking' \in SUBSET Clients /\ unread' \in SUBSET Clients
      /\ child' \in [Clients -> SUBSET Clients]
      /\ stop_pipe' = stop_pipe /\ SHUTDOWN' = SHUTDOWN
  BY DEF ChannelInv, TypeOK, Environment, Connect, Ask, AskNewThread, Exit,
         StopRequested
<1>4. stop_signal' \in BOOLEAN
  BY Zenon DEF ChannelInv, TypeOK, Environment, Connect, Ask, AskNewThread,
               Exit, StopRequested
<1>5. TypeOK'
  BY <1>1, <1>3, <1>4 DEF ChannelInv, TypeOK, ioVars, authVars
<1> QED
  BY <1>2, <1>5 DEF ChannelInv

\* The I/O thread keeps the invariant.
LEMMA IoKeepsChannelInv == ChannelInv /\ IoStep => ChannelInv'
<1> SUFFICES ASSUME ChannelInv, IoStep PROVE ChannelInv'
  OBVIOUS
<1> USE CapAssumption
<1>0. TypeOK /\ LoadBound
  BY DEF ChannelInv
<1>1. /\ Len(req_ch) \in Nat /\ Len(reply_ch) \in Nat /\ Load \in Int
      /\ Cardinality(events) \in Nat
  BY <1>0, SourcesFinite DEF TypeOK, Load
<1>2. ASSUME NEW batch \in SUBSET Sources, Poll(batch) PROVE ChannelInv'
  <2>1. Cardinality(batch) \in Nat
    BY SourcesFinite
  <2>2. LoadBound'
    BY <1>0, <1>1, <1>2, <2>1 DEF LoadBound, Load, Poll, authVars
  <2>3. TypeOK'
    BY <1>0, <1>2 DEF TypeOK, Poll, clientVars, authVars
  <2> QED
    BY <2>2, <2>3 DEF ChannelInv
<1>3. ASSUME NEW c \in Clients, HandleAccept(c) PROVE ChannelInv'
  <2>1. Msg(c, "connect") \in Messages
    BY DEF Msg, Messages
  <2>2. /\ req_ch' \in Seq(Messages) /\ Len(req_ch') <= REQ_CAP
        /\ events' \in SUBSET Sources
        /\ io' \in {"poll", "batch", "drain", "done"}
        /\ LoadBound'
    BY <1>3, <2>1, SendingEvent DEF HandleAccept, authVars
  <2>3. TypeOK'
    BY <1>0, <1>3, <2>2 DEF TypeOK, HandleAccept, authVars
  <2> QED
    BY <2>2, <2>3 DEF ChannelInv
<1>4. ASSUME NEW c \in Clients, ReadRequest(c) PROVE ChannelInv'
  <2>1. Msg(c, "request") \in Messages
    BY DEF Msg, Messages
  <2>2. /\ req_ch' \in Seq(Messages) /\ Len(req_ch') <= REQ_CAP
        /\ events' \in SUBSET Sources
        /\ io' \in {"poll", "batch", "drain", "done"}
        /\ LoadBound'
    BY <1>4, <2>1, SendingEvent DEF ReadRequest, authVars
  <2>3. TypeOK'
    BY <1>0, <1>4, <2>2 DEF TypeOK, ReadRequest, authVars
  <2> QED
    BY <2>2, <2>3 DEF ChannelInv
<1>5. ASSUME NEW c \in Clients, ReadEof(c) PROVE ChannelInv'
  <2>1. Msg(c, "disconnect") \in Messages
    BY DEF Msg, Messages
  <2>2. /\ req_ch' \in Seq(Messages) /\ Len(req_ch') <= REQ_CAP
        /\ events' \in SUBSET Sources
        /\ io' \in {"poll", "batch", "drain", "done"}
        /\ LoadBound'
    BY <1>5, <2>1, SendingEvent DEF ReadEof, authVars
  <2>3. TypeOK'
    BY <1>0, <1>5, <2>2 DEF TypeOK, ReadEof, authVars
  <2> QED
    BY <2>2, <2>3 DEF ChannelInv
<1>6. ASSUME HandleSignal PROVE ChannelInv'
  <2>1. /\ io = "batch" /\ io' = "batch" /\ events' \in SUBSET Sources
        /\ Cardinality(events') = Cardinality(events) - 1
    BY <1>0, <1>6, EventTaken DEF HandleSignal
  <2>2. LoadBound'
    BY <1>0, <1>1, <1>6, <2>1 DEF LoadBound, Load, HandleSignal, authVars
  <2>3. TypeOK'
    BY <1>0, <1>6, <2>1 DEF TypeOK, HandleSignal, clientVars, authVars
  <2> QED
    BY <2>2, <2>3 DEF ChannelInv
<1>7. ASSUME HandleStopPipe PROVE ChannelInv'
  <2>1. Cardinality({}) = 0
    BY FS_EmptySet
  <2>2. LoadBound'
    BY <1>0, <1>1, <1>7, <2>1 DEF LoadBound, Load, HandleStopPipe, authVars
  <2>3. TypeOK'
    BY <1>0, <1>7 DEF TypeOK, HandleStopPipe, clientVars, authVars
  <2> QED
    BY <2>2, <2>3 DEF ChannelInv
<1>8. ASSUME BatchDone PROVE ChannelInv'
  BY <1>0, <1>8 DEF ChannelInv, LoadBound, TypeOK, BatchDone, clientVars,
                    authVars
<1>9. ASSUME ExecuteReply PROVE ChannelInv'
  <2>1. /\ reply_ch' \in Seq(Replies) /\ Len(reply_ch') <= REPLY_CAP
        /\ Head(reply_ch) \in Replies
    BY <1>0, <1>9 DEF TypeOK, ExecuteReply
  <2>2. LoadBound'
    BY <1>9 DEF LoadBound, ExecuteReply
  <2>3. /\ io_clients' \in SUBSET Clients
        /\ asking' \in SUBSET Clients
    BY <1>0, <1>9, <2>1 DEF TypeOK, ExecuteReply, WriteReply, Replies
  <2>4. TypeOK'
    BY <1>0, <1>9, <2>1, <2>3 DEF TypeOK, ExecuteReply, authVars
  <2> QED
    BY <2>2, <2>4 DEF ChannelInv
<1>10. ASSUME DrainDone PROVE ChannelInv'
  <2>1. Len(reply_ch) = 0 /\ Len(req_ch) <= REQ_CAP
    BY <1>0, <1>10 DEF TypeOK, DrainDone
  <2>2. LoadBound'
    BY <1>1, <1>10, <2>1 DEF LoadBound, Load, DrainDone, authVars
  <2>3. TypeOK'
    BY <1>0, <1>10 DEF TypeOK, DrainDone, clientVars, authVars
  <2> QED
    BY <2>2, <2>3 DEF ChannelInv
<1>11. ASSUME NEW c \in Clients, AcceptFails(c) PROVE ChannelInv'
  <2>1. /\ io = "batch" /\ io' = "batch" /\ events' \in SUBSET Sources
        /\ Cardinality(events') = Cardinality(events) - 1
    BY <1>0, <1>11, EventTaken DEF AcceptFails
  <2>2. LoadBound'
    BY <1>0, <1>1, <1>11, <2>1 DEF LoadBound, Load, AcceptFails, authVars
  <2>3. TypeOK'
    BY <1>0, <1>11, <2>1 DEF TypeOK, AcceptFails, authVars
  <2> QED
    BY <2>2, <2>3 DEF ChannelInv
<1> QED
  BY <1>2, <1>3, <1>4, <1>5, <1>6, <1>7, <1>8, <1>9, <1>10, <1>11 DEF IoStep

\* The authority never adds to the load: it takes a message out of one
\* channel before it puts one into the other.
LEMMA AuthKeepsChannelInv == ChannelInv /\ AuthStep => ChannelInv'
<1> SUFFICES ASSUME ChannelInv, AuthStep PROVE ChannelInv'
  OBVIOUS
<1> USE CapAssumption
<1>0. TypeOK /\ LoadBound
  BY DEF ChannelInv
<1>1. /\ Len(req_ch) \in Nat /\ Len(reply_ch) \in Nat /\ Load \in Int
      /\ Cardinality(events) \in Nat
  BY <1>0, SourcesFinite DEF TypeOK, Load
<1>2. ASSUME NEW kind, Receiving(kind)
      PROVE  /\ req_ch' \in Seq(Messages) /\ Len(req_ch') <= REQ_CAP
             /\ Len(req_ch') = Len(req_ch) - 1
             /\ Head(req_ch).client \in Clients
             /\ auth \in {"recv", "drain"}
  <2>1. Head(req_ch) \in Messages
    BY <1>0, <1>2 DEF TypeOK, Receiving
  <2> QED
    BY <1>0, <1>2, <2>1 DEF TypeOK, Receiving, Messages
<1>3. ASSUME UNCHANGED ioVars, Load' \in Int, Load' <= Load PROVE LoadBound'
  BY <1>0, <1>1, <1>3 DEF LoadBound, ioVars
<1>4. ASSUME RegisterClient PROVE ChannelInv'
  <2>1. LoadBound'
    BY <1>1, <1>2, <1>3, <1>4 DEF Load, RegisterClient
  <2>2. TypeOK'
    BY <1>0, <1>2, <1>4 DEF TypeOK, RegisterClient, clientVars, ioVars
  <2> QED
    BY <2>1, <2>2 DEF ChannelInv
<1>5. ASSUME NEW c \in Clients, DisconnectClient(c) PROVE ChannelInv'
  <2>1. LoadBound'
    BY <1>1, <1>2, <1>3, <1>5 DEF Load, DisconnectClient
  <2>2. linger' \in BOOLEAN
    BY <1>5, Zenon DEF DisconnectClient
  <2>3. TypeOK'
    BY <1>0, <1>2, <1>5, <2>2 DEF TypeOK, DisconnectClient, clientVars, ioVars
  <2> QED
    BY <2>1, <2>3 DEF ChannelInv
<1>6. ASSUME NEW made \in BOOLEAN, DispatchRequest(made) PROVE ChannelInv'
  <2>1. LoadBound'
    BY <1>1, <1>2, <1>3, <1>6 DEF Load, DispatchRequest
  <2>2. served' \in BOOLEAN
    BY <1>6, Zenon DEF DispatchRequest
  <2>3. child[Head(req_ch).client] \in SUBSET Clients
    BY <1>0, <1>2, <1>6 DEF TypeOK, DispatchRequest
  <2>4. /\ clients' \in SUBSET Clients /\ reply' \in Replies
        /\ procs' \in SUBSET Clients
    BY <1>0, <1>2, <1>6, <2>3 DEF TypeOK, DispatchRequest, Replies
  <2>5. /\ child' \in [Clients -> SUBSET Clients]
        /\ conn' \in [Clients -> {"off", "backlog", "up", "hungup", "closed"}]
        /\ asking' \in SUBSET Clients /\ unread' \in SUBSET Clients
    BY <1>0, <1>6 DEF TypeOK, DispatchRequest
  <2>6. TypeOK'
    BY <1>0, <1>2, <1>6, <2>2, <2>4, <2>5 DEF TypeOK, DispatchRequest, ioVars
  <2> QED
    BY <2>1, <2>6 DEF ChannelInv
<1>7. ASSUME SendReply PROVE ChannelInv'
  <2>1. /\ reply_ch' \in Seq(Replies) /\ Len(reply_ch') <= REPLY_CAP
        /\ Len(reply_ch') \in Nat /\ Len(reply_ch') <= Len(reply_ch) + 1
    <3>1. CASE io = "done"
      BY <1>0, <1>1, <1>7, <3>1 DEF TypeOK, SendReply
    <3>2. CASE io # "done"
      BY <1>0, <1>1, <1>7, <3>2 DEF TypeOK, SendReply, CanSendReply
    <3> QED
      BY <3>1, <3>2
  <2>2. LoadBound'
    BY <1>1, <1>3, <1>7, <2>1 DEF Load, SendReply
  <2>3. TypeOK'
    BY <1>0, <1>7, <2>1 DEF TypeOK, SendReply, clientVars, ioVars
  <2> QED
    BY <2>2, <2>3 DEF ChannelInv
<1>8. ASSUME NEW due \in BOOLEAN, NothingToReceive(due) PROVE ChannelInv'
  <2>1. LoadBound'
    BY <1>1, <1>3, <1>8 DEF Load, NothingToReceive
  <2>2. TypeOK'
    BY <1>0, <1>8 DEF TypeOK, NothingToReceive, clientVars, ioVars
  <2> QED
    BY <2>1, <2>2 DEF ChannelInv
<1>9. ASSUME ChannelClosed PROVE ChannelInv'
  <2>1. LoadBound'
    BY <1>1, <1>3, <1>9 DEF Load, ChannelClosed
  <2>2. TypeOK'
    BY <1>0, <1>9 DEF TypeOK, ChannelClosed, clientVars, ioVars
  <2> QED
    BY <2>1, <2>2 DEF ChannelInv
<1>10. ASSUME NEW expired \in BOOLEAN, Tick(expired) PROVE ChannelInv'
  <2>1. LoadBound'
    BY <1>1, <1>3, <1>10 DEF Load, Tick
  <2>2. SHUTDOWN' \in BOOLEAN /\ stop_pipe' \in BOOLEAN
    BY <1>10, Zenon DEF Tick
  <2>3. TypeOK'
    BY <1>0, <1>10, <2>2 DEF TypeOK, Tick, clientVars, ioVars
  <2> QED
    BY <2>1, <2>3 DEF ChannelInv
<1> QED
  BY <1>4, <1>5, <1>6, <1>7, <1>8, <1>9, <1>10 DEF AuthStep

\* The channels stay within their capacity and the load within its bound.
THEOREM ChannelInvariant == Spec => []ChannelInv
<1>1. ChannelInv /\ UNCHANGED vars => ChannelInv'
  BY DEF ChannelInv, TypeOK, LoadBound, Load, vars, Sources, Messages,
         Replies
<1>2. ChannelInv /\ [Next]_vars => ChannelInv'
  BY <1>1, EnvironmentStep, IoKeepsChannelInv, AuthKeepsChannelInv
     DEF Next, Stopped
<1> QED
  BY <1>2, ChannelInvInit, PTL DEF Spec

\* The bound rules a mutual wait out: a batch with an event left, a full
\* request channel, a full reply channel and a reply in hand exceed it.
LEMMA BoundExcludesDeadlock == ChannelInv => NeverBothBlocked
<1> SUFFICES ASSUME ChannelInv, IoBlocked, AuthBlocked PROVE FALSE
  BY DEF NeverBothBlocked
<1>1. IsFiniteSet(events) /\ Cardinality(events) \in Nat
  BY SourcesFinite DEF ChannelInv, TypeOK
<1>2. Cardinality(events) >= 1
  BY <1>1, FS_EmptySet DEF IoBlocked
<1>3. Len(req_ch) = REQ_CAP /\ Len(reply_ch) = REPLY_CAP
  BY CapAssumption DEF ChannelInv, TypeOK, IoBlocked, AuthBlocked,
                       CanSendRequest, CanSendReply
<1> QED
  BY <1>1, <1>2, <1>3, CapAssumption, BatchAssumption
     DEF ChannelInv, LoadBound, Load, IoBlocked, AuthBlocked

\* The I/O thread and the authority never wait for each other, however many
\* clients there are.
THEOREM ThreadsNeverDeadlock == Spec => []NeverBothBlocked
  BY ChannelInvariant, BoundExcludesDeadlock, PTL
=============================================================================
