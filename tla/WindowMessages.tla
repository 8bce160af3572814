--------------------------- MODULE WindowMessages ---------------------------
(***************************************************************************)
(* Window messages between Wine threads, as the daemon routes them         *)
(* (event_loop/window.rs, sent_messages.rs, queue.rs, set_queue_bits in    *)
(* event_loop/mod.rs, and the per-thread part of disconnect_client).       *)
(*                                                                         *)
(* Every message goes into the receiver's ring.  A blocking send is also   *)
(* tracked as an envelope on the receiver's stack until reply_message pops *)
(* it and sets QS_SMRESULT for the sender, unless the message code was     *)
(* promoted to the fast path.  get_message offers, in this order: a        *)
(* tracked send, the ring, WM_QUIT, WM_PAINT, an expired timer.            *)
(*                                                                         *)
(* The Wine side is external: a thread inside SendMessage waits for        *)
(* QS_SMRESULT and meanwhile handles sent messages only, and a handler may *)
(* send in turn, so the waits and handlers of a thread form a stack.       *)
(* Timers are thread timers (win = 0), named by their id.                  *)
(***************************************************************************)
EXTENDS Integers, Sequences, FiniteSets, SequencesExt

CONSTANTS Threads,
          ProcessOf,       \* the process of a thread
          Codes,           \* message codes
          RING_CAPACITY,
          MIN_OBSERVATIONS,
          Windows, OwnerOf, ChildrenOf,  \* windows, their threads and descendants
          ExplicitIds,     \* timer ids the program chooses (0: ask for one)
          TIMER_TOP, TIMER_LOW,  \* 0x7fff and 0x100
          Quitters,        \* threads that may call PostQuitMessage
          Callers,         \* threads that may call SendMessageCallback
          MAX_SENDS,       \* bound: messages sent
          MAX_WAITS,       \* bound: nested sends of a thread
          MAX_TIMERS       \* bound: timers of a thread

ASSUME MessageAssumption ==
    /\ RING_CAPACITY \in Nat \ {0} /\ MIN_OBSERVATIONS \in Nat \ {0}
    /\ TIMER_LOW < TIMER_TOP /\ Quitters \cup Callers \subseteq Threads
    /\ \A w \in Windows : OwnerOf[w] \in Threads /\ ChildrenOf[w] \subseteq Windows

VARIABLES connected,  \* threads with a client
          ring,       \* posted ring of a thread
          pending,    \* SentMessages.pending: a stack of envelopes per receiver
          profiles,   \* SentMessages.profiles
          bits,       \* wake_bits of a thread in the session memory
          quit,       \* thread_quit_state
          paint,      \* windows with needs_paint
          tpend, texp,  \* win_timers_pending, win_timers_expired
          next_timer, \* next_timer_ids
          stack,      \* Wine: the waits and handlers of a thread, innermost last
          sends,      \* bound: messages sent so far
          armed       \* not in the code: how many timers of each id were set
                      \* and neither replaced nor killed

timerVars == <<tpend, texp, next_timer, armed>>
vars == <<connected, ring, pending, profiles, bits, stack, sends, quit, paint, timerVars>>

NoProfile == [fast |-> 0, observations |-> 0, promoted |-> FALSE]
Empty == [t \in Threads |-> <<>>]
TimerIds == 1 .. TIMER_TOP

Init ==
    /\ connected = Threads
    /\ ring = Empty /\ pending = Empty /\ stack = Empty
    /\ profiles = [c \in Codes |-> NoProfile]
    /\ bits = [t \in Threads |-> {}]
    /\ quit = {} /\ paint = {}
    /\ tpend = Empty /\ texp = Empty
    /\ next_timer = [t \in Threads |-> TIMER_TOP]
    /\ armed = [t \in Threads |-> [id \in TimerIds |-> 0]]
    /\ sends = 0

\* set_queue_bits_for_tid, for each of a set of threads: a thread that is
\* gone has no bits to set
SetBits(b, ts, q) == [t \in Threads |-> IF t \in ts \cap connected THEN b[t] \cup {q} ELSE b[t]]

-----------------------------------------------------------------------------
\* sent_messages.rs

Confident(p) == p.observations >= MIN_OBSERVATIONS /\ 10 * p.fast >= 9 * p.observations
CheckPromote(p) == [p EXCEPT !.promoted = @ \/ Confident(p)]
\* fault: a promoted code keeps its promotion
DemoteNever(p) == p
Demote(p) == IF p.promoted THEN [p EXCEPT !.promoted = FALSE, !.fast = 0] ELSE p

Observe(p, zero) ==
    LET q == [p EXCEPT !.observations = @ + 1]
    IN  IF zero THEN CheckPromote([q EXCEPT !.fast = @ + 1]) ELSE Demote(q)

-----------------------------------------------------------------------------
\* the Wine side

Wait(m) == [op |-> "wait", msg |-> m]
Handle(m) == [op |-> "handle", msg |-> m]
Idle(t) == t \in connected /\ stack[t] = <<>>
Waiting(t) == t \in connected /\ stack[t] # <<>> /\ Last(stack[t]).op = "wait"
Handling(t) == t \in connected /\ stack[t] # <<>> /\ Last(stack[t]).op = "handle"
Waits(t) == {f.msg.id : f \in {g \in ToSet(stack[t]) : g.op = "wait"}}

-----------------------------------------------------------------------------
\* handle_send_message

CanSend(s) ==
    /\ Idle(s) \/ Handling(s)
    /\ sends < MAX_SENDS /\ Cardinality(Waits(s)) < MAX_WAITS

NewMessage(s, r, k, c) ==
    [id |-> sends + 1, from |-> s, code |-> c, kind |-> k,
     local |-> ProcessOf[s] = ProcessOf[r]]

\* fault: one message too many fits
RoomOver(r) == Len(ring[r]) <= RING_CAPACITY
Room(r) == Len(ring[r]) < RING_CAPACITY

StartWait(s, m) == stack' = [stack EXCEPT ![s] = Append(@, Wait(m))]

\* the target is gone, or its ring is full: a blocking sender is released
\* (a message that is posted has no effect)
Refuse(s, r) ==
    /\ sends < MAX_SENDS /\ ~(r \in connected /\ Room(r))
    /\ bits' = SetBits(bits, {s}, "smresult")
    /\ sends' = sends + 1
    /\ UNCHANGED <<connected, ring, pending, profiles, quit, paint, timerVars>>

SendMessageRefused(s, r, c) ==
    /\ CanSend(s)
    /\ Refuse(s, r)
    /\ StartWait(s, NewMessage(s, r, "send", c))

\* MSG_POSTED and MSG_NOTIFY
PostMessage(s, r, c) ==
    /\ CanSend(s) /\ r \in connected /\ Room(r)
    /\ ring' = [ring EXCEPT ![r] = Append(@, NewMessage(s, r, "post", c))]
    /\ bits' = SetBits(bits, {r}, "post")
    /\ sends' = sends + 1
    /\ UNCHANGED <<connected, pending, profiles, stack, quit, paint, timerVars>>

\* a blocking send: same process is always tracked, another process unless the
\* window is the daemon's (`desktop`) or the code is promoted
Route(m, r, desktop) ==
    LET fast == ~m.local /\ (desktop \/ profiles[m.code].promoted)
    IN  /\ sends < MAX_SENDS /\ r \in connected /\ Room(r)
        /\ ring' = [ring EXCEPT ![r] = Append(@, m)]
        /\ pending' = IF fast THEN pending ELSE [pending EXCEPT ![r] = Append(@, m)]
        /\ bits' = SetBits(SetBits(bits, {r}, "send"),
                           IF fast THEN {m.from} ELSE {}, "smresult")
        /\ sends' = sends + 1
        /\ UNCHANGED <<connected, profiles, quit, paint, timerVars>>

SendMessage(s, r, c, desktop) ==
    LET m == NewMessage(s, r, "send", c)
    IN  /\ CanSend(s)
        /\ Route(m, r, desktop)
        /\ StartWait(s, m)

\* MSG_CALLBACK counts as blocking here, but Wine's sender does not wait
SendCallback(s, r, c, desktop) ==
    /\ Idle(s) \/ Handling(s)
    /\ Refuse(s, r) \/ Route(NewMessage(s, r, "callback", c), r, desktop)
    /\ UNCHANGED stack

-----------------------------------------------------------------------------
\* handle_get_message, by what it finds first.  A waiting thread asks for sent
\* messages only; an idle one may leave them out of its filter.

NoSent(t) == pending[t] = <<>>
NoPosted(t) == NoSent(t) /\ ring[t] = <<>>
MustPaint(t) == \E w \in paint : OwnerOf[w] = t


\* the envelope stays until the reply
GetSentMessage(t) ==
    /\ Idle(t) \/ Waiting(t)
    /\ ~NoSent(t)
    /\ stack' = [stack EXCEPT ![t] = Append(@, Handle(Last(pending[t])))]
    /\ UNCHANGED <<connected, ring, pending, profiles, bits, sends, quit, paint, timerVars>>

\* queue.get() pops the ring, whether the caller removes (PM_REMOVE) or peeks
GetPostedMessage(t) ==
    /\ Idle(t) /\ ring[t] # <<>>
    /\ ring' = [ring EXCEPT ![t] = Tail(@)]
    /\ stack' = IF Head(ring[t]).kind # "post"
                THEN [stack EXCEPT ![t] = Append(@, Handle(Head(ring[t])))] ELSE stack
    /\ UNCHANGED <<connected, pending, profiles, bits, sends, quit, paint, timerVars>>

\* WM_QUIT with PM_REMOVE (PM_NOREMOVE changes nothing)
GetQuit(t) ==
    /\ Idle(t) /\ NoPosted(t) /\ t \in quit
    /\ quit' = quit \ {t}
    /\ UNCHANGED <<connected, ring, pending, profiles, bits, stack, sends, paint, timerVars>>

TimerIsNext(t) ==
    Idle(t) /\ NoPosted(t) /\ t \notin quit /\ ~MustPaint(t) /\ texp[t] # <<>>


\* PM_REMOVE restarts the timer (PM_NOREMOVE puts it back where it was)
GetTimer(t) ==
    /\ TimerIsNext(t)
    /\ texp' = [texp EXCEPT ![t] = Tail(@)]
    /\ tpend' = [tpend EXCEPT ![t] = Append(@, Head(texp[t]))]
    /\ UNCHANGED <<connected, ring, pending, profiles, bits, stack, sends, quit, paint,
                   next_timer, armed>>

-----------------------------------------------------------------------------
Return(t) == stack' = [stack EXCEPT ![t] = Front(@)]

\* handle_reply_message: the most recent envelope, whatever is replied to
ReplyMessage(t) ==
    /\ Handling(t) /\ Return(t)
    /\ IF NoSent(t)
       THEN UNCHANGED <<pending, profiles, bits>>
       ELSE LET m == Last(pending[t])
            IN  /\ pending' = [pending EXCEPT ![t] = Front(@)]
                /\ \E zero \in BOOLEAN :
                      profiles' = [profiles EXCEPT ![m.code] = Observe(@, zero)]
                /\ bits' = SetBits(bits, {m.from}, "smresult")
    /\ UNCHANGED <<connected, ring, sends, quit, paint, timerVars>>

\* handle_get_message_reply, by a sender whose wait saw QS_SMRESULT
GetMessageReply(s) ==
    /\ Waiting(s) /\ "smresult" \in bits[s] /\ Return(s)
    /\ bits' = [bits EXCEPT ![s] = @ \ {"smresult"}]
    /\ UNCHANGED <<connected, ring, pending, profiles, sends, quit, paint, timerVars>>

PostQuitMessage(t) ==
    /\ t \in Quitters \ quit /\ Idle(t)
    /\ quit' = quit \cup {t}
    /\ bits' = SetBits(bits, {t}, "post")
    /\ UNCHANGED <<connected, ring, pending, profiles, stack, sends, paint, timerVars>>

\* handle_redraw_window: the window, and its children when asked for, are
\* invalidated, validated or both in this order; an invalidation signals the
\* thread of the window
RedrawWindow(w, children, invalidate, validate) ==
    LET targets == {w} \cup (IF children THEN ChildrenOf[w] ELSE {})
    IN  /\ paint' = (paint \cup (IF invalidate THEN targets ELSE {}))
                       \ (IF validate THEN targets ELSE {})
        /\ bits' = IF invalidate THEN SetBits(bits, {OwnerOf[w]}, "paint") ELSE bits
        /\ UNCHANGED <<connected, ring, pending, profiles, stack, sends, quit, timerVars>>


\* handle_get_update_region: a window is painted; the bit goes with the last
GetUpdateRegion(w) ==
    LET t == OwnerOf[w] IN
    /\ w \in paint
    /\ paint' = paint \ {w}
    /\ bits' = IF t \in connected /\ ~\E v \in paint' : OwnerOf[v] = t
               THEN [bits EXCEPT ![t] = @ \ {"paint"}] ELSE bits
    /\ UNCHANGED <<connected, ring, pending, profiles, stack, sends, quit, timerVars>>

-----------------------------------------------------------------------------
\* timers

Without(list, id) == SelectSeq(list, LAMBDA x : x # id)
NextTimer(n) == IF n - 1 <= TIMER_LOW THEN TIMER_TOP ELSE n - 1

\* handle_set_win_timer: a timer of the wanted id is replaced, then an id is
\* assigned, whether or not a timer has it
SetWinTimer(t, wanted) ==
    LET id == IF wanted = 0 THEN next_timer[t] ELSE wanted
    IN  /\ Idle(t) /\ Len(tpend[t]) + Len(texp[t]) < MAX_TIMERS
        /\ tpend' = [tpend EXCEPT ![t] = Append(Without(@, wanted), id)]
        /\ texp' = [texp EXCEPT ![t] = Without(@, wanted)]
        /\ next_timer' = IF wanted = 0 THEN [next_timer EXCEPT ![t] = NextTimer(@)] ELSE next_timer
        /\ armed' = [armed EXCEPT ![t][id] = IF wanted = 0 THEN @ + 1 ELSE 1]
        /\ UNCHANGED <<connected, ring, pending, profiles, bits, stack, sends, quit, paint>>

KillWinTimer(t, id) ==
    /\ Idle(t)
    /\ id \in ToSet(tpend[t]) \cup ToSet(texp[t])
    /\ tpend' = [tpend EXCEPT ![t] = Without(@, id)]
    /\ texp' = [texp EXCEPT ![t] = Without(@, id)]
    /\ armed' = [armed EXCEPT ![t][id] = 0]
    /\ UNCHANGED <<connected, ring, pending, profiles, bits, stack, sends, quit, paint,
                   next_timer>>

\* the elements of a list at a set of positions
At(list, places) ==
    LET ordered == SetToSortSeq(places, <)
    IN  [k \in 1 .. Len(ordered) |-> list[ordered[k]]]

\* check_win_timers, with the timers at the places `due` past their time
CheckWinTimers(due) ==
    LET Due(t) == {i \in DOMAIN tpend[t] : <<t, i>> \in due}
    IN  /\ tpend' = [t \in Threads |-> At(tpend[t], DOMAIN tpend[t] \ Due(t))]
        /\ texp' = [t \in Threads |-> texp[t] \o At(tpend[t], Due(t))]
        /\ UNCHANGED <<connected, ring, pending, profiles, bits, stack, sends, quit, paint,
                       next_timer, armed>>

-----------------------------------------------------------------------------

\* disconnect_client: the queue slot, the envelopes and the quit state of the
\* thread go, with a zero observed for each envelope; its timers stay (the code
\* looks for them under window handles)
Disconnect(t) ==
    LET senders == {m.from : m \in ToSet(pending[t])}
        Drained(c) == FoldSeq(LAMBDA m, p : IF m.code = c THEN Observe(p, TRUE) ELSE p,
                              profiles[c], pending[t])
    IN  /\ t \in connected
        /\ connected' = connected \ {t}
        /\ ring' = [ring EXCEPT ![t] = <<>>]
        /\ pending' = [pending EXCEPT ![t] = <<>>]
        /\ profiles' = [c \in Codes |-> Drained(c)]
        /\ bits' = [SetBits(bits, senders, "smresult") EXCEPT ![t] = {}]
        /\ quit' = quit \ {t}
        /\ next_timer' = [next_timer EXCEPT ![t] = TIMER_TOP]
        /\ stack' = [stack EXCEPT ![t] = <<>>]
        /\ UNCHANGED <<sends, paint, tpend, texp, armed>>

Next ==
    \/ \E s \in Threads, r \in Threads, c \in Codes : PostMessage(s, r, c)
    \/ \E s \in Threads, r \in Threads, c \in Codes :
          \E desktop \in {FALSE, ProcessOf[s] # ProcessOf[r]} :
             s # r /\ SendMessage(s, r, c, desktop)
    \/ \E s \in Callers, r \in Threads, c \in Codes :
          \E desktop \in {FALSE, ProcessOf[s] # ProcessOf[r]} :
             s # r /\ SendCallback(s, r, c, desktop)
    \/ \E s \in Threads, r \in Threads, c \in Codes :
          s # r /\ SendMessageRefused(s, r, c)
    \/ \E t \in Threads : GetSentMessage(t)
    \/ \E t \in Threads : GetPostedMessage(t)
    \/ \E t \in Threads : GetQuit(t)
    \/ \E t \in Threads : GetTimer(t)
    \/ \E t \in Threads : ReplyMessage(t)
    \/ \E t \in Threads : GetMessageReply(t)
    \/ \E t \in Threads : PostQuitMessage(t)
    \/ \E w \in Windows, invalidate, validate \in BOOLEAN :
          \E children \in {FALSE, ChildrenOf[w] # {}} :
             /\ invalidate \/ (validate /\ paint # {})
             /\ RedrawWindow(w, children, invalidate, validate)
    \/ \E w \in Windows : GetUpdateRegion(w)
    \/ \E t \in Threads, id \in ExplicitIds : SetWinTimer(t, id)
    \/ \E t \in Threads, id \in TimerIds : KillWinTimer(t, id)
    \/ \E due \in SUBSET UNION {{t} \X DOMAIN tpend[t] : t \in Threads} : CheckWinTimers(due)
    \/ \E t \in Threads : Disconnect(t)

Spec == Init /\ [][Next]_vars

\* Wine's message loops run: a thread takes the sent messages it waits with,
\* replies to what it was handed, and reads a result that has arrived.
Fairness ==
    \A t \in Threads :
        WF_vars(GetSentMessage(t)) /\ WF_vars(ReplyMessage(t)) /\ WF_vars(GetMessageReply(t))
FairSpec == Spec /\ Fairness

-----------------------------------------------------------------------------
\* Types; a ring holds no more than its capacity, an assigned timer id stays
\* above 0x100.
TypeOK ==
    /\ connected \subseteq Threads /\ quit \subseteq Quitters /\ paint \subseteq Windows
    /\ \A t \in Threads :
        /\ Len(ring[t]) <= RING_CAPACITY
        /\ \A m \in ToSet(pending[t]) : m.kind # "post" /\ m.from \in Threads
        /\ bits[t] \subseteq {"send", "post", "smresult", "paint"}
        /\ Waits(t) \subseteq 1 .. sends
        /\ next_timer[t] \in TIMER_LOW + 1 .. TIMER_TOP
    /\ \A c \in Codes : profiles[c].fast <= profiles[c].observations

Envelopes(s) ==
    {m.id : m \in {n \in UNION {ToSet(pending[r]) : r \in Threads} : n.from = s}}


\* A message code takes the fast path only while at least nine in ten of its
\* observed replies were zero, over MIN_OBSERVATIONS replies or more, also
\* after demotions and receivers that died (observe_reply,
\* drain_all_for_receiver).
PromotionEarned == \A c \in Codes : profiles[c].promoted => Confident(profiles[c])




-----------------------------------------------------------------------------
\* disconnect_client's comment: a tracked send "must wake their senders with
\* QS_SMRESULT or those threads block forever".  A thread that waits has a
\* result, or an envelope that will give it one.
NoSenderStranded ==
    \A s \in connected : Waits(s) # {} => "smresult" \in bits[s] \/ Envelopes(s) # {}
=============================================================================
