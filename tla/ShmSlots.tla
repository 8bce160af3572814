------------------------------ MODULE ShmSlots ------------------------------
(***************************************************************************)
(* The shared-memory thread slots of triskelion: ShmManager (shm.rs) hands *)
(* one ThreadQueue-sized slot of the segment to every thread, and takes    *)
(* slots from MmapSlab (slab.rs), a bump allocator with a LIFO free list   *)
(* threaded through next_free.                                             *)
(*                                                                         *)
(* MmapSlab recognises a slot that is already free by next_free # FREE_END *)
(* which is wrong for the last slot of the free list; whether that matters *)
(* depends on how ShmManager calls it, so both are modelled together.      *)
(* The message rings are abstracted to the set of threads the queued       *)
(* messages are addressed to (MessageRing models the ring itself).         *)
(***************************************************************************)
EXTENDS Integers, FiniteSets

CONSTANTS MAX_THREADS, \* number of slots in the segment
          Tids         \* the thread ids the server allocates

ASSUME MaxThreadsAssumption == MAX_THREADS \in Nat \ {0}
ASSUME TidsAssumption == IsFiniteSet(Tids) /\ Tids \subseteq Nat \ {0}

VARIABLES next_free,   \* MmapSlab.meta[i].next_free
          free_head,   \* MmapSlab.free_head
          len,         \* MmapSlab.len
          bump,        \* MmapSlab.bump, which is also meta.len()
          slot_map,    \* ShmManager.slot_map: thread id -> slot
          next_slot,   \* ShmHeader.next_slot, read by the clients
          owner,       \* the tid field of the ThreadQueue in each slot
          ring         \* the threads the messages in each slot are meant for

slab == <<next_free, free_head, len, bump>>
vars == <<next_free, free_head, len, bump, slot_map, next_slot, owner, ring>>

Slots == 0 .. MAX_THREADS - 1
FREE_END == -1
NoSlot == -1
NoTid == 0
-----------------------------------------------------------------------------
(* MmapSlab *)

\* Fault: the popped slot keeps its link, so it looks free when it is removed.
PopFreeKeepsLink(idx) ==
    /\ free_head # FREE_END
    /\ idx = free_head
    /\ free_head' = next_free[idx]
    /\ len' = len + 1
    /\ UNCHANGED <<next_free, bump>>

PopFree(idx) ==
    /\ free_head # FREE_END
    /\ idx = free_head
    /\ free_head' = next_free[idx]
    /\ next_free' = [next_free EXCEPT ![idx] = FREE_END]
    /\ len' = len + 1
    /\ UNCHANGED bump

BumpNew(idx) ==
    /\ free_head = FREE_END
    /\ bump < MAX_THREADS
    /\ idx = bump
    /\ bump' = bump + 1
    /\ next_free' = [next_free EXCEPT ![idx] = FREE_END]
    /\ len' = len + 1
    /\ UNCHANGED free_head

SlabFull == free_head = FREE_END /\ bump = MAX_THREADS

SlabRemove(index) ==
    IF index >= bump \/ next_free[index] # FREE_END
    THEN UNCHANGED slab
    ELSE /\ next_free' = [next_free EXCEPT ![index] = free_head]
         /\ free_head' = index
         /\ len' = len - 1
         /\ UNCHANGED bump
-----------------------------------------------------------------------------
(* ShmManager *)

\* ThreadQueue::init_at: zero the slot, then write the thread id
InitAt(slot, tid) ==
    /\ owner' = [owner EXCEPT ![slot] = tid]
    /\ ring' = [ring EXCEPT ![slot] = {}]

\* A thread that already has a slot keeps it and gets an empty queue.
\* Fault: a thread that reconnects is given a fresh slot instead.
ReuseSlotAnew(tid) ==
    /\ slot_map[tid] # NoSlot
    /\ \E slot \in Slots :
          /\ PopFree(slot) \/ BumpNew(slot)
          /\ InitAt(slot, tid)
          /\ slot_map' = [slot_map EXCEPT ![tid] = slot]
    /\ next_slot' = bump'

ReuseSlot(tid) ==
    /\ slot_map[tid] # NoSlot
    /\ InitAt(slot_map[tid], tid)
    /\ UNCHANGED <<slab, slot_map, next_slot>>

NewSlot(tid) ==
    /\ slot_map[tid] = NoSlot
    /\ \E slot \in Slots :
          /\ PopFree(slot) \/ BumpNew(slot)
          /\ next_slot' = bump'
          /\ InitAt(slot, tid)
          /\ slot_map' = [slot_map EXCEPT ![tid] = slot]

\* The slab is full: alloc_slot returns None, and the thread's init request
\* fails with STATUS_NO_MEMORY.
RefuseSlot(tid) ==
    /\ slot_map[tid] = NoSlot
    /\ SlabFull
    /\ UNCHANGED vars

\* Fault: the slot goes back to the slab but the thread keeps it in slot_map.
FreeSlotKeepsMapping(tid) ==
    /\ slot_map[tid] # NoSlot
    /\ owner' = [owner EXCEPT ![slot_map[tid]] = NoTid]
    /\ ring' = [ring EXCEPT ![slot_map[tid]] = {}]
    /\ SlabRemove(slot_map[tid])
    /\ UNCHANGED <<slot_map, next_slot>>

FreeSlot(tid) ==
    /\ slot_map[tid] # NoSlot
    /\ slot_map' = [slot_map EXCEPT ![tid] = NoSlot]
    /\ owner' = [owner EXCEPT ![slot_map[tid]] = NoTid]
    /\ ring' = [ring EXCEPT ![slot_map[tid]] = {}]
    /\ SlabRemove(slot_map[tid])
    /\ UNCHANGED next_slot

\* send_message and the posting handlers: get_queue(tid) then post
Post(tid) ==
    /\ slot_map[tid] # NoSlot
    /\ ring' = [ring EXCEPT ![slot_map[tid]] = @ \cup {tid}]
    /\ UNCHANGED <<slab, slot_map, next_slot, owner>>

\* get_message: get_queue(tid) then take what is there
Take(tid) ==
    /\ slot_map[tid] # NoSlot
    /\ ring[slot_map[tid]] # {}
    /\ ring' = [ring EXCEPT ![slot_map[tid]] = {}]
    /\ UNCHANGED <<slab, slot_map, next_slot, owner>>
-----------------------------------------------------------------------------
Init ==
    /\ next_free = [i \in Slots |-> FREE_END]
    /\ free_head = FREE_END
    /\ len = 0
    /\ bump = 0
    /\ slot_map = [t \in Tids |-> NoSlot]
    /\ next_slot = 0
    /\ owner = [i \in Slots |-> NoTid]
    /\ ring = [i \in Slots |-> {}]

Next ==
    \E t \in Tids :
        \/ ReuseSlot(t)
        \/ NewSlot(t)
        \/ RefuseSlot(t)
        \/ FreeSlot(t)
        \/ Post(t)
        \/ Take(t)

Spec == Init /\ [][Next]_vars
-----------------------------------------------------------------------------
(* Properties *)

Owned == {s \in Slots : \E t \in Tids : slot_map[t] = s}
Free == (0 .. bump - 1) \ Owned

TypeOK ==
    /\ next_free \in [Slots -> Slots \cup {FREE_END}]
    /\ free_head \in Slots \cup {FREE_END}
    /\ len \in Nat
    /\ bump \in 0 .. MAX_THREADS
    /\ slot_map \in [Tids -> Slots \cup {NoSlot}]
    /\ next_slot \in 0 .. MAX_THREADS
    /\ owner \in [Slots -> Tids \cup {NoTid}]
    /\ ring \in [Slots -> SUBSET Tids]

\* A thread's queue is its own: no two threads share a slot, the ThreadQueue in
\* the slot names its thread, and every message in it was posted to that thread
\* (alloc_slot and free_slot of shm.rs never hand a slot out twice).
QueueIsolation ==
    \A t \in Tids : slot_map[t] # NoSlot =>
        /\ \A u \in Tids \ {t} : slot_map[u] # slot_map[t]
        /\ owner[slot_map[t]] = t
        /\ ring[slot_map[t]] \subseteq {t}

\* MmapSlab::insert refuses only when every slot of the segment belongs to a
\* thread: no sequence of alloc_slot and free_slot loses a slot.
NoSlotLost == SlabFull => Owned = Slots

\* MmapSlab.len counts the slots in use, so `len -= 1` never underflows.
LenExact == len = Cardinality(Owned)

\* Clients check a slot against ShmHeader.next_slot: every slot in use is below.
HighWaterCoversOwned == \A s \in Owned : s < next_slot

\* The slot of a thread never moves while the thread keeps one (clients cache it).
SlotNeverMoves ==
    [][\A t \in Tids : slot_map[t] # NoSlot =>
          slot_map'[t] \in {slot_map[t], NoSlot}]_vars

\* The free list, without recursion: rank[s] is the distance of the free slot s
\* from the end of the list, and bump - len the length of the list, so the chain
\* from free_head visits every free slot exactly once and no owned slot.
FreeListChain(rank) ==
    /\ len = bump <=> free_head = FREE_END
    /\ free_head # FREE_END => free_head \in Free /\ rank[free_head] = bump - len
    /\ \A s \in Free :
          /\ rank[s] \in 1 .. bump - len
          /\ \A t \in Free : rank[s] = rank[t] => s = t
          /\ rank[s] = 1 => next_free[s] = FREE_END
          /\ rank[s] > 1 => next_free[s] \in Free /\ rank[next_free[s]] = rank[s] - 1

\* The inductive invariant: what makes the next_free test of MmapSlab::remove
\* harmless is that ShmManager only removes owned slots, whose next_free is FREE_END.
SlabInv ==
    /\ TypeOK
    /\ QueueIsolation
    /\ LenExact
    /\ \A s \in Owned : next_free[s] = FREE_END /\ s < bump
    /\ next_slot = bump
    /\ \E rank \in [Slots -> 0 .. MAX_THREADS] : FreeListChain(rank)
=============================================================================
