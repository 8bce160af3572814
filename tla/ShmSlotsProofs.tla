--------------------------- MODULE ShmSlotsProofs ---------------------------
(***************************************************************************)
(* For every number of slots and every finite set of threads: a thread's   *)
(* queue is its own, no slot is ever lost and len is exact.                *)
(***************************************************************************)
EXTENDS ShmSlots, FiniteSetTheorems, TLAPS

\* The set of slots is finite, and so is every set of owned slots.
LEMMA OwnedFinite == IsFiniteSet(Slots) /\ IsFiniteSet(Owned) /\ Cardinality(Owned) \in Nat
<1>1. IsFiniteSet(Slots)
  BY FS_Interval, MaxThreadsAssumption DEF Slots
<1>2. IsFiniteSet(Owned)
  BY <1>1, FS_Subset DEF Owned
<1> QED
  BY <1>1, <1>2, FS_CardinalityType

\* The empty server satisfies the inductive invariant.
LEMMA SlabInvInit == Init => SlabInv
<1> SUFFICES ASSUME Init PROVE SlabInv
  OBVIOUS
<1> USE MaxThreadsAssumption, TidsAssumption
<1>1. TypeOK
  BY DEF Init, TypeOK, Slots, FREE_END, NoSlot, NoTid
<1>2. Owned = {}
  BY DEF Init, Owned, Slots, NoSlot
<1>3. LenExact
  BY <1>2, FS_EmptySet DEF Init, LenExact
<1>4. QueueIsolation
  BY DEF Init, QueueIsolation
<1>5. \E rank \in [Slots -> 0 .. MAX_THREADS] : FreeListChain(rank)
  <2> DEFINE rank == [s \in Slots |-> 0]
  <2>1. rank \in [Slots -> 0 .. MAX_THREADS]
    OBVIOUS
  <2>2. FreeListChain(rank)
    BY DEF Init, FreeListChain, Free
  <2> QED
    BY <2>1, <2>2
<1> QED
  BY <1>1, <1>2, <1>3, <1>4, <1>5 DEF SlabInv, Init

\* ReuseSlot re-initialises the slot of a thread in place.
LEMMA ReuseStep == ASSUME SlabInv, NEW t \in Tids, ReuseSlot(t) PROVE SlabInv'
<1> USE MaxThreadsAssumption, TidsAssumption
<1>1. Owned' = Owned /\ Free' = Free
  BY DEF ReuseSlot, Owned, Free, slab
<1>2. TypeOK'
  BY DEF SlabInv, TypeOK, ReuseSlot, InitAt, slab, NoSlot, NoTid, FREE_END
<1>3. QueueIsolation'
  BY DEF SlabInv, TypeOK, QueueIsolation, ReuseSlot, InitAt
<1>4. LenExact'
  BY <1>1 DEF SlabInv, LenExact, ReuseSlot, slab
<1>5. (\E rank \in [Slots -> 0 .. MAX_THREADS] : FreeListChain(rank))'
  BY <1>1 DEF SlabInv, FreeListChain, ReuseSlot, slab
<1> QED
  BY <1>1, <1>2, <1>3, <1>4, <1>5 DEF SlabInv, ReuseSlot, slab

\* Post and Take change only the contents of the thread's own ring.
LEMMA RingStep == ASSUME SlabInv, NEW t \in Tids, Post(t) \/ Take(t) PROVE SlabInv'
<1> USE MaxThreadsAssumption, TidsAssumption
<1>0. slot_map[t] \in Slots /\ UNCHANGED <<slab, slot_map, next_slot, owner>>
  BY DEF SlabInv, TypeOK, Post, Take, slab
<1>1. Owned' = Owned /\ Free' = Free
  BY <1>0 DEF Owned, Free, slab
<1>2. TypeOK'
  BY <1>0 DEF SlabInv, TypeOK, Post, Take, slab
<1>3. QueueIsolation'
  BY <1>0 DEF SlabInv, TypeOK, QueueIsolation, Post, Take
<1>4. LenExact'
  BY <1>0, <1>1 DEF SlabInv, LenExact, slab
<1>5. (\E rank \in [Slots -> 0 .. MAX_THREADS] : FreeListChain(rank))'
  BY <1>0, <1>1 DEF SlabInv, FreeListChain, slab
<1> QED
  BY <1>0, <1>1, <1>2, <1>3, <1>4, <1>5 DEF SlabInv, slab

\* What NewSlot does, whichever way the slab found the slot, once the slot is
\* known to belong to nobody.
LEMMA NewSlotIsolated ==
  ASSUME SlabInv, NEW t \in Tids, NEW slot \in Slots, slot \notin Owned,
         slot_map[t] = NoSlot, InitAt(slot, t), slot_map' = [slot_map EXCEPT ![t] = slot]
  PROVE  /\ Owned' = Owned \cup {slot}
         /\ Cardinality(Owned') = Cardinality(Owned) + 1
         /\ QueueIsolation'
         /\ slot_map' \in [Tids -> Slots \cup {NoSlot}]
         /\ owner' \in [Slots -> Tids \cup {NoTid}]
         /\ ring' \in [Slots -> SUBSET Tids]
<1> USE MaxThreadsAssumption, TidsAssumption
<1>1. Owned' = Owned \cup {slot}
  BY DEF SlabInv, TypeOK, Owned, NoSlot, Slots
<1>2. Cardinality(Owned') = Cardinality(Owned) + 1
  BY <1>1, OwnedFinite, FS_AddElement
<1>3. \A u \in Tids : slot_map[u] # slot
  BY DEF Owned
<1>4. QueueIsolation'
  BY <1>3 DEF SlabInv, TypeOK, QueueIsolation, InitAt
<1> QED
  BY <1>1, <1>2, <1>4 DEF SlabInv, TypeOK, InitAt

\* NewSlot through the free list.
LEMMA PopStep ==
  ASSUME SlabInv, NEW t \in Tids, NEW slot \in Slots, slot_map[t] = NoSlot,
         PopFree(slot), next_slot' = bump', InitAt(slot, t),
         slot_map' = [slot_map EXCEPT ![t] = slot]
  PROVE  SlabInv'
<1> USE MaxThreadsAssumption, TidsAssumption
<1>1. PICK rank \in [Slots -> 0 .. MAX_THREADS] : FreeListChain(rank)
  BY DEF SlabInv
<1>2. slot \in Free /\ slot \notin Owned /\ rank[slot] = bump - len /\ slot < bump
  BY <1>1 DEF PopFree, FreeListChain, Free, SlabInv, TypeOK
<1>3. /\ Owned' = Owned \cup {slot}
      /\ Cardinality(Owned') = Cardinality(Owned) + 1
      /\ QueueIsolation'
      /\ slot_map' \in [Tids -> Slots \cup {NoSlot}]
      /\ owner' \in [Slots -> Tids \cup {NoTid}]
      /\ ring' \in [Slots -> SUBSET Tids]
  BY <1>2, NewSlotIsolated
<1>4. TypeOK'
  <2>1. TypeOK
    BY DEF SlabInv
  <2>2. bump' \in 0 .. MAX_THREADS /\ len' \in Nat
    BY <2>1 DEF TypeOK, PopFree
  <2>3. next_free' \in [Slots -> Slots \cup {FREE_END}] /\ free_head' \in Slots \cup {FREE_END}
    BY <2>1 DEF TypeOK, PopFree
  <2> QED
    BY <1>3, <2>2, <2>3 DEF TypeOK
<1>5. LenExact'
  BY <1>3 DEF SlabInv, LenExact, PopFree
<1>6. Free' = Free \ {slot}
  BY <1>3 DEF PopFree, Free
<1>7. FreeListChain(rank)'
  <2>1. bump - len \in Int /\ bump' - len' = bump - len - 1 /\ bump' = bump
    BY DEF PopFree, SlabInv, TypeOK
  <2>2. \A s \in Free' : rank[s] < bump - len /\ next_free'[s] = next_free[s]
    <3> SUFFICES ASSUME NEW s \in Free'
                 PROVE  rank[s] < bump - len /\ next_free'[s] = next_free[s]
      OBVIOUS
    <3>1. s \in Free /\ s # slot
      BY <1>6
    <3>2. rank[s] \in 1 .. bump - len /\ rank[s] # rank[slot]
      BY <1>1, <1>2, <3>1 DEF FreeListChain
    <3>3. next_free'[s] = next_free[s]
      BY <3>1 DEF PopFree, SlabInv, TypeOK
    <3> QED
      BY <1>2, <2>1, <3>2, <3>3
  <2>3. \A s \in Free' : next_free[s] # slot
    <3> SUFFICES ASSUME NEW s \in Free', next_free[s] = slot PROVE FALSE
      OBVIOUS
    <3>1. s \in Free /\ rank[s] \in 1 .. bump - len /\ rank[s] < bump - len
      BY <1>1, <1>6, <2>2 DEF FreeListChain
    <3>2. slot # FREE_END
      BY DEF FREE_END, Slots
    <3>3. rank[slot] = rank[s] - 1
      BY <1>1, <3>1, <3>2 DEF FreeListChain
    <3> QED
      BY <1>2, <2>1, <3>1, <3>3
  <2>4. \A s \in Free' :
          /\ rank[s] \in 1 .. bump' - len'
          /\ \A u \in Free' : rank[s] = rank[u] => s = u
          /\ rank[s] = 1 => next_free'[s] = FREE_END
          /\ rank[s] > 1 => next_free'[s] \in Free' /\ rank[next_free'[s]] = rank[s] - 1
    BY <1>1, <1>6, <2>1, <2>2, <2>3 DEF FreeListChain
  <2>5. rank[slot] = 1 <=> free_head' = FREE_END
    BY <1>1, <1>2, <2>1 DEF FreeListChain, PopFree, FREE_END, Free
  <2>6. free_head' # FREE_END => free_head' \in Free' /\ rank[free_head'] = bump' - len'
    BY <1>1, <1>2, <1>6, <2>1, <2>5 DEF FreeListChain, PopFree
  <2>7. len' = bump' <=> free_head' = FREE_END
    BY <1>2, <2>1, <2>5 DEF SlabInv, TypeOK, PopFree
  <2> QED
    BY <2>4, <2>6, <2>7 DEF FreeListChain
<1>8. \A s \in Owned' : next_free'[s] = FREE_END /\ s < bump'
  BY <1>2, <1>3 DEF SlabInv, TypeOK, PopFree
<1> QED
  BY <1>3, <1>4, <1>5, <1>7, <1>8 DEF SlabInv

\* NewSlot by growing the slab.
LEMMA BumpStep ==
  ASSUME SlabInv, NEW t \in Tids, NEW slot \in Slots, slot_map[t] = NoSlot,
         BumpNew(slot), next_slot' = bump', InitAt(slot, t),
         slot_map' = [slot_map EXCEPT ![t] = slot]
  PROVE  SlabInv'
<1> USE MaxThreadsAssumption, TidsAssumption
<1>1. PICK rank \in [Slots -> 0 .. MAX_THREADS] : FreeListChain(rank)
  BY DEF SlabInv
<1>2. slot \notin Owned /\ len = bump /\ Free = {}
  BY <1>1 DEF BumpNew, FreeListChain, SlabInv, TypeOK
<1>3. /\ Owned' = Owned \cup {slot}
      /\ Cardinality(Owned') = Cardinality(Owned) + 1
      /\ QueueIsolation'
      /\ slot_map' \in [Tids -> Slots \cup {NoSlot}]
      /\ owner' \in [Slots -> Tids \cup {NoTid}]
      /\ ring' \in [Slots -> SUBSET Tids]
  BY <1>2, NewSlotIsolated
<1>4. TypeOK'
  <2>1. TypeOK
    BY DEF SlabInv
  <2>2. bump' \in 0 .. MAX_THREADS /\ len' \in Nat
    BY <2>1 DEF TypeOK, BumpNew
  <2>3. next_free' \in [Slots -> Slots \cup {FREE_END}] /\ free_head' \in Slots \cup {FREE_END}
    BY <2>1 DEF TypeOK, BumpNew
  <2> QED
    BY <1>3, <2>2, <2>3 DEF TypeOK
<1>5. LenExact'
  BY <1>3 DEF SlabInv, LenExact, BumpNew
<1>6. Free' = {}
  BY <1>2, <1>3 DEF BumpNew, Free, SlabInv, TypeOK
<1>7. FreeListChain(rank)'
  BY <1>2, <1>6 DEF FreeListChain, BumpNew, SlabInv, TypeOK
<1>8. \A s \in Owned' : next_free'[s] = FREE_END /\ s < bump'
  <2>1. \A s \in Owned : s \in Slots /\ s # bump /\ next_free[s] = FREE_END /\ s < bump
    BY DEF SlabInv, TypeOK, Owned, Slots
  <2> QED
    BY <1>3, <2>1 DEF SlabInv, TypeOK, BumpNew, Slots
<1> QED
  BY <1>3, <1>4, <1>5, <1>7, <1>8 DEF SlabInv

\* FreeSlot pushes the slot: an owned slot is never linked, so the test of
\* MmapSlab::remove lets it through.
LEMMA FreeStep == ASSUME SlabInv, NEW t \in Tids, FreeSlot(t) PROVE SlabInv'
<1> USE MaxThreadsAssumption, TidsAssumption
<1> DEFINE slot == slot_map[t]
<1>1. PICK rank \in [Slots -> 0 .. MAX_THREADS] : FreeListChain(rank)
  BY DEF SlabInv
<1>2. slot \in Slots /\ slot \in Owned /\ slot \notin Free /\ slot < bump
  BY DEF FreeSlot, SlabInv, TypeOK, Owned, Free
<1>3. /\ next_free' = [next_free EXCEPT ![slot] = free_head]
      /\ free_head' = slot
      /\ len' = len - 1
      /\ bump' = bump
  BY <1>2 DEF FreeSlot, SlabRemove, SlabInv, TypeOK, Slots
<1>4. Owned' = Owned \ {slot}
  <2>1. slot_map' = [slot_map EXCEPT ![t] = NoSlot] /\ slot # NoSlot
    BY DEF FreeSlot
  <2>2. \A u \in Tids \ {t} : slot_map[u] # slot
    BY <2>1 DEF SlabInv, QueueIsolation
  <2>3. NoSlot \notin Slots
    BY DEF NoSlot, Slots
  <2> QED
    BY <1>2, <2>1, <2>2, <2>3 DEF Owned, SlabInv, TypeOK
<1>5. Cardinality(Owned') = Cardinality(Owned) - 1
  BY <1>2, <1>4, OwnedFinite, FS_RemoveElement
<1>6. Cardinality(Owned) \in Nat /\ Cardinality(Owned) # 0
  BY <1>2, OwnedFinite, FS_EmptySet
<1>7. LenExact' /\ len' \in Nat
  BY <1>3, <1>5, <1>6 DEF SlabInv, LenExact
<1>8. TypeOK'
  BY <1>2, <1>3, <1>7 DEF FreeSlot, SlabInv, TypeOK, FREE_END
<1>9. QueueIsolation'
  BY <1>2 DEF FreeSlot, SlabInv, TypeOK, QueueIsolation, NoSlot, Slots
<1>10. Free' = Free \cup {slot}
  BY <1>2, <1>3, <1>4 DEF Free, Slots, SlabInv, TypeOK
<1>11. \A s \in Owned' : next_free'[s] = FREE_END /\ s < bump'
  BY <1>2, <1>3, <1>4 DEF SlabInv, TypeOK, Owned
<1>12. bump - len + 1 \in 1 .. MAX_THREADS /\ bump' - len' = bump - len + 1
  <2>1. len \in Nat /\ len # 0 /\ bump \in 0 .. MAX_THREADS
    BY <1>6 DEF SlabInv, LenExact, TypeOK
  <2>2. bump - len \in Nat
    BY <1>1, <2>1 DEF FreeListChain
  <2> QED
    BY <1>3, <2>1, <2>2
<1>13. PICK rank2 \in [Slots -> 0 .. MAX_THREADS] : rank2 = [rank EXCEPT ![slot] = bump - len + 1]
  <2>1. [rank EXCEPT ![slot] = bump - len + 1] \in [Slots -> 0 .. MAX_THREADS]
    BY <1>2, <1>12
  <2> QED
    BY <2>1
<1>14. FreeListChain(rank2)'
  <2>0. bump - len \in Nat /\ bump' - len' = bump - len + 1
    BY <1>3, <1>12 DEF SlabInv, TypeOK
  <2>1. rank2[slot] = bump - len + 1 /\ next_free'[slot] = free_head
    BY <1>2, <1>3, <1>13 DEF SlabInv, TypeOK
  <2>2. \A s \in Free : s # slot /\ s \in Slots /\ rank2[s] = rank[s] /\ next_free'[s] = next_free[s]
    BY <1>2, <1>3, <1>13 DEF SlabInv, TypeOK, Free, Slots
  <2>3. \A s \in Free : rank[s] \in 1 .. bump - len
    BY <1>1 DEF FreeListChain
  <2> HIDE DEF slot
  <2>4. \A s \in Free' : rank2[s] \in 1 .. bump' - len'
    BY <1>10, <2>0, <2>1, <2>2, <2>3
  <2>5. \A s, u \in Free' : rank2[s] = rank2[u] => s = u
    BY <1>1, <1>10, <2>0, <2>1, <2>2, <2>3 DEF FreeListChain
  <2>6. \A s \in Free' : rank2[s] = 1 => next_free'[s] = FREE_END
    BY <1>1, <1>10, <2>0, <2>1, <2>2, <2>3 DEF FreeListChain, SlabInv, TypeOK
  <2>7. \A s \in Free' : rank2[s] > 1 =>
           next_free'[s] \in Free' /\ rank2[next_free'[s]] = rank2[s] - 1
    BY <1>1, <1>10, <2>0, <2>1, <2>2, <2>3 DEF FreeListChain, SlabInv, TypeOK
  <2>8. free_head' # FREE_END /\ free_head' \in Free' /\ rank2[free_head'] = bump' - len'
    BY <1>2, <1>3, <1>10, <2>0, <2>1 DEF FREE_END, Slots
  <2>9. len' # bump'
    BY <2>0, <1>3, <1>7 DEF SlabInv, TypeOK
  <2> QED
    BY <2>4, <2>5, <2>6, <2>7, <2>8, <2>9 DEF FreeListChain
<1> QED
  <2>1. next_slot' = bump'
    BY <1>3 DEF FreeSlot, SlabInv
  <2> QED
    BY <2>1, <1>7, <1>8, <1>9, <1>11, <1>14 DEF SlabInv

\* Every step of the server preserves the inductive invariant.
LEMMA SlabInvStep == SlabInv /\ [Next]_vars => SlabInv'
<1> SUFFICES ASSUME SlabInv, [Next]_vars PROVE SlabInv'
  OBVIOUS
<1>1. ASSUME NEW t \in Tids, ReuseSlot(t) PROVE SlabInv'
  BY <1>1, ReuseStep
<1>2. ASSUME NEW t \in Tids, NewSlot(t) PROVE SlabInv'
  BY <1>2, PopStep, BumpStep DEF NewSlot
<1>3. ASSUME NEW t \in Tids, FreeSlot(t) PROVE SlabInv'
  BY <1>3, FreeStep
<1>4. ASSUME NEW t \in Tids, Post(t) \/ Take(t) PROVE SlabInv'
  BY <1>4, RingStep
<1>5. CASE UNCHANGED vars
  BY <1>5 DEF vars, SlabInv, TypeOK, QueueIsolation, LenExact, FreeListChain, Owned, Free
<1> QED
  BY <1>1, <1>2, <1>3, <1>4, <1>5 DEF Next, RefuseSlot

\* The inductive invariant holds in every reachable state of shm.rs and slab.rs.
THEOREM SlabInvariant == Spec => []SlabInv
<1> QED
  BY SlabInvInit, SlabInvStep, PTL DEF Spec

\* ShmManager never gives one slot to two threads, whatever the number of
\* threads and the order of alloc_slot and free_slot.
THEOREM ThreadQueuesIsolated == Spec => []QueueIsolation
<1>1. SlabInv => QueueIsolation
  BY DEF SlabInv
<1> QED
  BY <1>1, SlabInvariant, PTL

\* MmapSlab::insert returns None only when all MAX_THREADS slots are in use.
THEOREM SlotsNeverLost == Spec => []NoSlotLost
<1>1. SlabInv => NoSlotLost
  <2> SUFFICES ASSUME SlabInv, SlabFull PROVE Owned = Slots
    BY DEF NoSlotLost
  <2>1. PICK rank \in [Slots -> 0 .. MAX_THREADS] : FreeListChain(rank)
    BY DEF SlabInv
  <2>2. len = bump /\ bump = MAX_THREADS
    BY <2>1 DEF FreeListChain, SlabFull
  <2>3. Free = {}
    BY <2>1, <2>2, MaxThreadsAssumption DEF FreeListChain
  <2> QED
    BY <2>2, <2>3 DEF Free, Slots, Owned
<1> QED
  BY <1>1, SlabInvariant, PTL

\* MmapSlab.len is the number of slots in use.
THEOREM LenIsExact == Spec => []LenExact
<1>1. SlabInv => LenExact
  BY DEF SlabInv
<1> QED
  BY <1>1, SlabInvariant, PTL

\* The bound the clients check against covers every slot in use.
THEOREM HighWaterSafe == Spec => []HighWaterCoversOwned
<1>1. SlabInv => HighWaterCoversOwned
  BY DEF SlabInv, HighWaterCoversOwned
<1> QED
  BY <1>1, SlabInvariant, PTL
=============================================================================
