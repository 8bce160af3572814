CONSTANTS
    MAX_THREADS = 3
    Tids = {1, 2, 3, 4}
SPECIFICATION Spec
INVARIANT QueueIsolation
INVARIANT NoSlotLost
INVARIANT SlabInv
PROPERTY SlotNeverMoves
