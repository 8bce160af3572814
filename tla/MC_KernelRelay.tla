--------------------------- MODULE MC_KernelRelay ---------------------------
EXTENDS KernelRelay, TLC

ProcessSymmetry == Permutations(Threads) \cup Permutations(Daemons)
=============================================================================
