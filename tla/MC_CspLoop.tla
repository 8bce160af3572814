----------------------------- MODULE MC_CspLoop -----------------------------
(* CspLoop for TLC: interchangeable clients. *)
EXTENDS CspLoop, TLC

ClientSymmetry == Permutations(Clients \ SystemClients)
=============================================================================
