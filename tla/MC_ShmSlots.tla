----------------------------- MODULE MC_ShmSlots -----------------------------
(* Three slots and four threads: the segment fills up and slots are recycled. *)
EXTENDS ShmSlots
=============================================================================
