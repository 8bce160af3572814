---------------------------- MODULE MC_ClientFds ----------------------------
(* ClientFds for TLC. *)
EXTENDS ClientFds
=============================================================================
