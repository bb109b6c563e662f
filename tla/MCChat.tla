------------------------------- MODULE MCChat -------------------------------
(* Two turns, each harmful or not, with answers of up to two deltas. *)
EXTENDS Chat
=============================================================================
