------------------------------ MODULE MCEStop ------------------------------
(* One operator, and a Redis that goes and comes back. *)
EXTENDS EStop
=============================================================================
