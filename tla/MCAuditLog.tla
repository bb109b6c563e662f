----------------------------- MODULE MCAuditLog -----------------------------
(* Appends of two contents contend for the lock; ids run to MaxId. *)
EXTENDS AuditLog
=============================================================================
