--------------------------- MODULE MCWorkerQueue ---------------------------
(* Two workers poll one list on which two calls put their jobs. *)
EXTENDS WorkerQueue
=============================================================================
