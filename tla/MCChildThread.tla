--------------------------- MODULE MCChildThread ---------------------------
(* ChildThread on a small instance. *)
EXTENDS ChildThread
=============================================================================
