--------------------------- MODULE MCSessionStream ---------------------------
(* SessionStream on a small instance; the configuration gives the bounds. *)
EXTENDS SessionStream
=============================================================================
