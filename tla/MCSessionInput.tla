--------------------------- MODULE MCSessionInput ---------------------------
(* SessionInput on small instances; the configurations choose the messages. *)
EXTENDS SessionInput
=============================================================================
