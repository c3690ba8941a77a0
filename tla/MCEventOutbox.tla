--------------------------- MODULE MCEventOutbox ---------------------------
(* EventOutbox on small instances; the configurations choose the bounds. *)
EXTENDS EventOutbox, TLC

\* Polls are alike.
PollerSymmetry == Permutations(Poller)

=============================================================================
