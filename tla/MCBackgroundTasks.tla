------------------------- MODULE MCBackgroundTasks -------------------------
(* BackgroundTasks on two instances, each with a refresh. *)
EXTENDS BackgroundTasks
CONSTANTS i1, i2, q1, q2
MCHome == (q1 :> i1) @@ (q2 :> i2)
=============================================================================
