------------------------ MODULE MCGoalContinuation ------------------------
(* GoalContinuation on small instances; the configurations choose the bounds. *)
EXTENDS GoalContinuation, TLC

\* Users' runs are alike; no property checked with this is a liveness property.
RunSymmetry == Permutations(UserExec)
=============================================================================
