--------------------------- MODULE MCRunLifecycle ---------------------------
(* RunLifecycle on small instances; the configurations choose the runs. *)
EXTENDS RunLifecycle, TLC

\* The members of each pool are alike: no operation depends on which one it uses.
TreeSymmetry ==
  Permutations(ChildRun) \cup Permutations(Exec) \cup Permutations(Inter)
    \cup Permutations(Batch) \cup Permutations(Proc) \cup Permutations(RootRun)
=============================================================================
