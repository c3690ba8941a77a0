\* Two root runs, two batches, failing starters, claims that outlive their lease, one crash.
CONSTANTS
  RootRun = {r1, r2}
  DetachedRun = {}
  ChildRun = {}
  Inter = {i1, i2}
  Batch = {b1, b2}
  Exec = {e1, e2}
  Proc = {p1, p2}
  None = None
  StartFails = TRUE
  Lapses = TRUE
  MaxCrashes = 1
SPECIFICATION Spec
SYMMETRY TreeSymmetry
INVARIANTS OneRootRun
PROPERTIES FinishedFinal
CHECK_DEADLOCK FALSE
