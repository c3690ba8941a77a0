\* A root run with two foreground children at once, two resumes, failing starters, one
\* crash; no claim outlives its lease.
CONSTANTS
  RootRun = {r1}
  DetachedRun = {}
  ChildRun = {k1, k2}
  Inter = {i1, i2}
  Batch = {b1, b2}
  Exec = {e1, e2, e3}
  Proc = {p1, p2}
  None = None
  StartFails = TRUE
  Lapses = FALSE
  MaxCrashes = 1
SPECIFICATION Spec
SYMMETRY TreeSymmetry
INVARIANTS OneExecutor SuspendedRecoverable
PROPERTIES TreeEnds 
CHECK_DEADLOCK FALSE
