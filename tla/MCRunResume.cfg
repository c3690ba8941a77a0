\* Liveness: an answered run goes on, a root as well as a background child.
CONSTANTS
  RootRun = {r1}
  DetachedRun = {d1}
  ChildRun = {}
  Inter = {i1, i2}
  Batch = {b1, b2}
  Exec = {e1, e2}
  Proc = {p1, p2}
  None = None
  StartFails = FALSE
  Lapses = FALSE
  MaxCrashes = 0
SPECIFICATION FairSpec
PROPERTIES AnsweredGoesOn
CHECK_DEADLOCK FALSE
