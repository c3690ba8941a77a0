\* A retry, a compaction and a plain rollback; every message is written by a run of the model.
CONSTANTS
  Retry = {t1}
  Compact = {c1}
  None = None
  Earlier = 0
  MaxMessages = 2
  MaxRollbacks = 1
  MaxCrashes = 1
SPECIFICATION FairSpec
INVARIANTS RewritesAlone NothingHidden
PROPERTIES SessionReopens
CHECK_DEADLOCK FALSE
