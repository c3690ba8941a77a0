\* The client gives up after its retries, and the bounds stop the log.
CHECK_DEADLOCK FALSE
CONSTANTS
  Conn = {c1, c2}
  None = None
  PageSize = 1
  MaxHistory = 1
  MaxRetries = 1
  MaxSeq = 2
  MaxRepeats = 1
  MaxBreaks = 1
  MaxCrashes = 1
SPECIFICATION FairSpec
INVARIANTS NothingMissed
PROPERTIES NeverBack CatchesUp
