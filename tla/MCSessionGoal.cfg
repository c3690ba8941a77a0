\* A user message, a notice and a goal row, one idle consumer, one crash.
CONSTANTS
  Msg = {u1, n1, g1}
  UserMsg = {u1}
  GoalMsg = {g1}
  Thread = {root}
  Root = root
  Run = {r1, r2, r3}
  Consumer = {i1}
  ClaimId = {c1, c2, c3, c4, c5}
  NoClaim = NoClaim
  SentTime = {1}
  None = None
  Unowned = Unowned
  MaxAttempts = 2
  MaxLimit = 3
  MaxCrashes = 1
SPECIFICATION FairSpec
INVARIANTS PendingUndelivered AckedInHistory
PROPERTIES EveryRowSettles ConsumedFollowupReturns
CHECK_DEADLOCK FALSE
