\* Two notices, delivered up to twice, two overlapping idle consumers, one crash.
CONSTANTS
  Msg = {n1, n2}
  UserMsg = {}
  GoalMsg = {}
  Thread = {root}
  Root = root
  Run = {r1, r2, r3}
  Consumer = {i1, i2}
  ClaimId = {c1, c2, c3, c4, c5, c6, c7}
  NoClaim = NoClaim
  SentTime = {1}
  None = None
  Unowned = Unowned
  MaxAttempts = 2
  MaxLimit = 3
  MaxCrashes = 1
SPECIFICATION Spec
INVARIANTS AttemptsBounded OneActiveRoot
PROPERTIES LeaseFences ConsumedOnce MailboxRefined
CHECK_DEADLOCK FALSE
