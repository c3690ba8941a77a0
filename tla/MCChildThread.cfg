\* A child at work, a message of its parent, a notice, one mishap.
CONSTANTS
  Msg = {s1, n1}
  Send = {s1}
  Born = born
  Thread = {child}
  Branch = child
  ClaimId = {c1, c2, c3}
  NoClaim = NoClaim
  None = None
  SentTime = {1}
  MaxAttempts = 2
  MaxLimit = 2
  MaxMishaps = 1
SPECIFICATION FairSpec
INVARIANTS OneAtWork ResultTruthful
PROPERTIES EveryMessageTaken ResultFollows
CHECK_DEADLOCK FALSE
