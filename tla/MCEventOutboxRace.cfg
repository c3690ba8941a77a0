\* One envelope in the hands of the chain and two polls, failures up to the last
\* attempt, one retry by hand, one crash.
CONSTANTS
  Envelope = {e1}
  Poller = {p1, p2}
  Chain = chain
  ActiveRun = {}
  MaxAttempts = 2
  Limit = 2
  MaxQueue = 1
  MaxFaults = 3
  MaxRetries = 1
  MaxCrashes = 1
SPECIFICATION Spec
INVARIANTS GivenUpLate
SYMMETRY PollerSymmetry
PROPERTY DeliverySafe
