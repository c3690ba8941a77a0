\* Two envelopes, the chain against one poll, one failure and one crash; fair.
CONSTANTS
  Envelope = {e1, e2}
  Poller = {p1}
  Chain = chain
  ActiveRun = {e1}
  MaxAttempts = 2
  Limit = 2
  MaxQueue = 1
  MaxFaults = 1
  MaxRetries = 0
  MaxCrashes = 1
SPECIFICATION FairSpec
INVARIANTS ChainInOrder
PROPERTY DeliveryRefined
