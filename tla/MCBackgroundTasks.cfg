\* A command or a background child, two instances, a fault and a crash; fair.
CONSTANTS
  i1 = i1
  i2 = i2
  q1 = q1
  q2 = q2
  Instance = {i1, i2}
  Reader = {q1, q2}
  Home <- MCHome
  Command = {b}
  Agent = {a}
  Starter = {i1}
  Nil = Nil
  MaxChain = 1
  MaxTasks = 1
  MaxFaults = 1
  MaxCrashes = 1
SPECIFICATION TasksFairSpec
INVARIANTS TasksTypeOK CancelHolds PolledNotQueued
PROPERTIES DoneRowStands FreeOnlyAtRest NoticeFollows 
CHECK_DEADLOCK FALSE
