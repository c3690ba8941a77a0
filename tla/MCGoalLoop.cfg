\* Two users' runs, one run of the consumer and a background child; at most two
\* goals.  The budget of idle rounds is the smaller one, so that each can bind.
CONSTANTS
  MaxGoals = 2
  Consumer = {c1}
  UserExec = {u1, u2}
  SystemExec = {s1}
  ChildExec = {k1}
  MaxContinuations = 3
  MaxNoProgress = 2
  MaxActs = 5
  None = None
SPECIFICATION Spec
SYMMETRY RunSymmetry
INVARIANTS AutonomyBounded ActiveGoalDriven
PROPERTIES PauseHolds
CHECK_DEADLOCK FALSE
