CONSTANTS
  Bots = {b1}
  MaxRounds = 2
  MaxFinish = 1
SPECIFICATION Spec
INVARIANT FinishEndsTheLoop
CHECK_DEADLOCK FALSE
