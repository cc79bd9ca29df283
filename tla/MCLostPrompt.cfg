CONSTANTS
  Players = {p1}
  MaxConnections = 1
  MaxTurns = 1
SPECIFICATION Spec
INVARIANT PromptsReachTheWindow
CHECK_DEADLOCK FALSE
