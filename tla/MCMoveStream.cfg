CONSTANTS
  Line = {start, move}
  NoLine = NoLine
  MaxPending = 3
SPECIFICATION Spec
INVARIANT NoLostWakeup
PROPERTY GetlineReturns
PROPERTY ImplementsLineQueue
\* a closed stream whose worker has ended does nothing more
CHECK_DEADLOCK FALSE
