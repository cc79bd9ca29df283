CONSTANTS
  Human = human
  Bots = {b1, b2, b3, b4}
SPECIFICATION Spec
INVARIANT TypeOK
INVARIANT MatchesArePlayable
INVARIANT LinesReachTheirReader
PROPERTY LosersDropOut
PROPERTY WaitingEnds
PROPERTY CloseReturns
\* the window is gone in the end
CHECK_DEADLOCK FALSE
