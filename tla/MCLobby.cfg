CONSTANTS
  Players = {p1}
  MaxConnections = 2
  MaxTurns = 1
SPECIFICATION Spec
INVARIANT TypeOK
INVARIANT SeatsAreWindows
INVARIANT WelcomedPlayersKeepTheirName
INVARIANT EndedSessionsStayEnded
INVARIANT ReadsLoseNothing
PROPERTY NobodyIsStranded
PROPERTY TurnsReachTheirPlayer
\* Programs end: everybody may quit.
CHECK_DEADLOCK FALSE
