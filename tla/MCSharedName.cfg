CONSTANTS
  Names <- SharedName
  ZhejiangSeats = {2}
  RemoteSeats = {3}
  MaxRounds = 2
SPECIFICATION Spec
INVARIANT BoardShowsScores
\* the bound on the scores is reached
CHECK_DEADLOCK FALSE
