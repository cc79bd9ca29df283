CONSTANTS
  Names <- OwnNames
  ZhejiangSeats = {2}
  RemoteSeats = {3}
  MaxRounds = 2
SPECIFICATION Spec
INVARIANT BoardShowsScores
PROPERTY PlaysWhatWon
\* the bound on the scores is reached
CHECK_DEADLOCK FALSE
