CONSTANT MaxSeats = 5
SPECIFICATION TableSpec
INVARIANT WinnersAreUnbeaten
INVARIANT DrawMeansUnanimous
INVARIANT ForfeiterScoresNothing
INVARIANT DecidedRoundNarrows
\* the table is full
CHECK_DEADLOCK FALSE
