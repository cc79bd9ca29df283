CONSTANT MaxSeats = 3
SPECIFICATION TableSpec
INVARIANT ForfeiterNeverScores
\* the table is full
CHECK_DEADLOCK FALSE
