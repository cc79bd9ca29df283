CONSTANTS
  Remotes = {c1, c2}
  AIBots = {b1}
  MaxRounds = 2
  MaxFinish = 1
SPECIFICATION Spec
INVARIANT TypeOK
INVARIANT RemoteMovesAnswerTheirTurn
INVARIANT NobodyWaitsUnprompted
INVARIANT EveryScreenInSync
PROPERTY ImplementsRegularGame
PROPERTY CloseReturns
PROPERTY LeaversDoNotBlock
\* in the end the host is gone and so are its clients
CHECK_DEADLOCK FALSE
