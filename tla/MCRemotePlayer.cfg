CONSTANTS
  Move = {"Rock", "Paper", "Scissors", "Invalid"}
  NoMove = "none"
SPECIFICATION Spec
INVARIANT NoLostWakeup
PROPERTY TurnEnds
PROPERTY ImplementsRemoteTurn
