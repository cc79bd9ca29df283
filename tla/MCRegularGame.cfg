CONSTANTS
  Bots = {b1, b2}
  MaxRounds = 3
  MaxFinish = 4
SPECIFICATION Spec
INVARIANT StartNeverAnswersAPrompt
INVARIANT MovesAnswerTheirPrompt
INVARIANT NoUnrequestedRound
INVARIANT GameOverIsFinal
INVARIANT TableIsCurrent
INVARIANT QuietAgreement
PROPERTY WaitingEnds
PROPERTY CloseReturns
\* the window is gone in the end
CHECK_DEADLOCK FALSE
