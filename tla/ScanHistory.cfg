SPECIFICATION HistorySpec
CONSTANTS
  Controllers = {c1}
  PlanGames = 5
  MaxGames = 5
  Paced = TRUE
  MaxFaults = 2
  MaxLosses = 0
  MaxCorrections = 1
INVARIANTS
  OrderInv
  SingleActiveRound
  NoRoundPastDecision
  WinnersAreTrue
  ScoreRecorded
  FillsTheScore
PROPERTIES
  ImplementsRoundBook
