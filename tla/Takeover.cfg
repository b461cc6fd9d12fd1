SPECIFICATION LeaseSpec
CONSTANTS
  Controllers = {c1, c2}
  PlanGames = 3
  MaxGames = 3
  Paced = FALSE
  MaxFaults = 1
  MaxLosses = 1
  MaxCorrections = 1
  MaxTakeovers = 1
PROPERTIES
  ScoreSettles
  NothingLeftOpen
  EndedIsFinal
