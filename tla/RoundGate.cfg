SPECIFICATION GateSpec
CONSTANTS
  Controllers = {c1}
  PlanGames = 3
  MaxGames = 3
  Paced = TRUE
  MaxFaults = 1
  MaxLosses = 0
  MaxCorrections = 0
  TemplateRounds = 3
INVARIANTS
  SkippedNeverPlayed
  NoRoundMissed
PROPERTIES
  GatesFinish
