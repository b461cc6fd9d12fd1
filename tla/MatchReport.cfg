SPECIFICATION FairSpec
CONSTANTS
  Clips = 1
  MaxLost = 1
  RetryLimit = 1
  MaxFaults = 2
INVARIANTS
  ReportAgrees
  ClipsDelivered
PROPERTIES
  SavedReportIsFinal
  OutcomeReachesRow
