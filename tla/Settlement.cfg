SPECIFICATION Spec
CONSTANTS
  Retries = 1
  MaxBackfills = 1
  MaxFaults = 3
INVARIANTS
  VerdictPublished
  CardShowsPanel
PROPERTIES
  PanelReachesCard
