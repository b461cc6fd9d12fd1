SPECIFICATION FilesSpec
CONSTANTS
  Retries = 1
  Mishaps = 2
INVARIANTS
  UploadedIsTrimmed
  DanmuCutOnce
  TextsOfOneAttempt
  ArchiveLossIsSeen
PROPERTIES
  RoundBecomesReady
CHECK_DEADLOCK FALSE
