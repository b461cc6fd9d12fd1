SPECIFICATION FilesSpec
CONSTANTS
  Retries = 0
  Mishaps = 0
INVARIANTS
  ArchiveKept
CHECK_DEADLOCK FALSE
