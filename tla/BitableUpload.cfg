SPECIFICATION FairSpec
CONSTANTS
  Jobs = {j1, j2}
  RetryLimit = 1
  Rate = 1
  Calls = 1
  MaxTables = 2
  MaxFaults = 1
INVARIANTS
  LocksExclude
  SucceededIsUploaded
PROPERTIES
  UploadsEnd
CHECK_DEADLOCK FALSE
