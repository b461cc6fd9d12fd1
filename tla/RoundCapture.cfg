SPECIFICATION CaptureSpec
CONSTANTS
  Main = main
  Side = {s1}
  Messages = 2
  Rounds <- RoundsOfCapture
  Length = 2
  HistoryLimit = 1
  Retries = 1
INVARIANTS
  OnlyLateAnswersRepeat
  NothingMissed
  HoldsWhatAired
  OneClock
PROPERTIES
  RecordersEnd
  DanmuFollows
CHECK_DEADLOCK FALSE
