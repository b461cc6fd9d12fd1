SPECIFICATION CaptureSpec
CONSTANTS
  Main = main
  Side = {s1}
  Messages = 1
  Rounds <- RoundsOfHang
  Length = 1
  HistoryLimit = 1
  Retries = 1
PROPERTY DanmuEnds
CHECK_DEADLOCK FALSE
