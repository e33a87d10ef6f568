\* The code leaves incremental mode after each incremental window.
SPECIFICATION Spec
CONSTANTS
  Accounts <- OneAccount
  Provider <- OneProvider
  Workers = {w1}
  Null = Null
  HistorySpan = 4
  MaxWindow = 2
  Overlap = 1
  Lease = 2
  LostReplies = FALSE
  Interval = 1
  MaxRun = 1
  MaxTime = 9
PROPERTIES
  StaysIncremental
CHECK_DEADLOCK FALSE
