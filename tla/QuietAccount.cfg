\* An account without transactions never becomes incremental.
SPECIFICATION Spec
CONSTANTS
  Accounts <- OneAccount
  Provider <- NoProvider
  Workers = {w1}
  Null = Null
  HistorySpan = 4
  MaxWindow = 2
  Overlap = 1
  Lease = 2
  LostReplies = FALSE
  Interval = 1
  MaxRun = 1
  MaxTime = 9
INVARIANTS
  SkipsOnlyWhenCurrent
CHECK_DEADLOCK FALSE
