SPECIFICATION WorkerSpec
CONSTANTS
  Accounts <- OneAccount
  Provider <- OneProvider
  Workers = {p1, p2}
  Null = Null
  HistorySpan = 4
  MaxWindow = 2
  Overlap = 1
  Lease = 2
  LostReplies = FALSE
  Interval = 1
  MaxRun = 1
  MaxTime = 9
  PeriodEnds = {2, 5, 8}
  Logins = {p1, p2}
  Setups = {s1, s2}
  Emails = {"owner", "other"}
  LoginEmail = "owner"
  LoginMax = 2
  LoginWindow = 3
  LoginLock = 3
  MaxLoginDelay = 1
  MaxLoginTime = 5
  Requests = {p1, p2}
  Tokens = {s1, s2}
  Sent <- SomeRoutes
  Thrown <- SomeErrors
  ChainDepth = 2
  LedgerRows <- SomeRows
  Filters <- SomeFilters
  PageSize = 2
  MaxAccountIds = 1
  MaxWrites = 1
INVARIANTS
  LeaseExclusion
  SyncInvariant
  FreshnessTruthful
  AuthenticationInvariant
  RouterInvariant
  LedgerInvariant
PROPERTY ImportsWhatItCovers
SYMMETRY Identical

CHECK_DEADLOCK FALSE
