SPECIFICATION Spec
CONSTANTS
  Tabs = {t1, t2}
  Media = {"channel", "storage"}
  MaxSessions = 1
  MaxRequests = 1
  MaxEvents = 2
INVARIANTS
  EndsReachEveryTab
PROPERTIES
  EndsOnce
  LoadingEnds
CHECK_DEADLOCK FALSE
