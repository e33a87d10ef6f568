\* A verification answered after a session end clears its notification.
SPECIFICATION Spec
CONSTANTS
  Tabs = {t1, t2}
  Media = {"channel", "storage"}
  MaxSessions = 1
  MaxRequests = 1
  MaxEvents = 2
SYMMETRY Alike
INVARIANTS
  StaysLocked
CHECK_DEADLOCK FALSE
