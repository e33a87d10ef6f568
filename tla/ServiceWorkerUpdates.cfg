SPECIFICATION Spec
CONSTANTS
  Tabs = {t1, t2}
  MaxVersion = 3
  MaxEditors = 1
INVARIANTS
  PromptStays
PROPERTIES
  ReloadsSafely
  OnlyWithConsent
  BusyEnds
CHECK_DEADLOCK FALSE
