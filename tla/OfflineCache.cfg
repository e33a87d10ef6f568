SPECIFICATION ClientSpec
CONSTANTS
  Tabs = {t1, t2}
  Operations = {o1, o2}
  MaxGeneration = 3
  MaxKeys = 2
  Incomes = {1, 2}
  IncomeAmount <- TwoIncomes
  ExpenseAmount = 2
  Slots = {1}
  MaxChanges = 3
  MaxSheets = 1
  MaxEdits = 2
  Saves = {1, 2}
  Codes = {1, 2}
  Assignable = {1, 2}
  Filters = {"all", "unmapped"}
  PageSize = 1
  MaxMappings = 2
  MaxMoves = 1
SYMMETRY Alike
INVARIANTS
  Erased
  Decryptable
  ShownIsLive
  LockedWhileDeleting
  CompensationClientInvariant
  CategoryPagesInvariant
CHECK_DEADLOCK FALSE
