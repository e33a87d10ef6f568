SPECIFICATION BankSpec
CONSTANTS
  Callers = {c1, c2, c3}
  Interval = 3
  RetryAfters = {0, 1, 5}
  MaxDelay = 2
  MaxTime = 9
  a1 = a1
  a2 = a2
  Refreshes = {u1, u2}
  BankAccounts = {a1, a2}
  Cards <- SomeCards
  MaxChanges = 1
  MaxRefreshes = 3
  Items <- SomeItems
  KnownCurrencies <- SomeCurrencies
  KnownMccs = {742}
  Codes = {"UAH", "EUR"}
  Uah = "UAH"
  Original = "original"
  Kinds = {"rates", "accounts"}
  Requests = {q1, q2}
  MaxBooks = 2
  MaxSaves = 2
  MaxVisits = 3
  Dashboards = 2
  MaxRounds = 2
INVARIANTS
  AccountsInvariant
  DataInvariant
  ReportsInvariant
  SyncStatesInvariant
PROPERTIES
  ReservationsSpaced
  DeferralHonoured
  RequestsSpaced
  AccountsFollow
  StatementKept
SYMMETRY Identical
CHECK_DEADLOCK FALSE
