SPECIFICATION LedgerSpec
CONSTANTS
  e1 = e1
  e2 = e2
  i1 = i1
  i2 = i2
  i3 = i3
  Transactions <- SomeTransactions
  Amount <- SomeAmounts
  Currency <- SomeCurrencies
  Requests = {r1, r2}
  LinkAmounts = {1, 2}
  MaxLinks = 3
  Corrections = {q1, q2}
  Original <- TwoSpent
  Adjusted = {0, 1}
  MaxSubmitted = 3
  Currencies = {"UAH", "USD", "EUR"}
  Quotes <- SomeQuotes
  Amounts <- ConvertedAmounts
  MaxDate = 1
  MaxQuotes = 2
  MaxSafe = 100
  Ledger <- SomeLedger
  RateTable <- SomeRates
  Values = {1, 2}
  Periods <- SomePeriods
  Bases = {"original", "EUR"}
  Day = 2
  MonthLengths <- SomeMonths
  MaxPeriod = 3
  Moments = {4, 9}
  HistoryDays = 3
  MaxMerchants = 1
  MaxCorrected = 2
  MaximumBuckets = 2
  LeadingRows = 1
INVARIANTS
  LinksInvariant
  CorrectionsInvariant
  ConversionInvariant
  DashboardInvariant
PROPERTIES
  OnlyUnlinkRemoves
  AbortsOnlyOnRace
  OfferStands
  AllocatesAtomically
  HistoryStands
SYMMETRY Identical
CHECK_DEADLOCK FALSE
