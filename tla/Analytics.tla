------------------------------ MODULE Analytics ------------------------------
(* The reports over resolved transactions: period totals, breakdowns, time *)
(* series and their conversion to a base currency. A report selects the    *)
(* transactions of a period and of some accounts, converts each one, drops *)
(* the excluded ones and groups the rest; every figure is a sum over such  *)
(* a group. Days and months are scaled: a day is Day seconds, months have  *)
(* the lengths of the constant. The order of rows is left out, but not     *)
(* which merchants are among the first.                                    *)
EXTENDS RateMath, FiniteSetsExt, Functions, Sequences

CONSTANTS
    Ledger,         \* [id, account, category, currency, merchant, direction, at]
    RateTable,      \* rows of exchange_rates
    Values,         \* magnitudes of effective and compensated amounts
    Periods,        \* [from, to] a request may name
    Bases,          \* base currencies a request may name, "original" for none
    Day,            \* seconds of a day (86400)
    MonthLengths,   \* days of each month from the epoch on
    MaxPeriod,      \* the longest period in days a request may ask for (366)
    Moments,        \* when a report may be asked for
    HistoryDays,    \* days of recurrenceHistory (365)
    MaxMerchants,   \* rows of the merchants (10), of all currencies together
    MaxCorrected    \* bound: transactions with figures other than the first ones

\* "any" is what a filter says that names no category. Rates are positive.
ASSUME AnalyticsAssumption ==
    /\ IsFiniteSet(Ledger)
    /\ \A t \in Ledger : /\ t.at \in Nat /\ t.direction \in {"expense", "income"}
                        /\ t.category # "any"
    /\ \A t, u \in Ledger : t.id = u.id => t = u
    /\ \A r \in RateTable : r.at \in Int /\ r.num \in Nat \ {0} /\ r.den \in Nat \ {0}
    /\ Values \subseteq Nat /\ IsFiniteSet(Values) /\ Values # {}
    /\ Periods \subseteq [from : Nat, to : Nat]
    /\ Day \in Nat \ {0} /\ MaxPeriod \in Nat \ {0} /\ HistoryDays \in Nat \ {0}
    /\ MaxMerchants \in Nat \ {0}
    /\ MonthLengths \in Seq(Nat \ {0})
    /\ MaxCorrected \in Nat

VARIABLES
    figures,        \* id -> [value, excluded, compensated]: corrections and links
    filters         \* [accounts, base, from, to] of the latest valid request

analyticsVars == <<figures, filters>>

SumOver(F(_), S) == SumFunction([x \in S |-> F(x)])

\* filters: an ordered period of at most 366 days; anything else answers 400.
ValidPeriod(p) == p.from <= p.to /\ p.to - p.from <= MaxPeriod * Day

Untouched == [value |-> Max(Values), excluded |-> FALSE, compensated |-> Min(Values)]

NoRequestYet == [accounts |-> {}, base |-> "original", period |-> [from |-> 0, to |-> 0]]
Asked == filters # NoRequestYet

AnalyticsInit ==
    /\ figures = [i \in {t.id : t \in Ledger} |-> Untouched]
    /\ filters = NoRequestYet

\* An adjustment, an exclusion or a link changes what a transaction counts for.
Correct(t) ==
    /\ \E value, compensated \in Values, excluded \in BOOLEAN :
          figures' = [figures EXCEPT ![t.id] =
              [value |-> value, excluded |-> excluded, compensated |-> compensated]]
    /\ Cardinality({i \in DOMAIN figures : figures'[i] # Untouched}) <= MaxCorrected
    /\ UNCHANGED filters

\* A dashboard asks for the reports of a period, of all accounts or of some.
Request ==
    /\ \E accounts \in SUBSET {t.account : t \in Ledger}, base \in Bases, p \in Periods :
          /\ ValidPeriod(p)
          /\ filters' = [accounts |-> accounts, base |-> base, period |-> p]
    /\ UNCHANGED figures

AnalyticsNext == Request \/ \E t \in Ledger : Correct(t)
AnalyticsSpec == AnalyticsInit /\ [][AnalyticsNext]_analyticsVars
-----------------------------------------------------------------------------
\* listResolvedTransactions of the filtered accounts in a period.
Resolved(from, to) ==
    {t \in Ledger : /\ t.at >= from /\ t.at <= to
                    /\ filters.accounts = {} \/ t.account \in filters.accounts}

\* previousPeriod: as many seconds, ending one before dateFrom.
PreviousGroup ==
    LET length == filters.period.to - filters.period.from + 1
    IN Resolved(filters.period.from - length, filters.period.from - 1)

CurrentGroup == Resolved(filters.period.from, filters.period.to)

\* recurrenceHistory: the year that ends with the period.
HistoryGroup == Resolved(Max({0, filters.period.to - HistoryDays * Day + 1}),
                         filters.period.to)

ListedSources(codes, dateTo) ==      \* mutant: source_currency_code only
    {r \in RateTable : r.at <= dateTo /\ r.from \in codes /\ r.to \in codes}

\* listExchangeRates: rates from or to a currency of the groups or the base.
ListedRates(codes, dateTo) ==
    {r \in RateTable : r.at <= dateTo /\ (r.from \in codes \/ r.to \in codes)}

\* convertGroups reads one table for all the groups of a report.
RatesOf(groups) ==
    ListedRates({t.currency : t \in groups} \cup {filters.base},
                Max({t.at : t \in groups} \cup {0}))

Item(t, value, compensated, currency) ==
    [id |-> t.id, account |-> t.account, category |-> t.category,
     merchant |-> t.merchant, direction |-> t.direction, at |-> t.at,
     currency |-> currency, value |-> value, compensated |-> compensated]

\* convertGroups for one transaction: none when it is counted as missing.
InBase(t, table) ==
    LET f == figures[t.id] IN
    IF filters.base = "original" THEN {Item(t, f.value, f.compensated, t.currency)}
    ELSE {Item(t, MultiplyAndRound(f.value, r), MultiplyAndRound(f.compensated, r),
               filters.base) : r \in RateFor(t.currency, filters.base, t.at, table)}

\* The items of a group that are excluded, or that normal analytics counts.
Counted(group, table, excluded) ==
    UNION {InBase(t, table) : t \in {u \in group : figures[u.id].excluded = excluded}}
Included(group, table) == Counted(group, table, FALSE)
ExpenseItems(items) == {i \in items : i.direction = "expense"}
Value(i) == i.value
Of(currency, items) == {i \in items : i.currency = currency}
Spent(currency, items) == SumOver(Value, Of(currency, ExpenseItems(items)))
Earned(currency, items) == SumOver(Value, Of(currency, items \ ExpenseItems(items)))

\* groupAmounts: one row for each value of a field and currency.
GroupAmounts(items, field) ==
    {[key |-> g[1], currency |-> g[2],
      amount |-> SumOver(Value, {i \in items : i[field] = g[1] /\ i.currency = g[2]})] :
        g \in {<<i[field], i.currency>> : i \in items}}
RowAmount(row) == row.amount
AmountIn(rows, currency) == SumOver(RowAmount, {r \in rows : r.currency = currency})

\* merchantAmounts: of all the rows the first ones, by amount, whatever the currency,
\* and by number of transactions; any of those that only their names tell apart.
MerchantRows(items) == GroupAmounts(items, "merchant")
TransactionCount(row, items) ==
    Cardinality({i \in items : i.merchant = row.key /\ i.currency = row.currency})
Outranks(r, s, items) ==
    \/ r.amount > s.amount
    \/ r.amount = s.amount /\ TransactionCount(r, items) > TransactionCount(s, items)
MerchantAmounts(items) ==
    LET rows == MerchantRows(items)
    IN CHOOSE top \in SUBSET rows :
          /\ Cardinality(top) = Min({MaxMerchants, Cardinality(rows)})
          /\ \A r \in top, s \in rows \ top : ~Outranks(s, r, items)

\* getUTCDay, with 7 for Sunday; the epoch was a Thursday.
WeekdayNumber(at) == LET d == (at \div Day + 4) % 7 IN IF d = 0 THEN 7 ELSE d

\* weekdayAmounts: a row for each of the days 1..7.
WeekdayAmounts(items) ==
    {[currency |-> c, weekday |-> w,
      amount |-> SumOver(Value, {i \in Of(c, items) : WeekdayNumber(i.at) = w})] :
        c \in {i.currency : i \in items}, w \in 1..7}

DayStart(at) == (at \div Day) * Day
MonthOpens(k) == Day * SumOver(LAMBDA m : MonthLengths[m], 1..(k - 1))
MonthOf(at) == CHOOSE k \in DOMAIN MonthLengths :
                  MonthOpens(k) <= at /\ at < MonthOpens(k + 1)
MonthStart(at) == MonthOpens(MonthOf(at))
NextMonthStart(at) == MonthOpens(MonthOf(at) + 1)

\* The bound of the months: there is one for every time that is asked about.
ASSUME MonthsAssumption ==
    \A at \in {t.at : t \in Ledger} \cup Moments :
        at \in Nat /\ at < MonthOpens(Len(MonthLengths) + 1)

\* timeSeries of days or of months.
StartOf(unit, at) == IF unit = "day" THEN DayStart(at) ELSE MonthStart(at)
TimeSeries(items, unit) ==
    LET In(start) == {i \in items : StartOf(unit, i.at) = start}
    IN {[start |-> p[1], currency |-> p[2],
         expense |-> Spent(p[2], In(p[1])), income |-> Earned(p[2], In(p[1]))] :
            p \in {<<StartOf(unit, i.at), i.currency>> : i \in items}}
SpentIn(points, currency) ==
    SumOver(LAMBDA p : p.expense, {p \in points : p.currency = currency})
EarnedIn(points, currency) ==
    SumOver(LAMBDA p : p.income, {p \in points : p.currency = currency})

\* recurringExpenseAmounts: bought twice in the history, once in the period.
Repeated(history, expenses) ==
    {k \in {<<i.currency, i.merchant>> : i \in expenses} :
        Cardinality({i \in history : <<i.currency, i.merchant>> = k}) >= 2}

\* fixedVariableExpenseAmounts
Fixed(currency, repeated, expenses) ==
    SumOver(Value, {i \in Of(currency, expenses) : <<i.currency, i.merchant>> \in repeated})
Variable(currency, repeated, expenses) ==
    SumOver(Value, {i \in Of(currency, expenses) : <<i.currency, i.merchant>> \notin repeated})

\* Math.min(expense, transaction.compensationAmountMinor)
Compensated(i) == Min({i.value, i.compensated})
CompensatedIn(currency, expenses) == SumOver(Compensated, Of(currency, expenses))
Personal(currency, expenses) ==
    SumOver(LAMBDA i : i.value - Compensated(i), Of(currency, expenses))

\* Math.round of a quotient of naturals.
RoundedQuotient(n, d) == (2 * n + d) \div (2 * d)

\* projectMonthExpenses: the days of the month begun so far.
ElapsedDays(now) == (now - MonthStart(now)) \div Day + 1
Projected(currency, month, now) ==
    LET days == (NextMonthStart(now) - MonthStart(now)) \div Day
    IN RoundedQuotient(Spent(currency, month) * days, ElapsedDays(now))

\* averageExpenses: by the days of the period that have begun.
Average(currency, items) ==
    RoundedQuotient(Spent(currency, items),
                    (filters.period.to - filters.period.from) \div Day + 1)

ReportCurrencies == {t.currency : t \in Ledger} \cup Bases
Totals(items) == [c \in ReportCurrencies |->
                     [expense |-> Spent(c, items), income |-> Earned(c, items)]]

\* The three reports of a dashboard; each reads a table of rates of its own.
Overview(now) ==
    LET monthGroup == Resolved(MonthStart(now), now)
        table == RatesOf(CurrentGroup \cup PreviousGroup \cup monthGroup)
        included == Included(CurrentGroup, table)
        previous == Included(PreviousGroup, table)
        month == Included(monthGroup, table)
        expenses == ExpenseItems(included)
    IN [totals |-> Totals(included),
        excluded |-> Totals(Counted(CurrentGroup, table, TRUE)),
        change |-> [c \in ReportCurrencies |-> Spent(c, included) - Spent(c, previous)],
        compensation |-> [c \in ReportCurrencies |->
            [compensated |-> CompensatedIn(c, expenses), personal |-> Personal(c, expenses)]],
        average |-> [c \in ReportCurrencies |-> Average(c, included)],
        month |-> Totals(month),
        projected |-> [c \in ReportCurrencies |-> Projected(c, month, now)]]

Breakdowns ==
    LET table == RatesOf(CurrentGroup \cup HistoryGroup)
        expenses == ExpenseItems(Included(CurrentGroup, table))
        repeated == Repeated(ExpenseItems(Included(HistoryGroup, table)), expenses)
    IN [accounts |-> GroupAmounts(expenses, "account"),
        categories |-> GroupAmounts(expenses, "category"),
        merchants |-> MerchantAmounts(expenses),
        weekdays |-> WeekdayAmounts(expenses),
        repeated |-> repeated,
        split |-> [c \in ReportCurrencies |->
            [fixed |-> Fixed(c, repeated, expenses), variable |-> Variable(c, repeated, expenses)]]]

Trends ==
    LET included == Included(CurrentGroup, RatesOf(CurrentGroup))
    IN [daily |-> TimeSeries(included, "day"), monthly |-> TimeSeries(included, "month")]
-----------------------------------------------------------------------------
\* The filters are those of a valid request, the figures those of a correction.
AnalyticsTypeInvariant ==
    /\ LET length == filters.period.to - filters.period.from
       IN length \in 0..(MaxPeriod * Day)
    /\ figures \in [{t.id : t \in Ledger} ->
           [value : Values, excluded : BOOLEAN, compensated : Values]]

\* The merchants listed are of the figures of the totals: in each currency they are
\* at most its expenses, all of them when there are no more merchants than rows, and
\* nothing left out is larger than what is listed.
MerchantsAgree(listed, rows, c, expense) ==
    /\ Cardinality(listed) <= MaxMerchants
    /\ AmountIn(listed, c) <= expense
    /\ Cardinality(rows) <= MaxMerchants => AmountIn(listed, c) = expense
    /\ \A r \in listed, s \in rows \ listed : r.amount >= s.amount

\* The three reports of one dashboard are three requests that convert the same
\* transactions with tables selected for different groups of them: every
\* breakdown and every series still adds up to the totals of the overview, so
\* no expense is lost between two groups or counted in two; only of the merchants
\* the smallest may be left out.
ReportsAgree ==
    Asked => \A now \in Moments :
    LET totals == Overview(now).totals
        parts == Breakdowns
        series == Trends
        merchants == MerchantRows(ExpenseItems(Included(CurrentGroup, RatesOf(CurrentGroup))))
    IN \A c \in ReportCurrencies :
          /\ \A rows \in {parts.accounts, parts.categories, parts.weekdays} :
                AmountIn(rows, c) = totals[c].expense
          /\ MerchantsAgree(parts.merchants, merchants, c, totals[c].expense)
          /\ parts.split[c].fixed + parts.split[c].variable = totals[c].expense
          /\ \A points \in {series.daily, series.monthly} :
                /\ SpentIn(points, c) = totals[c].expense
                /\ EarnedIn(points, c) = totals[c].income

\* Compensation is never worth more than the expense it is for, though the
\* expense may have been adjusted below its links since: what remains as
\* personal is not negative, and the two parts are the expense.
CompensationWithinExpense ==
    Asked => \A now \in Moments, c \in ReportCurrencies :
       LET report == Overview(now)
       IN /\ report.compensation[c].personal >= 0
          /\ report.compensation[c].compensated + report.compensation[c].personal =
                report.totals[c].expense

\* A comparison sets two periods of one length side by side that share no
\* transaction and leave none between them.
ComparisonIsFair ==
    Asked =>
    /\ CurrentGroup \cap PreviousGroup = {}
    /\ LET p == filters.period
       IN CurrentGroup \cup PreviousGroup = Resolved(2 * p.from - p.to - 1, p.to)

\* The rates a report reads convert each transaction exactly as the whole table
\* would, though they are selected by currency and by the latest transaction:
\* a conversion through the hryvnia needs two rows of other pairs.
ListedRatesSuffice ==
    Asked /\ filters.base # "original" =>
       \A t \in CurrentGroup :
          InBase(t, RatesOf(CurrentGroup \cup PreviousGroup)) = InBase(t, RateTable)

\* A merchant paid twice within a period counts as repeated, as long as the
\* period fits in the history (a leap year's 366 days do not).
RepeatsAreSeen ==
    Asked /\ filters.base = "original"
          /\ filters.period.to - filters.period.from < HistoryDays * Day =>
       LET expenses == ExpenseItems(Included(CurrentGroup, {}))
       IN \A i, j \in expenses : (i # j /\ i.merchant = j.merchant /\ i.currency = j.currency)
             => <<i.currency, i.merchant>> \in Breakdowns.repeated

\* The projected expenses of a month are at no moment below what it already cost,
\* and exactly that on its last day.
ProjectionCoversSpent ==
    Asked => \A now \in Moments, c \in ReportCurrencies :
       LET report == Overview(now)
       IN /\ report.projected[c] >= report.month[c].expense
          /\ NextMonthStart(now) - now <= Day => report.projected[c] = report.month[c].expense

\* The figures of the reports are figures of the same transactions, however they are
\* grouped, converted, compared and projected.
AnalyticsInvariant ==
    /\ AnalyticsTypeInvariant
    /\ ReportsAgree /\ CompensationWithinExpense /\ ComparisonIsFair
    /\ ListedRatesSuffice /\ RepeatsAreSeen /\ ProjectionCoversSpent
=============================================================================
