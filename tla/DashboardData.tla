---------------------------- MODULE DashboardData ----------------------------
(* What the dashboard and the category page draw from the reports: the     *)
(* figures of one currency, time series drawn together into a few bars,    *)
(* categories ranked with the rest in one row, and the links from a figure *)
(* to the ledger that should explain it. A bar's height is in hundredths   *)
(* of a percent. Wording and geometry are left out.                        *)
EXTENDS Analytics

CONSTANTS
    MaximumBuckets,   \* bars of a chart (7)
    LeadingRows       \* categories with a row of their own (5)

ASSUME DashboardAssumption ==
    MaximumBuckets \in Nat \ {0} /\ LeadingRows \in Nat \ {0}

\* byCurrency
ByCurrency(rows, currency) == {r \in rows : r.currency = currency}

\* availableCurrencies: of the totals and of the expenses by currency.
AvailableCurrencies ==
    {i.currency : i \in Included(CurrentGroup, RatesOf(CurrentGroup))}

\* groupTimeSeriesIntoBuckets: neighbours in equal numbers, the last may be fewer.
BucketSize(points) ==
    IF Cardinality(points) <= MaximumBuckets THEN 1
    ELSE (Cardinality(points) + MaximumBuckets - 1) \div MaximumBuckets
BucketOf(p, points) ==
    Cardinality({q \in points : q.start < p.start}) \div BucketSize(points)
Bucket(values) ==
    [start |-> Min({p.start : p \in values}), end |-> Max({p.start : p \in values}),
     expense |-> SumOver(LAMBDA p : p.expense, values),
     income |-> SumOver(LAMBDA p : p.income, values)]
GroupTimeSeriesIntoBuckets(points) ==
    {Bucket({p \in points : BucketOf(p, points) = k}) : k \in {BucketOf(p, points) : p \in points}}

\* groupedIncomeExpenseValues: one scale for the whole chart.
Bars(bucket) == {Magnitude(bucket.expense), Max({0, bucket.income})}
Maximum(buckets) == Max({0} \cup UNION {Bars(b) : b \in buckets})

\* minorRatioPercent
MinorRatioPercent(amount, maximum) ==
    IF maximum <= 0 THEN 0 ELSE (Magnitude(amount) * 10000) \div maximum

\* displayExpenseCategories and categoryRankings: the largest rows, and the sum
\* of the others in one more.
Leading(rows) ==
    CHOOSE top \in SUBSET rows :
        /\ Cardinality(top) = Min({LeadingRows, Cardinality(rows)})
        /\ \A r \in top, q \in rows \ top : r.amount >= q.amount
Other(rows) == SumOver(RowAmount, rows \ Leading(rows))

\* The chart of a currency: monthly points once there are too many daily ones.
ChartPoints(currency, many) ==
    ByCurrency(IF many THEN Trends.monthly ELSE Trends.daily, currency)

\* analyticsTransactionFilters: none for converted figures.
AnalyticsTransactionFilters(currency, direction, category) ==
    IF filters.base # "original" THEN {}
    ELSE {[accounts |-> filters.accounts, from |-> filters.period.from,
           to |-> filters.period.to, currency |-> currency, direction |-> direction,
           category |-> category, excluded |-> FALSE]}

\* The rows of the ledger a link opens.
Linked(f) ==
    {t \in Ledger :
        /\ f.accounts = {} \/ t.account \in f.accounts
        /\ t.at >= f.from /\ t.at <= f.to
        /\ t.currency = f.currency /\ f.direction \in {"any", t.direction}
        /\ f.category \in {"any", t.category}
        /\ figures[t.id].excluded = f.excluded}
LinkedAmount(f) == SumOver(LAMBDA t : figures[t.id].value, Linked(f))
-----------------------------------------------------------------------------
\* A whole, and the shares of one, in hundredths of a percent.
Whole == 10000
SharesOfWhole == 0..Whole

\* A chart's bars are few, stand for periods that do not overlap, add up to the
\* totals and fit under one scale that the highest of them fills.
ChartAddsUp(buckets, totals) ==
    LET highest == Maximum(buckets)
    IN /\ Cardinality(buckets) <= MaximumBuckets
       /\ \A a, b \in buckets : a = b \/ a.end < b.start \/ b.end < a.start
       /\ SumOver(LAMBDA b : b.expense, buckets) = totals.expense
       /\ SumOver(LAMBDA b : b.income, buckets) = totals.income
       /\ \A b \in buckets : \A v \in Bars(b) : MinorRatioPercent(v, highest) \in SharesOfWhole
       /\ highest > 0 => \E b \in buckets : \E v \in Bars(b) :
             MinorRatioPercent(v, highest) = Whole

\* However the points of a currency are drawn together, the chart is one of the
\* totals shown above it.
ChartsAddUp ==
    Asked => \A c \in AvailableCurrencies, many \in BOOLEAN :
       ChartAddsUp(GroupTimeSeriesIntoBuckets(ChartPoints(c, many)),
                   Totals(Included(CurrentGroup, RatesOf(CurrentGroup)))[c])

\* The ranking of a currency's categories leaves no expense out: its rows and
\* the row of the others are the total, and their shares are at most the whole.
RankingAddsUp(rows, total) ==
    /\ SumOver(RowAmount, Leading(rows)) + Other(rows) = total
    /\ Cardinality(Leading(rows)) <= LeadingRows
    /\ SumOver(LAMBDA r : MinorRatioPercent(r.amount, total), rows) <= Whole
RankingsAddUp ==
    Asked => \A c \in AvailableCurrencies :
       RankingAddsUp(ByCurrency(Breakdowns.categories, c),
                     Totals(Included(CurrentGroup, RatesOf(CurrentGroup)))[c].expense)

\* The ledger opened from a figure explains it: the effective amounts of its rows
\* add up to the figure, for the totals and for a category. Only figures in
\* original currencies have such a link.
LedgerExplains ==
    Asked => \A c \in AvailableCurrencies :
       LET included == Included(CurrentGroup, RatesOf(CurrentGroup))
       IN /\ \A f \in AnalyticsTransactionFilters(c, "expense", "any") :
                LinkedAmount(f) = Totals(included)[c].expense
          /\ \A f \in AnalyticsTransactionFilters(c, "income", "any") :
                LinkedAmount(f) = Totals(included)[c].income
          /\ \A row \in ByCurrency(Breakdowns.categories, c) :
                \A f \in AnalyticsTransactionFilters(c, "expense", row.key) :
                   LinkedAmount(f) = row.amount

\* Every figure of the page, from the reports to the bars and the links, stands for
\* the same transactions.
DashboardInvariant == AnalyticsInvariant /\ ChartsAddUp /\ RankingsAddUp /\ LedgerExplains
=============================================================================
