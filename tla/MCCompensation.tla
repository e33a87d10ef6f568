--------------------------- MODULE MCCompensation ---------------------------
(* What is done with stored transactions: links that compensate them,      *)
(* corrections of one of them, rates, and reports with their charts. The   *)
(* four do not write what another reads, so one behaviour is a behaviour   *)
(* of one of them.                                                         *)
EXTENDS Compensation, Corrections, CurrencyConversion, DashboardData, TLC

CONSTANTS e1, e2, i1, i2, i3

VARIABLE component

\* Two expenses and two incomes of one currency, sized so that each can fill
\* the other partly; the third income is of another currency.
SomeTransactions == {e1, e2, i1, i2, i3}
SomeAmounts == (e1 :> -2) @@ (e2 :> -1) @@ (i1 :> 2) @@ (i2 :> 1) @@ (i3 :> 2)
SomeCurrencies == [t \in SomeTransactions |-> IF t = i3 THEN "USD" ELSE "UAH"]
Identical == Permutations(Requests) \cup Permutations(Corrections)

\* An expense of two units.
TwoSpent == -2

\* A cross rate, a mean of two decimals of different length, an unusable rate.
SomeQuotes ==
    LET half == [digits |-> 5, places |-> 1]
        three == [digits |-> 3, places |-> 0]
    IN {[kind |-> "cross", rate |-> half],
        [kind |-> "midpoint", buy |-> half, sell |-> three],
        [kind |-> "cross", rate |-> [digits |-> 0, places |-> 2]]}
ConvertedAmounts == {-7, 0, 1, 3}

\* A merchant paid in two currencies and from two accounts, and an income;
\* periods in order and not, two months of three and two days.
SomeLedger ==
    {[id |-> "t1", account |-> "a1", category |-> "food", currency |-> "USD",
      merchant |-> "shop", direction |-> "expense", at |-> 3],
     [id |-> "t2", account |-> "a1", category |-> "food", currency |-> "USD",
      merchant |-> "shop", direction |-> "expense", at |-> 6],
     [id |-> "t3", account |-> "a2", category |-> "cash", currency |-> "UAH",
      merchant |-> "shop", direction |-> "expense", at |-> 7],
     [id |-> "t4", account |-> "a2", category |-> "cash", currency |-> "UAH",
      merchant |-> "job", direction |-> "income", at |-> 8]}
SomeRates ==
    {[from |-> "USD", to |-> "UAH", at |-> 0, num |-> 5, den |-> 2],
     [from |-> "USD", to |-> "UAH", at |-> 5, num |-> 3, den |-> 1],
     [from |-> "EUR", to |-> "UAH", at |-> 1, num |-> 7, den |-> 2],
     [from |-> "EUR", to |-> "UAH", at |-> 9, num |-> 9, den |-> 1]}
SomePeriods == [from : {3, 8}, to : {7, 9}]
SomeMonths == <<3, 2>>

LedgerInit ==
    /\ component \in {"compensation", "corrections", "conversion", "analytics"}
    /\ Init /\ CorrectionsInit /\ ConversionInit /\ AnalyticsInit

LedgerNext ==
    /\ UNCHANGED component
    /\ \/ /\ component = "compensation"
          /\ Next
          /\ UNCHANGED <<correctionVars, rateVars, analyticsVars>>
       \/ /\ component = "corrections"
          /\ CorrectionsNext
          /\ UNCHANGED <<vars, rateVars, analyticsVars>>
       \/ /\ component = "conversion"
          /\ ConversionNext
          /\ UNCHANGED <<vars, correctionVars, analyticsVars>>
       \/ /\ component = "analytics"
          /\ AnalyticsNext
          /\ UNCHANGED <<vars, correctionVars, rateVars>>

LedgerSpec == LedgerInit /\ [][LedgerNext]_<<component, vars, correctionVars,
                                             rateVars, analyticsVars>>
=============================================================================
