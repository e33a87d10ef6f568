------------------------- MODULE CurrencyConversion -------------------------
(* Exchange rates from the bank's public endpoint, stored by date, and the *)
(* conversion of historical transactions with them. A quote of the bank is *)
(* a decimal, a number of digits behind its point; a rate is a reduced     *)
(* fraction. Amounts are minor units and stay integers throughout.         *)
EXTENDS RateMath, FiniteSets

CONSTANTS
    Currencies,    \* alphabetic codes that occur in quotes, "UAH" among them
    Quotes,        \* the quotes the bank may send: a cross rate, or buying and selling
    MaxDate,       \* bound: dates of quotes and transactions
    MaxQuotes,     \* bound: rates stored
    Amounts,       \* amounts to convert
    MaxSafe        \* Number.MAX_SAFE_INTEGER

Decimals == [digits : Nat, places : Nat]

ASSUME ConversionAssumption ==
    /\ "UAH" \in Currencies
    /\ Quotes \subseteq [kind : {"cross"}, rate : Decimals]
          \cup [kind : {"midpoint"}, buy : Decimals, sell : Decimals]
    /\ Amounts \subseteq Int
    /\ MaxDate \in Nat /\ MaxQuotes \in Nat /\ MaxSafe \in Nat

VARIABLES
    rates,         \* rows of exchange_rates: a set of [from, to, at, num, den, quote]
    lastSync       \* of the latest synchronization: "none", "stored", "failed"

rateVars == <<rates, lastSync>>

\* What /bank/currency answers for one pair of currencies.
Offers == [from : Currencies, to : Currencies, at : 0..MaxDate, quote : Quotes]

gcd[p \in Nat \X Nat] == IF p[2] = 0 THEN p[1] ELSE gcd[<<p[2], p[1] % p[2]>>]

\* reduce: positive safe integers in lowest terms; otherwise the answer is invalid.
Reduced(n, d) == [num |-> n \div gcd[<<n, d>>], den |-> d \div gcd[<<n, d>>]]
Reducible(n, d) == n \in 1..MaxSafe /\ d \in 1..MaxSafe

\* decimalRate of a decimal: the digits over a power of ten.
Fraction(q) == Reduced(q.digits, 10 ^ q.places)
Readable(q) == Reducible(q.digits, 10 ^ q.places)

\* midpoint: numerator/denominator of the mean of two fractions.
Midpoint(buy, sell) ==
    [num |-> buy.num * sell.den + sell.num * buy.den, den |-> 2 * buy.den * sell.den]

ValidQuote(q) ==
    IF q.kind = "cross" THEN Readable(q.rate)
    ELSE /\ Readable(q.buy)
         /\ Readable(q.sell)
         /\ LET m == Midpoint(Fraction(q.buy), Fraction(q.sell))
            IN Reducible(m.num, m.den)

\* rateCross ?? midpoint(record)
RateOf(q) ==
    IF q.kind = "cross" THEN Fraction(q.rate)
    ELSE LET m == Midpoint(Fraction(q.buy), Fraction(q.sell))
         IN Reduced(m.num, m.den)

Row(o) == [from |-> o.from, to |-> o.to, at |-> o.at, num |-> RateOf(o.quote).num,
           den |-> RateOf(o.quote).den, quote |-> o.quote]
SameKey(r, o) == r.from = o.from /\ r.to = o.to /\ r.at = o.at

ConversionInit == rates = {} /\ lastSync = "none"

\* One invalid quote throws away the whole answer; a pair of a currency with
\* itself aborts the whole batch.
Synchronizable(offers) == \A o \in offers : ValidQuote(o.quote) /\ o.from # o.to

\* INSERT ... ON CONFLICT(from, to, rate_at, source) DO NOTHING.
StoredRows(offers) == rates

\* synchronize: retrieveLatestRates and one batch.
SynchronizeRates(offers) ==
    /\ Synchronizable(offers)
    /\ rates' = StoredRows(offers) \cup
          {Row(o) : o \in {p \in offers : \A r \in StoredRows(offers) : ~SameKey(r, p)}}
    /\ Cardinality(rates') <= MaxQuotes
    /\ lastSync' = "stored"

\* No answer, an answer that is not 2xx, a timeout, or an invalid one.
SynchronizeRatesFails ==
    /\ lastSync' = "failed"
    /\ UNCHANGED rates

ConversionNext ==
    \/ SynchronizeRatesFails
    \/ \E o \in Offers : SynchronizeRates({o})
    \/ \E o \in Offers, from, to \in Currencies :
          SynchronizeRates({o, [o EXCEPT !.from = from, !.to = to]})

ConversionSpec == ConversionInit /\ [][ConversionNext]_rateVars
-----------------------------------------------------------------------------
\* A row has a positive rate in lowest terms between two currencies, and one
\* row stands for a pair and a date.
RatesTypeInvariant ==
    /\ lastSync \in {"none", "stored", "failed"}
    /\ \A r \in rates : r.num > 0 /\ r.den > 0 /\ gcd[<<r.num, r.den>>] = 1
    /\ \A r, q \in rates : SameKey(r, q) => r = q

\* What is stored is exactly the quote, or exactly the mean of buying and
\* selling: no digit is lost between the decimal, the fraction and the column.
RateIsQuote ==
    \A r \in rates :
       IF r.quote.kind = "cross"
       THEN r.num * 10 ^ r.quote.rate.places = r.quote.rate.digits * r.den
       ELSE r.num * 2 * 10 ^ r.quote.buy.places * 10 ^ r.quote.sell.places =
            r.den * (r.quote.buy.digits * 10 ^ r.quote.sell.places
                     + r.quote.sell.digits * 10 ^ r.quote.buy.places)

\* A converted amount is the nearest minor unit to amount times rate, ties away
\* from zero, so a refund converts to exactly the opposite of its purchase.
Nearest(a, r) ==
    LET c == MultiplyAndRound(a, r)
        twice == 2 * (c * r.den - a * r.num)
    IN /\ Magnitude(twice) <= r.den
       /\ twice # 0 => (Magnitude(twice) = r.den => (twice > 0) = (a > 0))
       /\ MultiplyAndRound(-a, r) = -c
RoundsToNearest == \A r \in rates, a \in Amounts : Nearest(a, r)

\* Without a quote of the pair itself, the way there and the way back are each
\* other's inverse, also through the hryvnia: neither direction gains. (A bank that
\* quotes a currency both to and from the hryvnia gives each direction its own rate.)
WayBackInverts ==
    \A from, to \in Currencies, t \in 0..MaxDate :
       /\ Latest(from, to, t, rates) = {} /\ Latest(to, from, t, rates) = {}
       /\ \A c \in {from, to} : Latest(c, "UAH", t, rates) = {} \/ Latest("UAH", c, t, rates) = {}
       => \A there \in RateFor(from, to, t, rates), back \in RateFor(to, from, t, rates) :
             there.num * back.num = there.den * back.den

\* A report of the past stands: rates that arrive later, dated after a
\* transaction, do not change what it converts to.
PastTotalsStand ==
    [][rates' # rates /\ rates \subseteq rates' =>
       \A from, to \in Currencies, t \in 0..MaxDate, a \in Amounts :
          (\A r \in rates' \ rates : r.at > t)
             => Converted(a, from, to, t, rates') = Converted(a, from, to, t, rates)]_rateVars

\* A stored rate is history: a later answer for the same pair and date neither
\* replaces nor removes it, and a failed synchronization removes nothing.
StoredRatesStay == [][rates \subseteq rates']_rateVars

\* From the quote of the bank to the converted amount nothing is lost but the last half
\* of a minor unit.
ConversionInvariant == RatesTypeInvariant /\ RateIsQuote /\ RoundsToNearest /\ WayBackInverts

\* Synchronizing rates rewrites no history: neither the rates of the past nor what
\* reports of the past converted with them.
HistoryStands == PastTotalsStand /\ StoredRatesStay
=============================================================================
