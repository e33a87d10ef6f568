------------------------------ MODULE RateMath ------------------------------
(* Converting an amount in minor units with a table of dated rates, which  *)
(* are fractions [from, to, at, num, den]. A set with at most one element  *)
(* stands for a value that may be null.                                    *)
EXTENDS Integers

AnyLatest(from, to, t, table) ==             \* mutant: rates of after the transaction
    {r \in table : r.from = from /\ r.to = to /\
        \A q \in table : q.from = from /\ q.to = to => q.at <= r.at}

\* latestRate: the latest one dated at or before the transaction, if any.
Latest(from, to, t, table) ==
    LET usable == {r \in table : r.from = from /\ r.to = to /\ r.at <= t}
    IN {r \in usable : \A q \in usable : q.at <= r.at}

One == [num |-> 1, den |-> 1]
Ratio(found) == LET r == CHOOSE r \in found : TRUE IN [num |-> r.num, den |-> r.den]
Inverted(r) == [num |-> r.den, den |-> r.num]

\* rateForDirectOrInverse
DirectOrInverse(from, to, t, table) ==
    CASE from = to -> {One}
      [] Latest(from, to, t, table) # {} -> {Ratio(Latest(from, to, t, table))}
      [] Latest(to, from, t, table) # {} -> {Inverted(Ratio(Latest(to, from, t, table)))}
      [] OTHER -> {}

ThroughUahInverted(from, to, t, table) ==    \* mutant: the second leg upside down
    {[num |-> a.num * b.den, den |-> a.den * b.num] :
        a \in DirectOrInverse(from, "UAH", t, table),
        b \in DirectOrInverse("UAH", to, t, table)}

ThroughUah(from, to, t, table) ==
    {[num |-> a.num * b.num, den |-> a.den * b.den] :
        a \in DirectOrInverse(from, "UAH", t, table),
        b \in DirectOrInverse("UAH", to, t, table)}

\* rateFor: the empty set stands for null.
RateFor(from, to, t, table) ==
    CASE from = to -> {One}
      [] Latest(from, to, t, table) # {} -> {Ratio(Latest(from, to, t, table))}
      [] OTHER -> ThroughUah(from, to, t, table)

Magnitude(x) == IF x < 0 THEN -x ELSE x

\* multiplyAndRound: to the nearest, ties away from zero, on magnitudes.
MultiplyAndRound(amount, rate) ==
    LET rounded == (Magnitude(amount) * rate.num + rate.den \div 2) \div rate.den
    IN IF amount < 0 THEN -rounded ELSE rounded

\* convertTransactionsToBaseCurrency for one transaction: its converted amount,
\* or none when it is counted as missing; a magnitude past MaxSafe throws.
Converted(amount, from, to, t, table) ==
    {MultiplyAndRound(amount, r) : r \in RateFor(from, to, t, table)}
=============================================================================
