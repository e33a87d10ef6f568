----------------------------- MODULE Allocation -----------------------------
(* What compensation links promise: every expense hands out its amount to  *)
(* incomes and every income its own amount to expenses, one share per      *)
(* pair, each step atomic and never more than what either side has left.   *)
EXTENDS Integers, FiniteSetsExt

CONSTANTS
    Expenses, Incomes,
    Amount,        \* [Expenses \cup Incomes -> Int], expenses negative
    Compatible     \* the pairs that share a currency

VARIABLE share     \* [Expenses \X Incomes -> Nat], 0 where there is no link

Handed(e) == MapThenSumSet(LAMBDA i : share[<<e, i>>], Incomes)
Taken(i) == MapThenSumSet(LAMBDA e : share[<<e, i>>], Expenses)

Init == share = [pair \in Expenses \X Incomes |-> 0]

Allocate(e, i) ==
    /\ <<e, i>> \in Compatible
    /\ share[<<e, i>>] = 0
    /\ \E amount \in 1..Amount[i] :
         /\ Handed(e) + amount <= -Amount[e]
         /\ Taken(i) + amount <= Amount[i]
         /\ share' = [share EXCEPT ![<<e, i>>] = amount]

Release(e, i) ==
    /\ share[<<e, i>>] > 0
    /\ share' = [share EXCEPT ![<<e, i>>] = 0]

Next == \E e \in Expenses, i \in Incomes : Allocate(e, i) \/ Release(e, i)

Spec == Init /\ [][Next]_share
=============================================================================
