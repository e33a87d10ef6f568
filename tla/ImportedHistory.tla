--------------------------- MODULE ImportedHistory ---------------------------
(* What synchronization promises of the imported history, however many      *)
(* isolates work on it and whatever becomes of them. A statement is stored  *)
(* whole: of one account, without a hole, and nothing that has not happened *)
(* yet. A stretch of the past counts as covered once all the bank has in it *)
(* is stored. Nothing stored or covered is ever given up.                   *)
EXTENDS Integers

CONSTANTS
    Accounts,
    Transactions     \* what the bank has: records [id, account, at]

VARIABLES
    now,
    stored,          \* the transactions imported so far
    covered          \* [Accounts -> sets of stretches [from, to]]

Of(a) == {t \in Transactions : t.account = a}
In(a, stretch) == {t \in Of(a) : stretch.from <= t.at /\ t.at <= stretch.to}

\* All that the account has between two transactions of the statement is in it.
WithoutHole(a, statement) ==
    \A s, u \in statement : In(a, [from |-> s.at, to |-> u.at]) \subseteq statement

Init == now \in Nat /\ stored = {} /\ covered = [a \in Accounts |-> {}]

TimePasses ==
    /\ now' = now + 1
    /\ UNCHANGED <<stored, covered>>

Store(a) ==
    /\ \E statement \in SUBSET {t \in Of(a) : t.at <= now} :
         WithoutHole(a, statement) /\ stored' = stored \cup statement
    /\ UNCHANGED <<now, covered>>

Cover(a) ==
    /\ \E stretch \in covered'[a] :
         /\ stretch.to <= now
         /\ In(a, stretch) \subseteq stored
         /\ covered' = [covered EXCEPT ![a] = @ \cup {stretch}]
    /\ UNCHANGED <<now, stored>>

Next == TimePasses \/ \E a \in Accounts : Store(a) \/ Cover(a)

Spec == Init /\ [][Next]_<<now, stored, covered>>
=============================================================================
