------------------------- MODULE MCTransactionSync -------------------------
(* Small instances of TransactionSync for TLC. *)
EXTENDS TransactionSync, TLC

\* One account with a purchase in each part of its history.
OneAccount == {1}
OneProvider == {[id |-> t, account |-> 1, at |-> t] : t \in {1, 3, 6}}

\* An account the bank has no transaction for.
NoProvider == {}

\* Isolates differ in nothing but their name.
Isolates == Permutations(Workers)
=============================================================================
