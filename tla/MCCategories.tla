---------------------------- MODULE MCCategories ----------------------------
EXTENDS Categories, TLC

\* Two transactions of one imported source.
AllFood == [t \in Transactions |-> CHOOSE s \in Sources : TRUE]
Alike ==
    Permutations(Ids) \cup Permutations(Names) \cup
    Permutations(Transactions) \cup Permutations(Requests)
=============================================================================
