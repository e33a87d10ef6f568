------------------------------ MODULE MCWorker ------------------------------
(* The rest of the Worker: transaction synchronization, the way in, the    *)
(* router, and the ledger that is read page by page. The four do not share *)
(* state, so one behaviour is a behaviour of one of them.                  *)
EXTENDS Freshness, Authentication, ApiRouter, LedgerPages, TLC

VARIABLE component

\* One account with a purchase in each part of its history.
OneAccount == {1}
OneProvider == {[id |-> t, account |-> 1, at |-> t] : t \in {1, 3, 6}}

\* Routes of every kind: public and private, safe and not, and one that the
\* client requests and the Worker does not mount.
SomeRoutes ==
    {Get(p) : p \in {"health", "auth/session", "accounts", "system/status"}}
    \cup {Post(p) : p \in {"auth/login", "auth/logout", "auth/setup", "sync/accounts"}}
SomeErrors == {<<"plain">>, <<"d1">>, <<"plain", "d1">>, <<"plain", "plain", "d1">>}

\* Four transactions, three of them of one day or category, two of one second.
LedgerRow(id, at, code) ==
    [id |-> id, at |-> at, account |-> IF id % 2 = 0 THEN "a" ELSE "b",
     direction |-> IF id = 1 THEN "income" ELSE "expense", currency |-> "UAH",
     code |-> code, terms |-> {"any"}]
SomeRows == {LedgerRow(1, 1, "none"), LedgerRow(2, 2, "food"),
             LedgerRow(3, 2, "food"), LedgerRow(4, 3, "food")}

\* No filter, the rows of reports in a category of a name, more accounts than are
\* accepted, and a period that ends before it begins.
SomeFilters == {NoFilter, [NoFilter EXCEPT !.excluded = "false", !.name = "food"],
                [NoFilter EXCEPT !.accountIds = {"a", "b"}, !.dateFrom = 1],
                [NoFilter EXCEPT !.dateFrom = 3, !.dateTo = 1]}

\* What differs in nothing but its name: isolates, logins and requests; setups and
\* tokens.
Identical == Permutations(Workers) \cup Permutations(Setups)

WorkerInit ==
    /\ component \in {"sync", "auth", "router", "ledger"}
    /\ Init /\ AuthInit /\ RouterInit /\ LedgerInit
    /\ component # "sync" => active = {}
    /\ component # "router" => \A t \in Tokens : sessionRow[t] = "none"
    /\ component # "ledger" => stored = {}

WorkerNext ==
    /\ UNCHANGED component
    /\ \/ component = "sync" /\ Next /\ UNCHANGED <<authVars, routerVars, ledgerVars>>
       \/ component = "auth" /\ AuthNext /\ UNCHANGED <<vars, routerVars, ledgerVars>>
       \/ component = "router" /\ RouterNext /\ UNCHANGED <<vars, authVars, ledgerVars>>
       \/ component = "ledger" /\ LedgerNext /\ UNCHANGED <<vars, authVars, routerVars>>

WorkerSpec == WorkerInit /\ [][WorkerNext]_<<component, vars, authVars, routerVars,
                                             ledgerVars>>
=============================================================================
