----------------------------- MODULE MCMonobank -----------------------------
(* What the Worker keeps about the bank: the shared request gate, the      *)
(* accounts, and the statements as they are read and stored; and what a    *)
(* dashboard that refreshes them keeps of that. The five do not share      *)
(* state, so one behaviour is a behaviour of one of them.                  *)
EXTENDS MonobankGate, Accounts, MonobankData, DashboardReports, SyncStates, TLC

CONSTANTS a1, a2

VARIABLE component

\* One card, on the first account.
SomeCards == {<<a1, "black">>}
Identical == Permutations(Refreshes)

\* Codes of two and of three digits; one of them is padded to the other's form.
SomeCurrencies == (<<"9", "8", "0">> :> <<"U", "A", "H">>) @@ (<<"0", "3", "6">> :> <<"A", "U", "D">>)

\* A statement's items: well formed ones of either sign and of no amount, and
\* one for each way an item can be wrong.
SomeItems ==
    LET good == [isRecord |-> TRUE, id |-> "t1", required |-> TRUE, optional |-> TRUE,
                 currencyCode |-> 980, amount |-> -1, mcc |-> 742]
    IN {good,
        [good EXCEPT !.amount = 0, !.currencyCode = 36],
        [good EXCEPT !.id = "t2", !.amount = 1, !.currencyCode = 4, !.mcc = 1],
        [good EXCEPT !.id = "", !.amount = 1],
        [good EXCEPT !.id = "t2", !.currencyCode = 1000],
        [good EXCEPT !.id = "t2", !.required = FALSE],
        [good EXCEPT !.isRecord = FALSE],
        [good EXCEPT !.optional = FALSE],
        [good EXCEPT !.currencyCode = -1]}

\* The reports are four, each within bounds of its own: the saves of settings opened
\* twice, where reports are asked for and not answered; two refreshes of pages opened
\* twice; a save and a refresh of rates together; and the filter of currencies.
Refreshing == {<<kind, r>> \in Kinds \X Requests : refreshing[kind][r] # NotPending}
Saving == {r \in Requests : save[r] # NoSave}
AnyRequest == CHOOSE r \in Requests : TRUE
Narrowed ==
    \/ /\ component = "saves" /\ visits' < MaxVisits
       /\ \A k \in DOMAIN report : report'[k].phase # "read"
       /\ UNCHANGED <<refreshing, mode>>
    \/ /\ component = "refreshes"
       /\ Cardinality(Refreshing') <= 2
       /\ UNCHANGED <<saved, save, mode>>
    \/ /\ component = "reports" /\ visits' < MaxVisits
       /\ books' < MaxBooks /\ saved'.at < MaxSaves
       /\ Saving' \subseteq {AnyRequest} /\ Refreshing' \subseteq {<<"rates", AnyRequest>>}
       /\ UNCHANGED mode
    \/ /\ component = "modes" /\ visits' < MaxVisits /\ books' < MaxBooks
       /\ Refreshing' \subseteq {<<"rates", AnyRequest>>}
       /\ UNCHANGED <<saved, save>>

BankInit ==
    /\ component \in {"gate", "accounts", "data", "saves", "refreshes", "reports", "modes",
                       "states"}
    /\ Init /\ AccountsInit /\ DataInit /\ ReportsInit /\ SyncStatesInit

BankNext ==
    /\ UNCHANGED component
    /\ \/ /\ component = "gate"
          /\ Next
          /\ UNCHANGED <<accountsVars, dataVars, reportsVars, syncStatesVars>>
       \/ /\ component = "accounts"
          /\ AccountsNext
          /\ UNCHANGED <<vars, dataVars, reportsVars, syncStatesVars>>
       \/ /\ component = "data"
          /\ DataNext
          /\ UNCHANGED <<vars, accountsVars, reportsVars, syncStatesVars>>
       \/ /\ component \in {"saves", "refreshes", "reports", "modes"}
          /\ ReportsNext /\ Narrowed
          /\ UNCHANGED <<vars, accountsVars, dataVars, syncStatesVars>>
       \/ /\ component = "states"
          /\ SyncStatesNext
          /\ UNCHANGED <<vars, accountsVars, dataVars, reportsVars>>

BankSpec == BankInit /\ [][BankNext]_<<component, vars, accountsVars, dataVars,
                                         reportsVars, syncStatesVars>>
=============================================================================
