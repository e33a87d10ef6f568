--------------------------- MODULE MCOfflineCache ---------------------------
(* What a tab keeps of the server's data: the encrypted snapshots, in two  *)
(* tabs and two calls, which are alike, and what three screens read and    *)
(* write. A behaviour is one of the snapshots or of one screen, which do   *)
(* not share state. Pages hold one type, so that two types make two pages. *)
EXTENDS OfflineCache, CompensationClient, BankTypes, TLC

VARIABLE component

Alike == Permutations(Tabs) \cup Permutations(Operations)

\* Either income fills the expense of two or a part of it.
TwoIncomes == <<2, 1>>

ClientInit ==
    /\ component \in {"cache", "compensations", "dialogs", "bank types"}
    /\ Init /\ CompensationClientInit /\ DialogsInit /\ BankTypesInit
    /\ component = "bank types" \/ place.active

ClientNext ==
    /\ UNCHANGED component
    /\ \/ /\ component = "cache"
          /\ Next
          /\ UNCHANGED <<compensationClientVars, dialogsVars, bankTypesVars>>
       \/ /\ component = "compensations"
          /\ CompensationClientNext
          /\ UNCHANGED <<vars, dialogsVars, bankTypesVars>>
       \/ /\ component = "dialogs"
          /\ DialogsNext
          /\ UNCHANGED <<vars, compensationClientVars, bankTypesVars>>
       \/ /\ component = "bank types"
          /\ BankTypesNext
          /\ UNCHANGED <<vars, compensationClientVars, dialogsVars>>

ClientSpec == ClientInit /\ [][ClientNext]_<<component, vars, compensationClientVars,
                                             dialogsVars, bankTypesVars>>
=============================================================================
