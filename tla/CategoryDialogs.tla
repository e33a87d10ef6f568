--------------------------- MODULE CategoryDialogs ---------------------------
(* "Manage" on the categories page: the list, and the modal dialogs that   *)
(* create, edit, delete and merge. A dialog stays until the list it leads  *)
(* back to was fetched again. The Worker's part is module Categories: here *)
(* it has rows [id, edit], of which other tabs and devices are changing    *)
(* some.                                                                   *)
EXTENDS QueryCache, FiniteSets

CONSTANT MaxEdits       \* bound: changes of the categories
ASSUME DialogsAssumption == MaxEdits \in Nat

VARIABLES
    rows,           \* categories: [id, edit], the edit each is from
    edits,          \* changes so far, which also number new categories
    listed,         \* the query ['categories']
    dialog,         \* [kind, id, target]: editor, pendingDelete or pendingMerge
    mutation,       \* [phase, kind, id, target, made] of the dialog's request;
                    \* made is the change, 0 once its refetch was in vain
    shownEdit       \* history: the latest change a dialog closed upon

dialogsVars == <<rows, edits, listed, dialog, mutation, shownEdit>>

NoDialog == [kind |-> "none", id |-> 0, target |-> 0]
NoMutation == [phase |-> "idle", kind |-> "none", id |-> 0, target |-> 0, made |-> 0]
SubmitPending == mutation.phase \notin {"idle", "error", "success"}
Row(id) == {r \in rows : r.id = id}
ListedIds == IF Has(listed) THEN {r.id : r \in listed.data.rows} ELSE {}

DialogsInit ==
    /\ rows = {[id |-> -1, edit |-> 0], [id |-> -2, edit |-> 0]}
    /\ edits = 0
    /\ listed = Fetch(Query)
    /\ dialog = NoDialog /\ mutation = NoMutation
    /\ shownEdit = 0

\* What the Worker does with each request, if it accepts it; a category in use is
\* among those it does not delete.
CreateRow ==
    rows' = rows \cup {[id |-> edits + 1, edit |-> edits + 1]}
UpdateRow(id) ==
    /\ Row(id) # {}
    /\ rows' = (rows \ Row(id)) \cup {[id |-> id, edit |-> edits + 1]}
DeleteRow(id) == Row(id) # {} /\ rows' = rows \ Row(id)
MergeRow(id, target) == id # target /\ Row(target) # {} /\ DeleteRow(id)
-----------------------------------------------------------------------------
\* "Add category", and "Edit", "Delete" and "Merge" of a listed one, each with the
\* mutation's last outcome forgotten. "Merge" takes two of them.
OpenDialog ==
    /\ dialog = NoDialog
    /\ \/ dialog' = [NoDialog EXCEPT !.kind = "create"]
       \/ \E id \in ListedIds : \E kind \in {"edit", "delete"} \cup
                IF Cardinality(ListedIds) > 1 THEN {"merge"} ELSE {} :
             dialog' = [NoDialog EXCEPT !.kind = kind, !.id = id]
    /\ mutation' = NoMutation
    /\ UNCHANGED <<rows, edits, listed, shownEdit>>

\* The select of "Merge into", also while a merge is under way. What was chosen stays
\* chosen when the list loses it.
ChooseTarget ==
    /\ dialog.kind = "merge"
    /\ \E target \in (ListedIds \ {dialog.id}) \cup {0} :
          dialog' = [dialog EXCEPT !.target = target]
    /\ UNCHANGED <<rows, edits, listed, mutation, shownEdit>>

CloseAnyway ==                       \* mutant: onClose does not ask isPending
    /\ dialog # NoDialog
    /\ dialog' = NoDialog
    /\ UNCHANGED <<rows, edits, listed, mutation, shownEdit>>

\* "Cancel", Escape and the backdrop.
CloseDialog ==
    /\ dialog # NoDialog /\ ~SubmitPending
    /\ dialog' = NoDialog
    /\ UNCHANGED <<rows, edits, listed, mutation, shownEdit>>

\* submit, "Delete category" and "Merge categories". (An empty name is refused.)
SubmitDialog ==
    /\ dialog # NoDialog /\ ~SubmitPending
    /\ dialog.kind = "merge" => dialog.target # 0
    /\ mutation' = [phase |-> "sent", kind |-> dialog.kind, id |-> dialog.id,
                    target |-> dialog.target, made |-> 0]
    /\ UNCHANGED <<rows, edits, listed, dialog, shownEdit>>

StoreMutation ==
    /\ mutation.phase = "sent" /\ edits < MaxEdits
    /\ \/ mutation.kind = "create" /\ CreateRow
       \/ mutation.kind = "edit" /\ UpdateRow(mutation.id)
       \/ mutation.kind = "delete" /\ DeleteRow(mutation.id)
       \/ mutation.kind = "merge" /\ MergeRow(mutation.id, mutation.target)
    /\ edits' = edits + 1
    /\ mutation' = [mutation EXCEPT !.phase = "stored", !.made = edits']
    /\ UNCHANGED <<listed, dialog, shownEdit>>

\* It is refused, or its answer is lost: the dialog says so and stays.
MutationFails ==
    /\ mutation.phase \in {"sent", "stored"}
    /\ mutation' = [mutation EXCEPT !.phase = "error"]
    /\ UNCHANGED <<rows, edits, listed, dialog, shownEdit>>

\* onSuccess: refreshCategoryData is awaited, which the page's list is part of.
AnswerArrives ==
    /\ mutation.phase = "stored"
    /\ mutation' = [mutation EXCEPT !.phase = "refreshing"]
    /\ listed' = Invalidated(listed, TRUE)
    /\ UNCHANGED <<rows, edits, dialog, shownEdit>>

\* All is fetched, or not: an error of a refetch is not one of the mutation.
DialogDone ==
    /\ mutation.phase = "refreshed"
    /\ mutation' = [mutation EXCEPT !.phase = "success"]
    /\ dialog' = NoDialog
    /\ shownEdit' = IF mutation.made = 0 THEN shownEdit ELSE mutation.made
    /\ UNCHANGED <<rows, edits, listed>>
-----------------------------------------------------------------------------
Settled(fetched) ==
    IF mutation.phase = "refreshing"
    THEN [mutation EXCEPT !.phase = "refreshed", !.made = IF fetched THEN @ ELSE 0]
    ELSE mutation

ReadList ==
    /\ listed.phase = "sent"
    /\ listed' = ReadAt(listed, [at |-> edits, rows |-> rows])
    /\ UNCHANGED <<rows, edits, dialog, mutation, shownEdit>>

ListArrives ==
    /\ listed.phase = "read"
    /\ listed' = Received(listed, listed.got)
    /\ mutation' = Settled(~listed.overtaken)
    /\ UNCHANGED <<rows, edits, dialog, shownEdit>>

ListFails ==
    /\ Fetching(listed)
    /\ listed' = Failed(listed)
    /\ mutation' = Settled(FALSE)
    /\ UNCHANGED <<rows, edits, dialog, shownEdit>>

\* "Retry" of the list, and a window that is focused again.
RefetchList ==
    /\ ~Fetching(listed)
    /\ listed' = Fetch(listed)
    /\ UNCHANGED <<rows, edits, dialog, mutation, shownEdit>>

\* By another tab or device, or by a request of a visit before.
CategoriesChangeElsewhere ==
    /\ edits < MaxEdits
    /\ \/ CreateRow
       \/ \E r \in rows : UpdateRow(r.id) \/ DeleteRow(r.id)
    /\ edits' = edits + 1
    /\ UNCHANGED <<listed, dialog, mutation, shownEdit>>

DialogsNext ==
    \/ OpenDialog \/ ChooseTarget \/ CloseDialog \/ SubmitDialog
    \/ StoreMutation \/ MutationFails \/ AnswerArrives \/ DialogDone
    \/ ReadList \/ ListArrives \/ ListFails \/ RefetchList
    \/ CategoriesChangeElsewhere

DialogsSpec == DialogsInit /\ [][DialogsNext]_dialogsVars
-----------------------------------------------------------------------------
\* The dialog on the screen is the one whose request is under way, until its outcome
\* is known: what "Saving..." is about cannot be replaced by another category.
DialogStays ==
    SubmitPending => dialog.kind = mutation.kind /\ dialog.id = mutation.id

\* A dialog that closed upon its own change left a list that has the change, and the
\* list does not go back to before it, unless that refetch failed or the page was
\* still waiting for its first list.
ListShowsChange == Has(listed) => listed.data.at >= shownEdit

\* A dialog and the list behind it keep to what was done.
DialogsInvariant ==
    /\ listed.phase \in {"idle", "sent", "read"} /\ edits \in 0..MaxEdits
    /\ DialogStays /\ ListShowsChange
=============================================================================
