-------------------------- MODULE CompensationClient --------------------------
(* One tab links incomes to an expense: by dropping an income on it in the *)
(* ledger, which offers "Undo", and in the sheet of its details. Both read *)
(* and write the query ['compensations', expense]. Other tabs and devices  *)
(* change the links too. The Worker's part is module Compensation: here it *)
(* answers from one set of links, which changes between a write and the    *)
(* answer that lists what it left.                                         *)
EXTENDS QueryCache, FiniteSetsExt

CONSTANTS
    Incomes,        \* in the currency of the expense
    IncomeAmount,   \* of each, in minor units
    ExpenseAmount,  \* the original expense, in minor units
    Slots,          \* of the sheets' requests under way
    MaxChanges,     \* bound: changes of the links
    MaxSheets       \* bound: how often the sheet is opened

ASSUME ClientAssumption ==
    /\ 0 \notin Incomes      \* it stands for none
    /\ IncomeAmount \in [Incomes -> Nat \ {0}] /\ ExpenseAmount \in Nat \ {0}
    /\ MaxChanges \in Nat /\ MaxSheets \in Nat

VARIABLES
    links,          \* compensation_links of the expense: [id, income, amount]
    changes,        \* changes of them so far, which also number new links
    detail,         \* the query
    sheet,          \* [open, mount, form]: the sheet, and the choice in it
    sheetEdits,     \* [phase, mount, kind, link, got]: the sheets' mutations
    linkMutation,   \* [phase, income, amount, made, got, link]: the drop
    undoMutation,   \* [phase, id, got]
    ownChange       \* history: the latest change this tab had the answer of

compensationClientVars == <<links, changes, detail, sheet, sheetEdits, linkMutation,
                            undoMutation, ownChange>>

NoLink == [id |-> 0, income |-> 0, amount |-> 0]
Details == [at |-> changes, links |-> links]
Minor(a, b) == IF a < b THEN a ELSE b

\* summary: what the links add up to, and what they leave of the expense.
LinkedTotal(ls) == MapThenSumSet(LAMBDA l : l.amount, ls)
Remaining(ls) == ExpenseAmount - LinkedTotal(ls)
Linked(ls) == {l.income : l \in ls}

\* suggestions of the details, each with what compensationDropAmount and the select offer.
OfferedFrom(ls, income) == Minor(IncomeAmount[income], Remaining(ls))
Suggested(ls) == IF Remaining(ls) > 0 THEN Incomes \ Linked(ls) ELSE {}

\* CompensationService.link accepts, as far as this expense is concerned.
Accepts(income, amount) == income \notin Linked(links) /\ amount <= Remaining(links)

NoDrop == [phase |-> "idle", income |-> 0, amount |-> 0, made |-> 0, got |-> NoData,
           link |-> NoLink]
NoUndo == [phase |-> "idle", id |-> 0, got |-> NoData]
NoEdit == [phase |-> "idle", mount |-> 0, kind |-> "link", link |-> NoLink, got |-> NoData]

CompensationClientInit ==
    /\ links = {} /\ changes = 0
    /\ detail = Query
    /\ sheet = [open |-> FALSE, mount |-> 0, form |-> NoLink]
    /\ sheetEdits = [s \in Slots |-> NoEdit]
    /\ linkMutation = NoDrop /\ undoMutation = NoUndo
    /\ ownChange = 0

Pending(mutation) == mutation.phase \notin {"idle", "done", "failed"}
IsPending == Pending(linkMutation) \/ Pending(undoMutation)
IsSaving == \E s \in Slots : Pending(sheetEdits[s]) /\ sheetEdits[s].mount = sheet.mount

\* createLink and deleteLink, each one change.
Create(income, amount) ==
    /\ changes < MaxChanges /\ Accepts(income, amount)
    /\ changes' = changes + 1
    /\ links' = links \cup {[id |-> changes', income |-> income, amount |-> amount]}
Delete(id) ==
    /\ changes < MaxChanges /\ \E l \in links : l.id = id
    /\ changes' = changes + 1
    /\ links' = {l \in links : l.id # id}

\* setQueryData and refreshCompensationDetails.
Applied(details) == Invalidated(Written(detail, details), sheet.open)
Known(details) == IF details.at > ownChange THEN details.at ELSE ownChange
-----------------------------------------------------------------------------
\* fetchQuery has its details: the income is offered, or there is nothing to link.
Decided(mutation, details) ==
    IF mutation.income \in Suggested(details.links)
    THEN [mutation EXCEPT !.phase = "sent",
                          !.amount = OfferedFrom(details.links, mutation.income)]
    ELSE [mutation EXCEPT !.phase = "failed"]

\* drop(target): the sheet is modal, and one link or undo is under way at a time.
\* Details fresh in the cache are not fetched.
Drop(income) ==
    /\ ~sheet.open /\ ~IsPending
    /\ undoMutation' = NoUndo
    /\ LET asked == [NoDrop EXCEPT !.income = income, !.phase = "reading"]
       IN \/ /\ Has(detail) /\ ~detail.invalid
             /\ linkMutation' = Decided(asked, detail.data)
             /\ UNCHANGED detail
          \/ /\ linkMutation' = asked
             /\ detail' = Fetch(detail)
    /\ UNCHANGED <<links, changes, sheet, sheetEdits, ownChange>>

\* linkCompensation: POST, of which the Worker refuses what no longer fits.
StoreLink ==
    /\ linkMutation.phase = "sent"
    /\ Create(linkMutation.income, linkMutation.amount)
    /\ linkMutation' = [linkMutation EXCEPT !.phase = "stored", !.made = changes']
    /\ UNCHANGED <<detail, sheet, sheetEdits, undoMutation, ownChange>>

ReadLinkAnswer ==
    /\ linkMutation.phase = "stored"
    /\ linkMutation' = [linkMutation EXCEPT !.phase = "answered", !.got = Details]
    /\ UNCHANGED <<links, changes, detail, sheet, sheetEdits, undoMutation, ownChange>>

LinkArrivesLatest ==                 \* mutant: the newest link of the answer
    /\ linkMutation.phase = "answered"
    /\ detail' = Applied(linkMutation.got)
    /\ ownChange' = Known(linkMutation.got)
    /\ LET own == {l \in linkMutation.got.links :
                     \A k \in linkMutation.got.links : k.id <= l.id}
       IN linkMutation' = IF own = {} THEN [linkMutation EXCEPT !.phase = "failed"]
                          ELSE [linkMutation EXCEPT !.phase = "done", !.got = NoData,
                                                    !.link = CHOOSE l \in own : TRUE]
    /\ UNCHANGED <<links, changes, sheet, sheetEdits, undoMutation>>

\* The answer is applied; the link to undo is the one of this income in it.
LinkArrives ==
    /\ linkMutation.phase = "answered"
    /\ detail' = Applied(linkMutation.got)
    /\ ownChange' = Known(linkMutation.got)
    /\ LET own == {l \in linkMutation.got.links : l.income = linkMutation.income}
       IN linkMutation' = IF own = {} THEN [linkMutation EXCEPT !.phase = "failed"]
                          ELSE [linkMutation EXCEPT !.phase = "done", !.got = NoData,
                                                    !.link = CHOOSE l \in own : TRUE]
    /\ UNCHANGED <<links, changes, sheet, sheetEdits, undoMutation>>

\* It is refused, or the answer is lost.
LinkFails ==
    /\ Pending(linkMutation)
    /\ linkMutation' = [linkMutation EXCEPT !.phase = "failed"]
    /\ UNCHANGED <<links, changes, detail, sheet, sheetEdits, undoMutation, ownChange>>

\* undo(): of the link the feedback announces.
Undo ==
    /\ linkMutation.phase = "done" /\ ~IsPending
    /\ undoMutation' = [NoUndo EXCEPT !.phase = "sent", !.id = linkMutation.link.id]
    /\ UNCHANGED <<links, changes, detail, sheet, sheetEdits, linkMutation, ownChange>>

DeleteUndone ==
    /\ undoMutation.phase = "sent"
    /\ Delete(undoMutation.id)
    /\ undoMutation' = [undoMutation EXCEPT !.phase = "stored"]
    /\ UNCHANGED <<detail, sheet, sheetEdits, linkMutation, ownChange>>

ReadUndoAnswer ==
    /\ undoMutation.phase = "stored"
    /\ undoMutation' = [undoMutation EXCEPT !.phase = "answered", !.got = Details]
    /\ UNCHANGED <<links, changes, detail, sheet, sheetEdits, linkMutation, ownChange>>

\* onSuccess: the drop is forgotten.
UndoArrives ==
    /\ undoMutation.phase = "answered"
    /\ detail' = Applied(undoMutation.got)
    /\ ownChange' = Known(undoMutation.got)
    /\ undoMutation' = [NoUndo EXCEPT !.phase = "done"]
    /\ linkMutation' = NoDrop
    /\ UNCHANGED <<links, changes, sheet, sheetEdits>>

\* Another tab removed the link, or the answer is lost: "Undo" stays.
UndoFails ==
    /\ Pending(undoMutation)
    /\ undoMutation' = [NoUndo EXCEPT !.phase = "failed"]
    /\ UNCHANGED <<links, changes, detail, sheet, sheetEdits, linkMutation, ownChange>>

\* "Close", which is disabled while an undo is under way.
Dismiss ==
    /\ linkMutation.phase \in {"done", "failed"} /\ ~Pending(undoMutation)
    /\ linkMutation' = NoDrop /\ undoMutation' = NoUndo
    /\ UNCHANGED <<links, changes, detail, sheet, sheetEdits, ownChange>>
-----------------------------------------------------------------------------
\* The details' GET, which a drop may wait for: a cancelled one is the next one's.
ReadDetail ==
    /\ detail.phase = "sent"
    /\ detail' = ReadAt(detail, Details)
    /\ UNCHANGED <<links, changes, sheet, sheetEdits, linkMutation, undoMutation, ownChange>>

DetailArrives ==
    /\ detail.phase = "read"
    /\ detail' = Received(detail, detail.got)
    /\ linkMutation' = IF linkMutation.phase = "reading" THEN Decided(linkMutation, detail.got)
                       ELSE linkMutation
    /\ UNCHANGED <<links, changes, sheet, sheetEdits, undoMutation, ownChange>>

DetailFails ==
    /\ Fetching(detail)
    /\ detail' = Failed(detail)
    /\ linkMutation' = IF linkMutation.phase = "reading"
                       THEN [linkMutation EXCEPT !.phase = "failed"] ELSE linkMutation
    /\ UNCHANGED <<links, changes, sheet, sheetEdits, undoMutation, ownChange>>

\* The expense is selected; the mutations of its sheet are new. Requests of a sheet
\* that was closed go on.
OpenSheet ==
    /\ ~sheet.open /\ sheet.mount < MaxSheets
    /\ sheet' = [open |-> TRUE, mount |-> sheet.mount + 1, form |-> NoLink]
    /\ \E stale \in BOOLEAN : detail' = Observed(detail, stale)
    /\ UNCHANGED <<links, changes, sheetEdits, linkMutation, undoMutation, ownChange>>

CloseSheet ==
    /\ sheet.open
    /\ sheet' = [sheet EXCEPT !.open = FALSE, !.form = NoLink]
    /\ UNCHANGED <<links, changes, detail, sheetEdits, linkMutation, undoMutation, ownChange>>

\* A suggestion is chosen: the amount is filled in. (The user may type a smaller one.)
Choose(income) ==
    /\ sheet.open /\ ~IsSaving /\ Has(detail) /\ income \in Suggested(detail.data.links)
    /\ \E amount \in 1..OfferedFrom(detail.data.links, income) :
          sheet' = [sheet EXCEPT !.form = [id |-> 0, income |-> income, amount |-> amount]]
    /\ UNCHANGED <<links, changes, detail, sheetEdits, linkMutation, undoMutation, ownChange>>

\* "Link compensation": the suggestion is still one, and the amount within it and the rest.
SubmitLink(s) ==
    /\ sheetEdits[s].phase = "idle"
    /\ sheet.open /\ ~IsSaving /\ Has(detail) /\ ~Fetching(detail)
    /\ sheet.form.income \in Suggested(detail.data.links)
    /\ sheet.form.amount <= OfferedFrom(detail.data.links, sheet.form.income)
    /\ sheetEdits' = [sheetEdits EXCEPT ![s] = [NoEdit EXCEPT !.phase = "sent", !.mount = sheet.mount,
                                                   !.link = sheet.form]]
    /\ UNCHANGED <<links, changes, detail, sheet, linkMutation, undoMutation, ownChange>>

\* "Unlink", of a link in the details that are shown.
SubmitUnlink(s) ==
    /\ sheetEdits[s].phase = "idle"
    /\ sheet.open /\ ~IsSaving /\ Has(detail)
    /\ \E l \in detail.data.links :
          sheetEdits' = [sheetEdits EXCEPT ![s] = [NoEdit EXCEPT !.phase = "sent", !.kind = "unlink",
                                                      !.mount = sheet.mount, !.link = l]]
    /\ UNCHANGED <<links, changes, detail, sheet, linkMutation, undoMutation, ownChange>>

StoreEdit(s) ==
    /\ sheetEdits[s].phase = "sent"
    /\ LET link == sheetEdits[s].link
       IN IF sheetEdits[s].kind = "link" THEN Create(link.income, link.amount) ELSE Delete(link.id)
    /\ sheetEdits' = [sheetEdits EXCEPT ![s].phase = "stored"]
    /\ UNCHANGED <<detail, sheet, linkMutation, undoMutation, ownChange>>

ReadEditAnswer(s) ==
    /\ sheetEdits[s].phase = "stored"
    /\ sheetEdits' = [sheetEdits EXCEPT ![s].phase = "answered", ![s].got = Details]
    /\ UNCHANGED <<links, changes, detail, sheet, linkMutation, undoMutation, ownChange>>

\* onSuccess, also of a sheet that was closed; a link made empties the form of its own.
EditArrives(s) ==
    /\ sheetEdits[s].phase = "answered"
    /\ detail' = Applied(sheetEdits[s].got)
    /\ ownChange' = Known(sheetEdits[s].got)
    /\ sheet' = IF sheetEdits[s].kind = "link" /\ sheetEdits[s].mount = sheet.mount
                THEN [sheet EXCEPT !.form = NoLink] ELSE sheet
    /\ sheetEdits' = [sheetEdits EXCEPT ![s] = NoEdit]
    /\ UNCHANGED <<links, changes, linkMutation, undoMutation>>

EditFails(s) ==
    /\ Pending(sheetEdits[s])
    /\ sheetEdits' = [sheetEdits EXCEPT ![s] = NoEdit]
    /\ UNCHANGED <<links, changes, detail, sheet, linkMutation, undoMutation, ownChange>>

\* Another tab or device links or unlinks.
ChangeElsewhere ==
    /\ \/ \E income \in Suggested(links) :
             \E amount \in 1..OfferedFrom(links, income) : Create(income, amount)
       \/ \E l \in links : Delete(l.id)
    /\ UNCHANGED <<detail, sheet, sheetEdits, linkMutation, undoMutation, ownChange>>

CompensationClientNext ==
    \/ \E income \in Incomes : Drop(income) \/ Choose(income)
    \/ StoreLink \/ ReadLinkAnswer \/ LinkArrives \/ LinkFails
    \/ Undo \/ DeleteUndone \/ ReadUndoAnswer \/ UndoArrives \/ UndoFails \/ Dismiss
    \/ ReadDetail \/ DetailArrives \/ DetailFails \/ OpenSheet \/ CloseSheet
    \/ \E s \in Slots :
          SubmitLink(s) \/ SubmitUnlink(s) \/ StoreEdit(s) \/ ReadEditAnswer(s)
          \/ EditArrives(s) \/ EditFails(s)
    \/ ChangeElsewhere

CompensationClientSpec ==
    CompensationClientInit /\ [][CompensationClientNext]_compensationClientVars
-----------------------------------------------------------------------------
\* "Undo" is offered for a link of the income that was dropped, with the amount that
\* is announced unless the link was replaced before the answer was read, and what is
\* being undone is what the feedback on the screen announces.
UndoIsAnnounced ==
    /\ linkMutation.phase = "done" =>
          /\ linkMutation.link.income = linkMutation.income
          /\ linkMutation.link.id = linkMutation.made =>
                linkMutation.link.amount = linkMutation.amount
    /\ Pending(undoMutation) =>
          linkMutation.phase = "done" /\ undoMutation.id = linkMutation.link.id

\* The details this tab keeps are not those of before a link it made or removed,
\* unless they are marked, being fetched, or a GET of before was under way that
\* nobody observed when the answer came.
DetailsFollow ==
    Has(detail) /\ detail.data.at < ownChange =>
       detail.invalid \/ Fetching(detail) \/ detail.overtaken \/ detail.failed

CompensationClientTypeInvariant ==
    /\ Remaining(links) >= 0 /\ changes \in 0..MaxChanges
    /\ detail.phase \in {"idle", "sent", "read"}
    /\ linkMutation.phase \in {"idle", "reading", "sent", "stored", "answered", "done", "failed"}
    /\ undoMutation.phase \in {"idle", "sent", "stored", "answered", "done", "failed"}
    /\ \A s \in Slots : sheetEdits[s].phase \in {"idle", "sent", "stored", "answered"}
    /\ ownChange <= changes

\* What the tab chose, and what it sends, is an amount the income has, however old
\* the details were that offered it.
Fits(link) == link.income \in Incomes /\ link.amount \in 1..IncomeAmount[link.income]
OffersFit ==
    /\ linkMutation.phase = "sent" => Fits(linkMutation)
    /\ sheet.form = NoLink \/ Fits(sheet.form)
    /\ \A s \in Slots :
          sheetEdits[s].phase = "sent" /\ sheetEdits[s].kind = "link" => Fits(sheetEdits[s].link)

\* What the tab does to the links is what it shows of them.
CompensationClientInvariant ==
    CompensationClientTypeInvariant /\ UndoIsAnnounced /\ DetailsFollow /\ OffersFit

\* Drops, undos, sheets and other tabs together do to the links of the expense, named
\* 0 here, what the Worker promises to allow: they allocate it.
Shared ==
    INSTANCE Allocation WITH
        Expenses <- {0}, Compatible <- {0} \X Incomes,
        Amount <- [x \in {0} \cup Incomes |->
                      IF x = 0 THEN -ExpenseAmount ELSE IncomeAmount[x]],
        share <- [pair \in {0} \X Incomes |->
                    LinkedTotal({l \in links : l.income = pair[2]})]
ClientsAllocate == Shared!Spec
=============================================================================
