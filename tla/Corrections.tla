----------------------------- MODULE Corrections -----------------------------
(* Correcting one transaction: its adjustment and its exclusion. The worker *)
(* reads the transaction, writes one statement and computes the answer from *)
(* what it read; the browser keeps two copies, the ledger page of its query *)
(* cache and the transaction whose details are open, and submits a second   *)
(* correction before the first is answered when the details were closed and *)
(* opened again. Notes and reasons are left out.                            *)
EXTENDS Integers

CONSTANTS
    Corrections,   \* correction requests under way, of this tab and of others
    Original,      \* original_amount_minor
    Adjusted,      \* amounts the user may enter
    MaxSubmitted   \* bound: corrections submitted

ASSUME CorrectionsAssumption ==
    /\ Original \in Int /\ Adjusted \subseteq Int /\ MaxSubmitted \in Nat

VARIABLES
    row,        \* [amount, adjusted, excluded]: the transaction as every query joins it
    req,        \* [pc, mine, kind, amount, read, answer] of each correction
    submitted,  \* corrections submitted so far
    ledger,     \* the row as the cached page shows it
    fetch,      \* [pc, page]: the GET of the page under way
    details,    \* [open, copy]: useTransactionSelection
    saving,     \* isSaving of the mounted details
    unseen,     \* history: the row changed without this tab being told
    faithful    \* history: the details copied a current page and nothing overlapped

correctionVars == <<row, req, submitted, ledger, fetch, details, saving, unseen,
                    faithful>>
copies == <<ledger, fetch, details, saving>>

Rows == [amount : Adjusted \cup {Original}, adjusted : BOOLEAN, excluded : BOOLEAN]
Imported == [amount |-> Original, adjusted |-> FALSE, excluded |-> FALSE]
NoRequest == [pc |-> "idle", mine |-> FALSE, kind |-> "reset", amount |-> Original,
              read |-> Imported, answer |-> Imported]
NoFetch == [pc |-> "none", page |-> Imported]
Closed == [open |-> FALSE, copy |-> Imported]
Kinds == {"save", "reset", "exclude", "restore"}

CorrectionsInit ==
    /\ row = Imported
    /\ req = [q \in Corrections |-> NoRequest]
    /\ submitted = 0
    /\ ledger = Imported
    /\ fetch = NoFetch
    /\ details = Closed
    /\ saving = {}
    /\ unseen = FALSE
    /\ faithful = FALSE

Pending(q) == req[q].pc # "idle"
MinePending == \E q \in Corrections : Pending(q) /\ req[q].mine
PageIsCurrent == ~unseen /\ ~MinePending /\ fetch.pc = "none"

\* The upsert, the DELETE and the two exclusion statements, as the joins of
\* the queries and toCorrectionResult show them.
Applied(r, kind, amount) ==
    CASE kind = "save" -> [r EXCEPT !.amount = amount, !.adjusted = TRUE]
      [] kind = "reset" -> [r EXCEPT !.amount = Original, !.adjusted = FALSE]
      [] kind = "exclude" -> [r EXCEPT !.excluded = TRUE]
      [] kind = "restore" -> [r EXCEPT !.excluded = FALSE]

\* setSelectedTransaction(transaction) of a row of the ledger.
OpenDetails ==
    /\ ~details.open
    /\ details' = [open |-> TRUE, copy |-> ledger]
    /\ faithful' = PageIsCurrent
    /\ UNCHANGED <<row, req, submitted, ledger, fetch, saving, unseen>>

\* The panel unmounts: what it was saving goes on without it.
CloseDetails ==
    /\ details.open
    /\ details' = Closed
    /\ saving' = {}
    /\ faithful' = FALSE
    /\ UNCHANGED <<row, req, submitted, ledger, fetch, unseen>>

\* submitAdjustment refuses an amount whose sign is not that of the shown one.
SignsAgree(shown, amount) == ~(shown < 0 /\ amount > 0) /\ ~(shown > 0 /\ amount < 0)

Begin(q, mine, kind, amount) ==
    /\ ~Pending(q)
    /\ submitted < MaxSubmitted
    /\ submitted' = submitted + 1
    /\ req' = [req EXCEPT ![q] = [NoRequest EXCEPT !.pc = "find", !.mine = mine,
                                    !.kind = kind, !.amount = amount]]
    /\ faithful' = (faithful /\ \A other \in Corrections : ~Pending(other))

\* TransactionAdjustmentSection: an amount may be saved, and reset when the
\* copy has an adjustment.
AdjustmentOffered(kind) == kind = "save" \/ (kind = "reset" /\ details.copy.adjusted)

\* TransactionExclusionSection: one of the two buttons is there.
ExclusionOffered(kind) ==
    \/ kind = "exclude" /\ ~details.copy.excluded
    \/ kind = "restore" /\ details.copy.excluded

\* A section of the details submits: nothing else of this mount is pending.
Submit(q, kind, amount) ==
    /\ details.open
    /\ saving = {}
    /\ AdjustmentOffered(kind) \/ ExclusionOffered(kind)
    /\ kind = "save" => SignsAgree(details.copy.amount, amount)
    /\ Begin(q, TRUE, kind, amount)
    /\ saving' = {q}
    /\ UNCHANGED <<row, ledger, fetch, details, unseen>>

\* Another tab or device corrects the same transaction.
SubmitElsewhere(q, kind, amount) ==
    /\ Begin(q, FALSE, kind, amount)
    /\ UNCHANGED <<row, copies, unseen>>

\* requiredTransaction: the row before the write.
Find(q) ==
    /\ req[q].pc = "find"
    /\ req' = [req EXCEPT ![q] = [@ EXCEPT !.pc = "write", !.read = row]]
    /\ UNCHANGED <<row, submitted, copies, unseen, faithful>>

\* assertCompatibleDirection, with the direction of the original amount.
CompatibleDirection(q) == req[q].kind = "save" => SignsAgree(Original, req[q].amount)

\* 400: nothing is written, the section shows the error.
Reject(q) ==
    /\ req[q].pc = "write"
    /\ ~CompatibleDirection(q)
    /\ req' = [req EXCEPT ![q] = NoRequest]
    /\ saving' = saving \ {q}
    /\ UNCHANGED <<row, submitted, ledger, fetch, details, unseen, faithful>>

\* toCorrectionResult: from the row read before the write.
AnswerOf(q) == Applied(req[q].read, req[q].kind, req[q].amount)

\* The statement commits.
Write(q) ==
    /\ req[q].pc = "write"
    /\ CompatibleDirection(q)
    /\ row' = Applied(row, req[q].kind, req[q].amount)
    /\ req' = [req EXCEPT ![q] = [@ EXCEPT !.pc = "answer", !.answer = AnswerOf(q)]]
    /\ unseen' = (unseen \/ ~req[q].mine)
    /\ faithful' = (faithful /\ req[q].mine)
    /\ UNCHANGED <<submitted, copies>>

RefetchUnlessUnderWay ==             \* mutant: cancelRefetch: false
    IF fetch.pc = "none" THEN [NoFetch EXCEPT !.pc = "sent"] ELSE fetch

\* refreshTransactionLedger: invalidateQueries cancels the GET under way.
Refetched == [NoFetch EXCEPT !.pc = "sent"]

\* updateSelectedTransaction: the open copy takes what the answer says.
Updated(q) == IF details.open THEN [details EXCEPT !.copy = req[q].answer] ELSE details

\* onSuccess: the open copy is updated, the page is fetched again.
Succeed(q) ==
    /\ req[q].pc = "answer"
    /\ req' = [req EXCEPT ![q] = NoRequest]
    /\ saving' = saving \ {q}
    /\ IF req[q].mine
       THEN /\ details' = Updated(q)
            /\ fetch' = Refetched
       ELSE UNCHANGED <<details, fetch>>
    /\ UNCHANGED <<row, submitted, ledger, unseen, faithful>>

\* The answer is lost: the section shows an error for what was saved.
AnswerLost(q) ==
    /\ req[q].pc = "answer"
    /\ req' = [req EXCEPT ![q] = NoRequest]
    /\ saving' = saving \ {q}
    /\ unseen' = TRUE
    /\ faithful' = FALSE
    /\ UNCHANGED <<row, submitted, ledger, fetch, details>>

\* A focus, a mount or a reconnection refetches the page.
Refetch ==
    /\ fetch.pc = "none"
    /\ fetch' = [NoFetch EXCEPT !.pc = "sent"]
    /\ UNCHANGED <<row, req, submitted, ledger, details, saving, unseen, faithful>>

ReadPage ==
    /\ fetch.pc = "sent"
    /\ fetch' = [pc |-> "read", page |-> row]
    /\ unseen' = FALSE
    /\ UNCHANGED <<row, req, submitted, ledger, details, saving, faithful>>

ShowPage ==
    /\ fetch.pc = "read"
    /\ ledger' = fetch.page
    /\ fetch' = NoFetch
    /\ UNCHANGED <<row, req, submitted, details, saving, unseen, faithful>>

FetchFails ==
    /\ fetch.pc # "none"
    /\ fetch' = NoFetch
    /\ unseen' = TRUE
    /\ UNCHANGED <<row, req, submitted, ledger, details, saving, faithful>>

AmountChoices(kind) == IF kind = "save" THEN Adjusted ELSE {Original}

CorrectionsNext ==
    \/ OpenDetails \/ CloseDetails \/ Refetch \/ ReadPage \/ ShowPage \/ FetchFails
    \/ \E q \in Corrections :
          \/ \E kind \in Kinds : \E amount \in AmountChoices(kind) :
                Submit(q, kind, amount) \/ SubmitElsewhere(q, kind, amount)
          \/ Find(q) \/ Reject(q) \/ Write(q) \/ Succeed(q) \/ AnswerLost(q)

CorrectionsSpec == CorrectionsInit /\ [][CorrectionsNext]_correctionVars
-----------------------------------------------------------------------------
\* Rows, copies and requests hold transactions of the kind the queries return,
\* and what disables the buttons of the details is a request still under way.
CorrectionsTypeInvariant ==
    /\ row \in Rows /\ ledger \in Rows /\ fetch.page \in Rows /\ details.copy \in Rows
    /\ \A q \in Corrections :
          /\ req[q].pc \in {"idle", "find", "write", "answer"}
          /\ req[q].kind \in Kinds
          /\ req[q].read \in Rows /\ req[q].answer \in Rows
    /\ saving \subseteq {q \in Corrections : Pending(q) /\ req[q].mine}

\* Expenses stay expenses: whatever the client let through, the amount that
\* analytics adds up never has the sign of the other direction, and it is the
\* bank's exactly when there is no adjustment.
DirectionKept ==
    /\ SignsAgree(Original, row.amount)
    /\ ~row.adjusted => row.amount = Original

\* The details show the table again once their corrections are answered, if
\* they were copied from a current page and no other correction overlapped:
\* the answer is computed, not read back.
DetailsShowTable ==
    faithful /\ details.open /\ ~MinePending => details.copy = row

\* After a correction of this tab no older page stays on the screen: with no
\* request of its own and no GET under way, the ledger shows the row unless
\* another tab wrote, an answer was lost or a GET failed since it was read.
LedgerShowsTable == PageIsCurrent => ledger = row

\* The table, the details and the ledger page of one tab agree about a corrected
\* transaction whenever no correction of this tab is under way.
CorrectionsInvariant ==
    CorrectionsTypeInvariant /\ DirectionKept /\ DetailsShowTable /\ LedgerShowsTable
=============================================================================
