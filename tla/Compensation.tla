---------------------------- MODULE Compensation ----------------------------
(* Compensation links between an expense and the incomes that reimburse    *)
(* it. Imported rows are immutable, so amounts are constants; what changes *)
(* is the table compensation_links, which concurrent requests of the owner *)
(* read and write one D1 statement at a time. The service decides on the   *)
(* links it read; the insert trigger decides on the table itself.          *)
EXTENDS Integers, FiniteSetsExt

CONSTANTS
    Transactions,
    Amount,          \* [Transactions -> Int]: original_amount_minor
    Currency,        \* [Transactions -> ...]: original_currency_code
    Requests,        \* HTTP requests that may be under way
    LinkAmounts,     \* amounts the owner enters
    MaxLinks         \* bound: links created in a behaviour

ASSUME CompensationAssumption ==
    /\ Amount \in [Transactions -> Int]
    /\ LinkAmounts \subseteq Nat \ {0}
    /\ MaxLinks \in Nat

VARIABLES
    links,           \* rows of compensation_links
    created,         \* links created so far: the id of the next one
    request          \* in-memory state of each request

vars == <<links, created, request>>

\* direction: assigned at import from the sign of the amount
Expenses == {t \in Transactions : Amount[t] < 0}
Incomes == {t \in Transactions : Amount[t] >= 0}
Compatible ==
    {pair \in Expenses \X Incomes : Currency[pair[1]] = Currency[pair[2]]}

Link == [id : 1..MaxLinks, expense : Expenses, income : Incomes,
         amount : LinkAmounts]
ExpenseLinks(e) == {l \in links : l.expense = e}
IncomeLinks(i) == {l \in links : l.income = i}
Total(ls) == MapThenSumSet(LAMBDA l : l.amount, ls)

\* summary().remainingPersonalExpenseMinor, as a positive amount
Remaining(e, ls) == -Amount[e] - Total(ls)
Unused(i, ls) == Amount[i] - Total(ls)
Smaller(x, y) == IF x <= y THEN x ELSE y

Idle == [pc |-> "idle"]

Init ==
    /\ links = {}
    /\ created = 0
    /\ request = [r \in Requests |-> Idle]

Go(r, state) == request' = [request EXCEPT ![r] = state]
Ready(r) == request[r].pc \in {"idle", "answered"}

\* POST: the two transactions exist, are an expense and an income of one
\* currency, and the amount is positive; any other request changes nothing.
BeginLink(r) ==
    /\ Ready(r)
    /\ \E pair \in Compatible, amount \in LinkAmounts :
         Go(r, [pc |-> "expense links", expense |-> pair[1], income |-> pair[2],
                amount |-> amount])
    /\ UNCHANGED <<links, created>>

\* findExpenseLinks, and the refusal of a pair that is already linked
ReadExpenseLinks(r) ==
    /\ request[r].pc = "expense links"
    /\ LET q == request[r] seen == ExpenseLinks(q.expense) IN
         IF \E l \in seen : l.income = q.income
         THEN Go(r, Idle)
         ELSE Go(r, [pc |-> "income links", expense |-> q.expense,
                     income |-> q.income, amount |-> q.amount, seen |-> seen])
    /\ UNCHANGED <<links, created>>

FitsSkipsIncome(q, incomeSeen) ==           \* mutant: one side checked
    q.amount <= Remaining(q.expense, q.seen)

\* The service's own check, on the links it has read.
Fits(q, incomeSeen) ==
    /\ q.amount <= Remaining(q.expense, q.seen)
    /\ q.amount <= Unused(q.income, incomeSeen)

\* findIncomeLinks, then the amounts
ReadIncomeLinks(r) ==
    /\ request[r].pc = "income links"
    /\ LET q == request[r] seen == IncomeLinks(q.income) IN
         IF Fits(q, seen)
         THEN Go(r, [pc |-> "insert", expense |-> q.expense, income |-> q.income,
                     amount |-> q.amount, seen |-> q.seen,
                     incomeSeen |-> seen])
         ELSE Go(r, Idle)
    /\ UNCHANGED <<links, created>>

AcceptsAnyAmount(q) ==                      \* mutant: no amount in the trigger
    \A l \in links : ~(l.expense = q.expense /\ l.income = q.income)

AcceptsRepeatedPair(q) ==                   \* mutant: no UNIQUE
    /\ q.amount <= Remaining(q.expense, ExpenseLinks(q.expense))
    /\ q.amount <= Unused(q.income, IncomeLinks(q.income))

\* UNIQUE (expense, income) and validate_compensation_link_insert
Accepts(q) ==
    /\ \A l \in links : ~(l.expense = q.expense /\ l.income = q.income)
    /\ q.amount <= Remaining(q.expense, ExpenseLinks(q.expense))
    /\ q.amount <= Unused(q.income, IncomeLinks(q.income))

CreateLink(r) ==
    /\ request[r].pc = "insert"
    /\ created < MaxLinks
    /\ LET q == request[r] IN
         /\ Accepts(q)
         /\ links' = links \cup {[id |-> created + 1, expense |-> q.expense,
                                  income |-> q.income, amount |-> q.amount]}
         /\ Go(r, [pc |-> "links", expense |-> q.expense])
    /\ created' = created + 1

\* The statement is aborted, the error is not a CompensationError: 500.
CreateAborted(r) ==
    /\ request[r].pc = "insert"
    /\ ~Accepts(request[r])
    /\ Go(r, Idle)
    /\ UNCHANGED <<links, created>>

\* DELETE of a link id the owner has seen
BeginUnlink(r) ==
    /\ Ready(r)
    /\ \E e \in Expenses, id \in 1..created :
         Go(r, [pc |-> "unlink", expense |-> e, id |-> id])
    /\ UNCHANGED <<links, created>>

ReadUnlinkLinks(r) ==
    /\ request[r].pc = "unlink"
    /\ LET q == request[r] IN
         IF \E l \in ExpenseLinks(q.expense) : l.id = q.id
         THEN Go(r, [pc |-> "delete", expense |-> q.expense, id |-> q.id])
         ELSE Go(r, Idle)
    /\ UNCHANGED <<links, created>>

DeleteAllLinks(r) ==                        \* mutant: no id in the DELETE
    /\ request[r].pc = "delete"
    /\ links' = links \ ExpenseLinks(request[r].expense)
    /\ Go(r, [pc |-> "links", expense |-> request[r].expense])
    /\ UNCHANGED created

DeleteLink(r) ==
    /\ request[r].pc = "delete"
    /\ LET q == request[r] IN
         /\ links' = links \ {l \in ExpenseLinks(q.expense) : l.id = q.id}
         /\ Go(r, [pc |-> "links", expense |-> q.expense])
    /\ UNCHANGED created

\* GET, and the end of the two other operations: getDetails
GetDetails(r) ==
    /\ Ready(r)
    /\ \E e \in Expenses : Go(r, [pc |-> "links", expense |-> e])
    /\ UNCHANGED <<links, created>>

ReadLinks(r) ==
    /\ request[r].pc = "links"
    /\ LET e == request[r].expense IN
         Go(r, [pc |-> "candidates", expense |-> e, seen |-> ExpenseLinks(e)])
    /\ UNCHANGED <<links, created>>

CandidatesUsedElsewhere(e) ==               \* mutant: no NOT EXISTS
    {i \in Incomes : <<e, i>> \in Compatible}

\* findIncomeCandidates: incomes of the currency without any link
IncomeCandidates(e) ==
    {i \in Incomes : <<e, i>> \in Compatible /\ IncomeLinks(i) = {}}

\* suggest(), up to the order and the cut at twelve: no candidate scores
\* below the threshold of 35.
Suggest(r) ==
    /\ request[r].pc = "candidates"
    /\ LET q == request[r]
           linked == {l.income : l \in q.seen} IN
         Go(r, [pc |-> "answered",
                suggestions |-> {i \in IncomeCandidates(q.expense) \ linked :
                                    Amount[i] > 0}])
    /\ UNCHANGED <<links, created>>

Serve(r) ==
    \/ BeginLink(r) \/ ReadExpenseLinks(r) \/ ReadIncomeLinks(r)
    \/ CreateLink(r) \/ CreateAborted(r)
    \/ BeginUnlink(r) \/ ReadUnlinkLinks(r) \/ DeleteLink(r)
    \/ GetDetails(r) \/ ReadLinks(r) \/ Suggest(r)

Next == \E r \in Requests : Serve(r)

Spec == Init /\ [][Next]_vars

-----------------------------------------------------------------------------
TypeInvariant ==
    /\ links \subseteq Link
    /\ created \in 0..MaxLinks
    /\ \A r \in Requests : ~Ready(r) => request[r].expense \in Expenses

\* README, "unallocated incoming amounts": however requests interleave, no
\* expense is compensated beyond its amount and no income used beyond its own.
WithinAmounts ==
    /\ \A e \in Expenses : Remaining(e, ExpenseLinks(e)) >= 0
    /\ \A i \in Incomes : Unused(i, IncomeLinks(i)) >= 0

\* A link is deleted and created again under another id: an unlink request that
\* was under way for the first one leaves the second alone, and nothing but a
\* successful unlink removes a link.
OnlyUnlinkRemoves ==
    [][\A l \in links \ links' :
         \E r \in Requests : request[r].pc = "delete" /\ request[r].id = l.id]_vars

\* The service's check and the trigger agree: the trigger aborts an insert (an
\* unexpected error to the owner) only if the links of the two transactions
\* changed after the service read them.
AbortsOnlyOnRace ==
    [][\A r \in Requests :
         /\ request[r].pc = "insert"
         /\ request'[r].pc = "idle"
         => \/ request[r].seen # ExpenseLinks(request[r].expense)
            \/ request[r].incomeSeen # IncomeLinks(request[r].income)]_vars

\* An offer stands: if nothing was written between the two reads of an answer,
\* the amount the client proposes for a suggested income (the smaller of what the
\* answer calls available and remaining) passes the trigger at that moment.
OfferStands ==
    [][\A r \in Requests :
         LET q == request[r] IN
         /\ q.pc = "candidates"
         /\ request'[r].pc = "answered"
         /\ q.seen = ExpenseLinks(q.expense)
         /\ Remaining(q.expense, q.seen) > 0
         => \A i \in request'[r].suggestions :
              Accepts([expense |-> q.expense, income |-> i, amount |->
                       Smaller(Amount[i], Remaining(q.expense, q.seen))])]_vars

\* The concurrent service implements atomic allocation.
Allocates ==
    INSTANCE Allocation WITH
        share <- [pair \in Expenses \X Incomes |->
                    Total({l \in links : l.expense = pair[1] /\ l.income = pair[2]})]
AllocatesAtomically == Allocates!Spec

\* The links are between transactions that may be linked and within their amounts.
LinksInvariant == TypeInvariant /\ WithinAmounts
=============================================================================
