------------------------- MODULE CompensationProofs -------------------------
(* Compensation links, corrections, exchange rates and reports, for any    *)
(* transactions, amounts, quotes, periods and number of concurrent         *)
(* requests: what the service's check and the trigger have in common, that *)
(* links stay within both amounts, that the service implements module      *)
(* Allocation, that the screens show the table, that from the bank's rates *)
(* to the converted amounts nothing is lost, and that all figures of a     *)
(* dashboard stand for the same transactions.                              *)
EXTENDS Compensation, Corrections, CurrencyConversion, DashboardData, DataTheorems, TLAPS

\* A request past the service's checks passed them on what it has read.
Passed(q) ==
    /\ q.pc \in {"income links", "insert"} =>
         \A l \in q.seen : l.income # q.income
    /\ q.pc = "insert" => Fits(q, q.incomeSeen)

Checked == \A r \in Requests : Passed(request[r])

\* request is a function on Requests.
Inv == Checked /\ request = [r \in Requests |-> request[r]]

LEMMA GoAssigns ==
    ASSUME NEW r \in Requests, NEW state, Go(r, state),
           request = [x \in Requests |-> request[x]]
    PROVE  /\ request' = [x \in Requests |-> request'[x]]
           /\ request'[r] = state
           /\ \A x \in Requests \ {r} : request'[x] = request[x]
  BY DEF Go

\* What one request does keeps the invariant.
LEMMA ServeKeepsInv ==
    ASSUME Inv, NEW r \in Requests, Serve(r)
    PROVE  Inv'
  <1>1. ASSUME NEW state, Go(r, state), Passed(state)
        PROVE  Inv'
    <2>1. /\ request' = [x \in Requests |-> request'[x]]
          /\ request'[r] = state
          /\ \A x \in Requests \ {r} : request'[x] = request[x]
      BY <1>1, GoAssigns DEF Inv
    <2>3. ASSUME NEW x \in Requests
          PROVE  Passed(request'[x])
      <3>1. CASE x = r
        BY <1>1, <2>1, <3>1
      <3>2. CASE x # r
        BY <2>1, <3>2 DEF Inv, Checked
      <3> QED BY <3>1, <3>2
    <2>4. Checked'
      BY <2>3 DEF Checked, Passed, Fits, Remaining, Unused
    <2> QED BY <2>1, <2>4 DEF Inv
  <1>2. CASE BeginLink(r)
    BY <1>1, <1>2 DEF BeginLink, Passed
  <1>3. CASE ReadExpenseLinks(r)
    BY <1>1, <1>3 DEF ReadExpenseLinks, Idle, Passed, ExpenseLinks
  <1>4. CASE ReadIncomeLinks(r)
    <2> DEFINE q == request[r]
               seen == IncomeLinks(q.income)
               state == [pc |-> "insert", expense |-> q.expense,
                         income |-> q.income, amount |-> q.amount,
                         seen |-> q.seen, incomeSeen |-> seen]
    <2>1. CASE Fits(q, seen)
      <3>1. Fits(state, state.incomeSeen)
        BY <2>1 DEF Fits
      <3>2. Passed(state)
        BY <1>4, <3>1 DEF Inv, Checked, Passed, ReadIncomeLinks
      <3>3. Go(r, state)
        BY <1>4, <2>1 DEF ReadIncomeLinks
      <3> HIDE DEF state
      <3> QED BY <1>1, <3>2, <3>3
    <2>2. CASE ~Fits(q, seen)
      BY <1>1, <1>4, <2>2 DEF ReadIncomeLinks, Idle, Passed
    <2> QED BY <2>1, <2>2
  <1>5. CASE CreateLink(r)
    BY <1>1, <1>5 DEF CreateLink, Passed
  <1>6. CASE CreateAborted(r)
    BY <1>1, <1>6 DEF CreateAborted, Idle, Passed
  <1>7. CASE BeginUnlink(r)
    BY <1>1, <1>7 DEF BeginUnlink, Passed
  <1>8. CASE ReadUnlinkLinks(r)
    BY <1>1, <1>8 DEF ReadUnlinkLinks, Idle, Passed
  <1>9. CASE DeleteLink(r)
    BY <1>1, <1>9 DEF DeleteLink, Passed
  <1>10. CASE GetDetails(r)
    BY <1>1, <1>10 DEF GetDetails, Passed
  <1>11. CASE ReadLinks(r)
    BY <1>1, <1>11 DEF ReadLinks, Passed
  <1>12. CASE Suggest(r)
    BY <1>1, <1>12 DEF Suggest, Passed
  <1> QED BY <1>2, <1>3, <1>4, <1>5, <1>6, <1>7, <1>8, <1>9, <1>10, <1>11,
             <1>12 DEF Serve

THEOREM InvHolds == Spec => []Inv
  <1>1. Init => Inv
    <2>1. Passed(Idle)
      BY DEF Passed, Idle
    <2>2. ASSUME Init
          PROVE  request = [r \in Requests |-> Idle]
      BY <2>2 DEF Init
    <2> QED BY <2>1, <2>2 DEF Inv, Checked
  <1>2. Inv /\ [Next]_vars => Inv'
    <2> SUFFICES ASSUME Inv, [Next]_vars PROVE Inv'
      OBVIOUS
    <2>1. ASSUME NEW r \in Requests, Serve(r) PROVE Inv'
      BY <2>1, ServeKeepsInv
    <2>2. CASE UNCHANGED vars
      BY <2>2 DEF vars, Inv, Checked, Passed, Fits, Remaining, Unused
    <2> QED BY <2>1, <2>2 DEF Next
  <1> QED BY <1>1, <1>2, PTL DEF Spec

\* The service and the insert trigger never disagree about the same links: an
\* insert that passed the service's check is aborted only if a link of the
\* expense or of the income was written in between.
THEOREM TriggerAgrees == Spec => AbortsOnlyOnRace
  <1>1. ASSUME Inv, Next
        PROVE  \A r \in Requests :
                 /\ request[r].pc = "insert"
                 /\ request'[r].pc = "idle"
                 => \/ request[r].seen # ExpenseLinks(request[r].expense)
                    \/ request[r].incomeSeen # IncomeLinks(request[r].income)
    <2> SUFFICES ASSUME NEW r \in Requests, request[r].pc = "insert",
                        request'[r].pc = "idle",
                        request[r].seen = ExpenseLinks(request[r].expense),
                        request[r].incomeSeen = IncomeLinks(request[r].income)
                 PROVE  FALSE
      OBVIOUS
    <2>1. Accepts(request[r])
      BY <1>1 DEF Inv, Checked, Passed, Fits, Accepts, ExpenseLinks
    <2>2. PICK x \in Requests : Serve(x)
      BY <1>1 DEF Next
    <2>3. PICK state : Go(x, state)
      BY <2>2 DEF Serve, BeginLink, ReadExpenseLinks, ReadIncomeLinks, CreateLink,
           CreateAborted, BeginUnlink, ReadUnlinkLinks, DeleteLink, GetDetails,
           ReadLinks, Suggest
    <2>4. x = r
      BY <1>1, <2>3, GoAssigns DEF Inv
    <2>5. CreateLink(r)
      BY <2>1, <2>2, <2>4 DEF Serve, BeginLink, ReadExpenseLinks, ReadIncomeLinks,
           CreateAborted, BeginUnlink, ReadUnlinkLinks, DeleteLink, GetDetails,
           ReadLinks, Suggest, Ready
    <2>6. Go(r, [pc |-> "links", expense |-> request[r].expense])
      BY <2>5 DEF CreateLink
    <2> QED BY <1>1, <2>6, GoAssigns DEF Inv
  <1>2. Inv /\ [Next]_vars => [\A r \in Requests :
                 /\ request[r].pc = "insert"
                 /\ request'[r].pc = "idle"
                 => \/ request[r].seen # ExpenseLinks(request[r].expense)
                    \/ request[r].incomeSeen # IncomeLinks(request[r].income)]_vars
    BY <1>1
  <1> QED BY <1>2, InvHolds, PTL DEF Spec, AbortsOnlyOnRace

\* Links disappear only through the unlink request that names them, for any
\* number of concurrent requests.
THEOREM UnlinkOnly == Spec => OnlyUnlinkRemoves
  <1>1. ASSUME Next, NEW l \in links \ links'
        PROVE  \E r \in Requests : request[r].pc = "delete" /\ request[r].id = l.id
    <2>1. PICK r \in Requests : Serve(r)
      BY <1>1 DEF Next
    <2>2. DeleteLink(r)
      BY <1>1, <2>1 DEF Serve, BeginLink, ReadExpenseLinks, ReadIncomeLinks,
           CreateLink, CreateAborted, BeginUnlink, ReadUnlinkLinks, GetDetails,
           ReadLinks, Suggest
    <2> QED BY <1>1, <2>2 DEF DeleteLink, ExpenseLinks
  <1>2. [Next]_vars => [\A l \in links \ links' :
          \E r \in Requests : request[r].pc = "delete" /\ request[r].id = l.id]_vars
    BY <1>1
  <1> QED BY <1>2, PTL DEF Spec, OnlyUnlinkRemoves
-----------------------------------------------------------------------------
Weight == [l \in Link |-> l.amount]

LEMMA LinkFields ==
    ASSUME NEW l \in Link
    PROVE  /\ l.id \in Int /\ l.amount \in Int /\ l.amount > 0
           /\ l.expense \in Expenses /\ l.income \in Incomes
  <1>1. l.id \in 1..MaxLinks /\ l.amount \in LinkAmounts /\ l.expense \in Expenses
        /\ l.income \in Incomes
    BY DEF Link
  <1>2. l.amount \in Nat \ {0}
    BY <1>1, CompensationAssumption
  <1> QED BY <1>1, <1>2

\* What the code's fold adds up.
LEMMA TotalIsSum ==
    ASSUME NEW ls, IsFiniteSet(ls), ls \subseteq Link
    PROVE  Total(ls) = SumOf(Weight, ls)
  <1> DEFINE Iterates(g) == g = [s \in SUBSET ls |-> IF s = {} THEN 0
                 ELSE (CHOOSE x \in s : TRUE).amount + g[s \ {CHOOSE x \in s : TRUE}]]
             total == CHOOSE g : Iterates(g)
  <1>1. Total(ls) = total[ls]
    BY DEF Total, MapThenSumSet, MapThenFoldSet
  <1>2. ASSUME NEW g
        PROVE  Iterates(g) <=> Sums(g, Weight, ls)
    <2>1. ASSUME NEW s \in SUBSET ls
          PROVE  (IF s = {} THEN 0
                  ELSE (CHOOSE x \in s : TRUE).amount + g[s \ {CHOOSE x \in s : TRUE}])
                 = (IF s = {} THEN 0 ELSE Weight[OneOf(s)] + g[s \ {OneOf(s)}])
      <3>1. CASE s = {}
        BY <3>1
      <3>2. CASE s # {}
        <4>1. OneOf(s) \in Link
          BY <3>2, OneIsMember
        <4>2. Weight[OneOf(s)] = OneOf(s).amount
          BY <4>1 DEF Weight
        <4> QED BY <3>2, <4>2 DEF OneOf
      <3> QED BY <3>1, <3>2
    <2> QED BY <2>1 DEF Sums
  <1> HIDE DEF Iterates
  <1>3. Iterates(total)
    <2>1. PICK g : Sums(g, Weight, ls)
      BY SumsExist
    <2>2. Iterates(g)
      BY <1>2, <2>1
    <2> QED BY <2>2
  <1>4. Sums(total, Weight, ls)
    BY <1>2, <1>3
  <1> HIDE DEF total
  <1>5. total[ls] = SumOf(Weight, ls)
    BY <1>4, SumsGive
  <1> QED BY <1>1, <1>5

\* Total is a number, nothing for no links, and grows by each link that is added.
LEMMA TotalFacts ==
    ASSUME NEW ls, IsFiniteSet(ls), ls \subseteq Link
    PROVE  /\ Total(ls) \in Int
           /\ Total(ls) >= 0
           /\ \A part : part \subseteq ls => Total(part) <= Total(ls)
           /\ \A l \in Link : l \notin ls => Total(ls \cup {l}) = Total(ls) + l.amount
  <1>1. \A l \in Link : Weight[l] = l.amount /\ Weight[l] \in Int /\ Weight[l] >= 0
    <2>1. ASSUME NEW l \in Link
          PROVE  Weight[l] = l.amount /\ Weight[l] \in Int /\ Weight[l] >= 0
      <3>1. Weight[l] = l.amount
        BY DEF Weight
      <3>2. l.amount \in Int /\ l.amount >= 0
        BY LinkFields
      <3> QED BY <3>1, <3>2
    <2> QED BY <2>1
  <1>2. Total(ls) = SumOf(Weight, ls) /\ Total(ls) \in Int
    BY <1>1, TotalIsSum, SumIsInt
  <1>3. ASSUME NEW part, part \subseteq ls
        PROVE  Total(part) <= Total(ls)
    <2>1. IsFiniteSet(part)
      BY <1>3, FS_Subset
    <2>2. Total(part) = SumOf(Weight, part)
      BY <1>3, <2>1, TotalIsSum
    <2>3. SumOf(Weight, part) <= SumOf(Weight, ls)
      BY <1>1, <1>3, SumOfPart
    <2> QED BY <1>2, <2>2, <2>3
  <1>4. ASSUME NEW l \in Link, l \notin ls
        PROVE  Total(ls \cup {l}) = Total(ls) + l.amount
    <2>1. IsFiniteSet(ls \cup {l}) /\ ls \cup {l} \subseteq Link
      BY FS_AddElement
    <2>2. Total(ls \cup {l}) = SumOf(Weight, ls \cup {l})
      BY <2>1, TotalIsSum
    <2>3. \A x \in ls \cup {l} : Weight[x] \in Int
      BY <1>1, <2>1
    <2>4. SumOf(Weight, ls \cup {l}) = Weight[l] + SumOf(Weight, ls)
      BY <1>4, <2>3, SumAdd
    <2>5. l.amount \in Int
      BY <1>1
    <2> QED BY <1>1, <1>2, <2>2, <2>4, <2>5
  <1>5. Total({}) = 0
    <2>1. Total({}) = SumOf(Weight, {})
      BY FS_EmptySet, TotalIsSum
    <2> QED BY <2>1, SumEmpty
  <1>6. Total(ls) >= 0
    <2>1. Total({}) <= Total(ls)
      BY <1>3
    <2> QED BY <1>5, <2>1
  <1> QED BY <1>2, <1>3, <1>4, <1>6

LEMMA TotalEmpty == Total({}) = 0
  BY FS_EmptySet, TotalIsSum, SumEmpty

-----------------------------------------------------------------------------
\* What a request remembers is of the kind the owner can send.
Serving(q) ==
    /\ q.pc \notin {"idle", "answered"} => q.expense \in Expenses
    /\ q.pc \in {"expense links", "income links", "insert"} =>
          <<q.expense, q.income>> \in Compatible /\ q.amount \in LinkAmounts

\* The table: finite, one row for a pair and an id, no id of the future.
LinksKept ==
    /\ links \subseteq Link /\ IsFiniteSet(links)
    /\ created \in 0..MaxLinks
    /\ \A l \in links : l.id <= created /\ <<l.expense, l.income>> \in Compatible
    /\ \A k, l \in links : k.expense = l.expense /\ k.income = l.income => k = l
    /\ \A k, l \in links : k.id = l.id => k = l

LinksSound ==
    /\ request = [r \in Requests |-> request[r]]
    /\ \A r \in Requests : Serving(request[r])
    /\ LinksKept /\ WithinAmounts

\* Whatever a request does next, it remembers what its earlier steps established.
LEMMA ServingStays ==
    ASSUME LinksSound, NEW r \in Requests, Serve(r)
    PROVE  /\ request' = [x \in Requests |-> request'[x]]
           /\ \A x \in Requests : Serving(request'[x])
  <1>1. ASSUME NEW state, Go(r, state), Serving(state)
        PROVE  /\ request' = [x \in Requests |-> request'[x]]
               /\ \A x \in Requests : Serving(request'[x])
    <2>1. /\ request' = [x \in Requests |-> request'[x]]
          /\ request'[r] = state
          /\ \A x \in Requests \ {r} : request'[x] = request[x]
      BY <1>1, GoAssigns DEF LinksSound
    <2>2. ASSUME NEW x \in Requests
          PROVE  Serving(request'[x])
      <3>1. CASE x = r
        BY <1>1, <2>1, <3>1
      <3>2. CASE x # r
        BY <2>1, <3>2 DEF LinksSound
      <3> QED BY <3>1, <3>2
    <2> QED BY <2>1, <2>2
  <1> DEFINE q == request[r]
  <1>2. Serving(q)
    BY DEF LinksSound
  <1>3. CASE BeginLink(r)
    <2>1. PICK pair \in Compatible, amount \in LinkAmounts :
             Go(r, [pc |-> "expense links", expense |-> pair[1], income |-> pair[2],
                    amount |-> amount])
      BY <1>3 DEF BeginLink
    <2>2. pair[1] \in Expenses /\ <<pair[1], pair[2]>> \in Compatible
      BY DEF Compatible
    <2>3. Serving([pc |-> "expense links", expense |-> pair[1], income |-> pair[2],
                   amount |-> amount])
      BY <2>2 DEF Serving
    <2> QED BY <1>1, <2>1, <2>3
  <1>4. Serving(Idle)
    BY DEF Serving, Idle
  <1>5. CASE ReadExpenseLinks(r)
    BY <1>1, <1>2, <1>4, <1>5 DEF ReadExpenseLinks, Serving
  <1>6. CASE ReadIncomeLinks(r)
    BY <1>1, <1>2, <1>4, <1>6 DEF ReadIncomeLinks, Serving
  <1>7. CASE CreateLink(r)
    BY <1>1, <1>2, <1>7 DEF CreateLink, Serving
  <1>8. CASE CreateAborted(r)
    BY <1>1, <1>4, <1>8 DEF CreateAborted
  <1>9. CASE BeginUnlink(r)
    BY <1>1, <1>9 DEF BeginUnlink, Serving
  <1>10. CASE ReadUnlinkLinks(r)
    BY <1>1, <1>2, <1>4, <1>10 DEF ReadUnlinkLinks, Serving
  <1>11. CASE DeleteLink(r)
    BY <1>1, <1>2, <1>11 DEF DeleteLink, Serving
  <1>12. CASE GetDetails(r)
    BY <1>1, <1>12 DEF GetDetails, Serving
  <1>13. CASE ReadLinks(r)
    BY <1>1, <1>2, <1>13 DEF ReadLinks, Serving
  <1>14. CASE Suggest(r)
    BY <1>1, <1>14 DEF Suggest, Serving
  <1> QED
    BY <1>3, <1>5, <1>6, <1>7, <1>8, <1>9, <1>10, <1>11, <1>12, <1>13, <1>14 DEF Serve

\* The row a POST inserts.
Inserted(q) == [id |-> created + 1, expense |-> q.expense, income |-> q.income,
                amount |-> q.amount]

LEMMA InsertedIsLink ==
    ASSUME LinksSound, NEW r \in Requests, CreateLink(r)
    PROVE  LET q == request[r]
               l == Inserted(q)
           IN /\ l \in Link /\ l \notin links /\ links' = links \cup {l}
              /\ l.id = created + 1 /\ created' = created + 1 /\ created' \in 0..MaxLinks
              /\ l.expense = q.expense /\ l.income = q.income /\ l.amount = q.amount
              /\ <<l.expense, l.income>> \in Compatible
              /\ \A k \in links : ~(k.expense = l.expense /\ k.income = l.income)
              /\ l.amount <= Remaining(l.expense, ExpenseLinks(l.expense))
              /\ l.amount <= Unused(l.income, IncomeLinks(l.income))
  <1> DEFINE q == request[r]
             l == Inserted(q)
  <1>1. /\ <<q.expense, q.income>> \in Compatible /\ q.amount \in LinkAmounts
        /\ q.expense \in Expenses /\ q.income \in Incomes
    BY DEF CreateLink, LinksSound, Serving, Compatible
  <1>2. created + 1 \in 1..MaxLinks /\ created' = created + 1 /\ created' \in 0..MaxLinks
    BY CompensationAssumption DEF CreateLink, LinksSound, LinksKept
  <1>3. l \in Link
    BY <1>1, <1>2 DEF Link, Inserted
  <1>4. links' = links \cup {l} /\ Accepts(q)
    BY DEF CreateLink, Inserted
  <1>5. l.id = created + 1 /\ l.expense = q.expense /\ l.income = q.income
        /\ l.amount = q.amount
    BY DEF Inserted
  <1> HIDE DEF l
  <1>6. l \notin links
    BY <1>4, <1>5 DEF Accepts
  <1> QED BY <1>1, <1>2, <1>3, <1>4, <1>5, <1>6 DEF Accepts, l

LEMMA RemainingOf ==
    ASSUME LinksKept, NEW t \in Transactions
    PROVE  /\ Total(ExpenseLinks(t)) \in Int /\ Total(ExpenseLinks(t)) >= 0
           /\ Total(IncomeLinks(t)) \in Int /\ Total(IncomeLinks(t)) >= 0
           /\ IsFiniteSet(ExpenseLinks(t)) /\ ExpenseLinks(t) \subseteq Link
           /\ IsFiniteSet(IncomeLinks(t)) /\ IncomeLinks(t) \subseteq Link
           /\ Amount[t] \in Int
  <1>1. ExpenseLinks(t) \subseteq links /\ IncomeLinks(t) \subseteq links
    BY DEF ExpenseLinks, IncomeLinks
  <1>2. IsFiniteSet(ExpenseLinks(t)) /\ IsFiniteSet(IncomeLinks(t))
    BY <1>1, FS_Subset DEF LinksKept
  <1>3. ExpenseLinks(t) \subseteq Link /\ IncomeLinks(t) \subseteq Link
    BY <1>1 DEF LinksKept
  <1> QED BY <1>2, <1>3, TotalFacts, CompensationAssumption

LEMMA CreateKeeps ==
    ASSUME LinksSound, NEW r \in Requests, CreateLink(r)
    PROVE  LinksKept' /\ WithinAmounts'
  <1> DEFINE l == Inserted(request[r])
  <1>1. /\ l \in Link /\ l \notin links /\ links' = links \cup {l}
        /\ l.id = created + 1 /\ created' = created + 1 /\ created' \in 0..MaxLinks
        /\ <<l.expense, l.income>> \in Compatible
        /\ \A k \in links : ~(k.expense = l.expense /\ k.income = l.income)
        /\ l.amount <= Remaining(l.expense, ExpenseLinks(l.expense))
        /\ l.amount <= Unused(l.income, IncomeLinks(l.income))
    BY InsertedIsLink
  <1> HIDE DEF l
  <1>2. LinksKept /\ WithinAmounts /\ created \in Int /\ \A k \in links : k.id \in Int
    <2>1. LinksKept /\ WithinAmounts
      BY DEF LinksSound
    <2>2. links \subseteq Link /\ created \in Int
      BY <2>1 DEF LinksKept
    <2> QED BY <2>1, <2>2, LinkFields
  <1>3. LinksKept'
    <2>1. IsFiniteSet(links')
      BY <1>1, <1>2, FS_AddElement DEF LinksKept
    <2>2. \A k \in links' : k.id <= created' /\ <<k.expense, k.income>> \in Compatible
      <3>1. \A k \in links : k.id <= created /\ <<k.expense, k.income>> \in Compatible
        BY <1>2 DEF LinksKept
      <3>2. ASSUME NEW k \in links
            PROVE  k.id <= created'
        <4>1. k.id \in Int /\ created \in Int /\ k.id <= created /\ created' = created + 1
          BY <1>1, <1>2, <3>1
        <4> QED BY <4>1
      <3>3. l.id <= created'
        BY <1>1, <1>2
      <3>4. \A k \in links' : k \in links \/ k = l
        BY <1>1
      <3>5. <<l.expense, l.income>> \in Compatible
        BY <1>1
      <3> QED BY <3>1, <3>2, <3>3, <3>4, <3>5
    <2>3. \A k, m \in links' : k.expense = m.expense /\ k.income = m.income => k = m
      BY <1>1, <1>2 DEF LinksKept
    <2>4. \A k, m \in links' : k.id = m.id => k = m
      <3>1. \A k \in links : k.id # l.id
        <4>1. \A k \in links : k.id <= created
          BY <1>2 DEF LinksKept
        <4> QED BY <1>1, <1>2, <4>1
      <3> QED BY <1>1, <1>2, <3>1 DEF LinksKept
    <2> QED BY <1>1, <1>2, <2>1, <2>2, <2>3, <2>4 DEF LinksKept
  <1>4. ASSUME NEW e \in Expenses
        PROVE  Remaining(e, ExpenseLinks(e)') >= 0
    <2>0. e \in Transactions /\ Remaining(e, ExpenseLinks(e)) >= 0
      BY <1>2 DEF Expenses, WithinAmounts
    <2>1. CASE e # l.expense
      <3>1. ExpenseLinks(e)' = ExpenseLinks(e)
        BY <1>1, <2>1 DEF ExpenseLinks
      <3> QED BY <2>0, <3>1
    <2>2. CASE e = l.expense
      <3>1. ExpenseLinks(e)' = ExpenseLinks(e) \cup {l} /\ l \notin ExpenseLinks(e)
        BY <1>1, <2>2 DEF ExpenseLinks
      <3>2. Total(ExpenseLinks(e)') = Total(ExpenseLinks(e)) + l.amount
        BY <1>1, <1>2, <2>0, <3>1, RemainingOf, TotalFacts
      <3>3. Total(ExpenseLinks(e)) \in Int /\ Amount[e] \in Int /\ l.amount \in Int
        BY <1>1, <1>2, <2>0, RemainingOf, LinkFields
      <3> QED BY <1>1, <2>2, <3>2, <3>3 DEF Remaining
    <2> QED BY <2>1, <2>2
  <1>5. ASSUME NEW i \in Incomes
        PROVE  Unused(i, IncomeLinks(i)') >= 0
    <2>0. i \in Transactions /\ Unused(i, IncomeLinks(i)) >= 0
      BY <1>2 DEF Incomes, WithinAmounts
    <2>1. CASE i # l.income
      <3>1. IncomeLinks(i)' = IncomeLinks(i)
        BY <1>1, <2>1 DEF IncomeLinks
      <3> QED BY <2>0, <3>1
    <2>2. CASE i = l.income
      <3>1. IncomeLinks(i)' = IncomeLinks(i) \cup {l} /\ l \notin IncomeLinks(i)
        BY <1>1, <2>2 DEF IncomeLinks
      <3>2. Total(IncomeLinks(i)') = Total(IncomeLinks(i)) + l.amount
        BY <1>1, <1>2, <2>0, <3>1, RemainingOf, TotalFacts
      <3>3. Total(IncomeLinks(i)) \in Int /\ Amount[i] \in Int /\ l.amount \in Int
        BY <1>1, <1>2, <2>0, RemainingOf, LinkFields
      <3> QED BY <1>1, <2>2, <3>2, <3>3 DEF Unused
    <2> QED BY <2>1, <2>2
  <1>6. WithinAmounts'
    BY <1>4, <1>5 DEF WithinAmounts, Remaining, Unused
  <1> QED BY <1>3, <1>6

\* A table that lost rows is within the amounts as before.
LEMMA FewerLinks ==
    ASSUME LinksKept, WithinAmounts, links' \subseteq links, created' = created
    PROVE  LinksKept' /\ WithinAmounts'
  <1>1. LinksKept'
    <2>1. IsFiniteSet(links')
      BY FS_Subset DEF LinksKept
    <2> QED BY <2>1 DEF LinksKept
  <1>2. ASSUME NEW e \in Expenses
        PROVE  Remaining(e, ExpenseLinks(e)') >= 0
    <2>0. e \in Transactions /\ Remaining(e, ExpenseLinks(e)) >= 0
      BY DEF Expenses, WithinAmounts
    <2>1. ExpenseLinks(e)' \subseteq ExpenseLinks(e)
      BY DEF ExpenseLinks
    <2>2. Total(ExpenseLinks(e)') <= Total(ExpenseLinks(e))
      BY <2>0, <2>1, RemainingOf, TotalFacts
    <2>3. Total(ExpenseLinks(e)) \in Int /\ Amount[e] \in Int
      BY <2>0, RemainingOf
    <2>4. Total(ExpenseLinks(e)') \in Int
      BY <1>1, <2>0, RemainingOf, TotalFacts, FS_Subset, <2>1
    <2> QED BY <2>0, <2>2, <2>3, <2>4 DEF Remaining
  <1>3. ASSUME NEW i \in Incomes
        PROVE  Unused(i, IncomeLinks(i)') >= 0
    <2>0. i \in Transactions /\ Unused(i, IncomeLinks(i)) >= 0
      BY DEF Incomes, WithinAmounts
    <2>1. IncomeLinks(i)' \subseteq IncomeLinks(i)
      BY DEF IncomeLinks
    <2>2. Total(IncomeLinks(i)') <= Total(IncomeLinks(i))
      BY <2>0, <2>1, RemainingOf, TotalFacts
    <2>3. Total(IncomeLinks(i)) \in Int /\ Amount[i] \in Int
      BY <2>0, RemainingOf
    <2>4. Total(IncomeLinks(i)') \in Int
      BY <1>1, <2>0, RemainingOf, TotalFacts, FS_Subset, <2>1
    <2> QED BY <2>0, <2>2, <2>3, <2>4 DEF Unused
  <1> QED BY <1>1, <1>2, <1>3 DEF WithinAmounts, Remaining, Unused

LEMMA LinksSoundStays == LinksSound /\ [Next]_vars => LinksSound'
  <1> SUFFICES ASSUME LinksSound, [Next]_vars PROVE LinksSound'
    OBVIOUS
  <1>1. CASE UNCHANGED vars
    BY <1>1 DEF vars, LinksSound, LinksKept, WithinAmounts, Remaining, Unused, ExpenseLinks,
                IncomeLinks
  <1>2. CASE Next
    <2>1. PICK r \in Requests : Serve(r)
      BY <1>2 DEF Next
    <2>2. LinksKept' /\ WithinAmounts'
      <3>1. CASE CreateLink(r)
        BY <3>1, CreateKeeps
      <3>2. CASE ~CreateLink(r)
        <4>1. links' \subseteq links /\ created' = created
          BY <2>1, <3>2 DEF Serve, BeginLink, ReadExpenseLinks, ReadIncomeLinks, CreateAborted,
               BeginUnlink, ReadUnlinkLinks, DeleteLink, GetDetails, ReadLinks, Suggest
        <4> QED BY <4>1, FewerLinks DEF LinksSound
      <3> QED BY <3>1, <3>2
    <2> QED BY <2>1, <2>2, ServingStays DEF LinksSound
  <1> QED BY <1>1, <1>2

LEMMA LinksSoundAtFirst == Init => LinksSound
  <1> SUFFICES ASSUME Init PROVE LinksSound
    OBVIOUS
  <1>1. /\ request = [r \in Requests |-> request[r]]
        /\ \A r \in Requests : Serving(request[r])
    BY DEF Init, Serving, Idle
  <1>2. LinksKept
    BY FS_EmptySet, CompensationAssumption DEF Init, LinksKept
  <1>3. ASSUME NEW t \in Transactions
        PROVE  Total(ExpenseLinks(t)) = 0 /\ Total(IncomeLinks(t)) = 0 /\ Amount[t] \in Int
    <2>1. ExpenseLinks(t) = {} /\ IncomeLinks(t) = {}
      BY DEF Init, ExpenseLinks, IncomeLinks
    <2> QED BY <2>1, TotalEmpty, CompensationAssumption
  <1>4. WithinAmounts
    BY <1>3 DEF WithinAmounts, Remaining, Unused, Expenses, Incomes
  <1> QED BY <1>1, <1>2, <1>4 DEF LinksSound

\* README, "unallocated incoming amounts": links join an expense and an income and
\* never exceed either of them (CompensationService.link and the insert trigger), for
\* any number of requests and transactions and any amounts.
THEOREM LinksStayWithin == Spec => []LinksInvariant
  <1>1. LinksSound => LinksInvariant
    BY DEF LinksSound, LinksKept, LinksInvariant, TypeInvariant, Serving, Ready
  <1> QED BY <1>1, LinksSoundAtFirst, LinksSoundStays, PTL DEF Spec
-----------------------------------------------------------------------------
\* If nothing was written between the two reads of an answer, the amount the client
\* proposes for a suggested income passes the trigger (findIncomeCandidates, suggest).
LEMMA SuggestionsFit ==
    ASSUME LinksSound, NEW r \in Requests, Suggest(r),
           request[r].seen = ExpenseLinks(request[r].expense),
           Remaining(request[r].expense, request[r].seen) > 0,
           NEW i \in request'[r].suggestions
    PROVE  Accepts([expense |-> request[r].expense, income |-> i, amount |->
                    Smaller(Amount[i], Remaining(request[r].expense, request[r].seen))])
  <1> DEFINE q == request[r]
             left == Remaining(q.expense, q.seen)
             a == [expense |-> q.expense, income |-> i, amount |-> Smaller(Amount[i], left)]
  <1>1. i \in IncomeCandidates(q.expense)
    <2>1. request'[r].suggestions = {x \in IncomeCandidates(q.expense) \ {l.income : l \in q.seen} :
                                        Amount[x] > 0}
      BY DEF Suggest, Go, LinksSound
    <2> QED BY <2>1
  <1>2. i \in Incomes /\ i \in Transactions /\ IncomeLinks(i) = {}
    BY <1>1 DEF IncomeCandidates, Incomes
  <1>3. q.expense \in Transactions
    BY DEF LinksSound, Serving, Suggest, Expenses
  <1>4. Amount[i] \in Int /\ left \in Int
    BY <1>2, <1>3, RemainingOf DEF LinksSound, Remaining
  <1>5. a.amount <= left /\ a.amount <= Amount[i] /\ a.amount \in Int
    BY <1>4 DEF Smaller
  <1>6. a.amount <= Unused(i, IncomeLinks(i))
    BY <1>2, <1>4, <1>5, TotalEmpty DEF Unused
  <1>7. \A l \in links : l.income # i
    BY <1>2 DEF IncomeLinks
  <1>8. a.amount <= Remaining(q.expense, ExpenseLinks(q.expense))
    BY <1>5
  <1> HIDE DEF left
  <1>9. a.expense = q.expense /\ a.income = i
    OBVIOUS
  <1> HIDE DEF a, q
  <1>10. Accepts(a)
    BY <1>6, <1>7, <1>8, <1>9 DEF Accepts
  <1> QED BY <1>10 DEF a, q, left

\* What the details offer can be linked, for any number of requests under way.
THEOREM OffersStand == Spec => OfferStands
  <1>1. Init => LinksSound
    BY LinksSoundAtFirst
  <1> DEFINE Stands(r) ==
           LET q == request[r] IN
           /\ q.pc = "candidates"
           /\ request'[r].pc = "answered"
           /\ q.seen = ExpenseLinks(q.expense)
           /\ Remaining(q.expense, q.seen) > 0
           => \A i \in request'[r].suggestions :
                Accepts([expense |-> q.expense, income |-> i, amount |->
                         Smaller(Amount[i], Remaining(q.expense, q.seen))])
  <1>2. LinksSound /\ [Next]_vars => [\A r \in Requests : Stands(r)]_vars
    <2> SUFFICES ASSUME LinksSound, Next, NEW r \in Requests
                 PROVE  Stands(r)
      OBVIOUS
    <2> SUFFICES ASSUME request[r].pc = "candidates", request'[r].pc = "answered",
                        request[r].seen = ExpenseLinks(request[r].expense),
                        Remaining(request[r].expense, request[r].seen) > 0,
                        NEW i \in request'[r].suggestions
                 PROVE  Accepts([expense |-> request[r].expense, income |-> i, amount |->
                            Smaller(Amount[i], Remaining(request[r].expense, request[r].seen))])
      OBVIOUS
    <2>1. PICK x \in Requests : Serve(x)
      BY DEF Next
    <2>2. x = r
      <3>1. SUFFICES ASSUME x # r PROVE FALSE
        OBVIOUS
      <3>2. request'[r] = request[r]
        BY <2>1, <3>1 DEF LinksSound, Serve, BeginLink, ReadExpenseLinks, ReadIncomeLinks,
             CreateLink, CreateAborted, BeginUnlink, ReadUnlinkLinks, DeleteLink, GetDetails,
             ReadLinks, Suggest, Go
      <3> QED BY <3>2
    <2>3. Suggest(r)
      BY <2>1, <2>2 DEF Serve, BeginLink, ReadExpenseLinks, ReadIncomeLinks, CreateLink,
           CreateAborted, BeginUnlink, ReadUnlinkLinks, DeleteLink, GetDetails, ReadLinks, Ready
    <2> QED BY <2>3, SuggestionsFit
  <1> HIDE DEF Stands
  <1>3. [][\A r \in Requests : Stands(r)]_vars => OfferStands
    BY PTL DEF Stands, OfferStands
  <1> QED BY <1>1, <1>2, <1>3, LinksSoundStays, PTL DEF Spec
-----------------------------------------------------------------------------
\* The links of one pair, of which there is at most one, and its share.
Pair(e, i) == {l \in links : l.expense = e /\ l.income = i}
Shares == [pair \in Expenses \X Incomes |->
              Total({l \in links : l.expense = pair[1] /\ l.income = pair[2]})]

LEMMA PairFacts ==
    ASSUME LinksKept, NEW e \in Expenses, NEW i \in Incomes
    PROVE  /\ Shares[<<e, i>>] = Total(Pair(e, i))
           /\ IsFiniteSet(Pair(e, i)) /\ Pair(e, i) \subseteq Link
           /\ Total(Pair(e, i)) \in Int /\ Total(Pair(e, i)) >= 0
           /\ Pair(e, i) = {} => Total(Pair(e, i)) = 0
           /\ \A l \in Pair(e, i) : Pair(e, i) = {l} /\ Total(Pair(e, i)) = l.amount
  <1>1. Pair(e, i) \subseteq links
    BY DEF Pair
  <1>2. IsFiniteSet(Pair(e, i)) /\ Pair(e, i) \subseteq Link
    BY <1>1, FS_Subset DEF LinksKept
  <1>3. ASSUME NEW l \in Pair(e, i)
        PROVE  Pair(e, i) = {l} /\ Total(Pair(e, i)) = l.amount
    <2>1. Pair(e, i) = {l}
      BY <1>3 DEF Pair, LinksKept
    <2>2. Total({} \cup {l}) = Total({}) + l.amount
      BY <1>2, FS_EmptySet, TotalFacts
    <2>3. {} \cup {l} = {l} /\ l.amount \in Int
      BY <1>2, LinkFields
    <2> QED BY <2>1, <2>2, <2>3, TotalEmpty
  <1>4. Shares[<<e, i>>] = Total(Pair(e, i))
    BY DEF Shares, Pair
  <1> QED BY <1>2, <1>3, <1>4, TotalFacts, TotalEmpty

\* What an expense has handed out is what its links add up to.
LEMMA HandedIsTotal ==
    ASSUME LinksKept, IsFiniteSet(Incomes), NEW e \in Expenses
    PROVE  Allocates!Handed(e) = Total(ExpenseLinks(e))
  <1> DEFINE share(i) == Shares[<<e, i>>]
             v == [i \in Incomes |-> share(i)]
             Iterates(g) == g = [s \in SUBSET Incomes |-> IF s = {} THEN 0
                 ELSE share(CHOOSE x \in s : TRUE) + g[s \ {CHOOSE x \in s : TRUE}]]
             handed == CHOOSE g : Iterates(g)
  <1>1. Allocates!Handed(e) = handed[Incomes]
    BY DEF Allocates!Handed, Allocates!MapThenSumSet, Allocates!MapThenFoldSet, Shares
  <1> HIDE DEF share
  <1>2. ASSUME NEW g
        PROVE  Iterates(g) <=> Sums(g, v, Incomes)
    <2>1. ASSUME NEW s \in SUBSET Incomes
          PROVE  (IF s = {} THEN 0
                  ELSE share(CHOOSE x \in s : TRUE) + g[s \ {CHOOSE x \in s : TRUE}])
                 = (IF s = {} THEN 0 ELSE v[OneOf(s)] + g[s \ {OneOf(s)}])
      <3>1. CASE s = {}
        BY <3>1
      <3>2. CASE s # {}
        <4>1. OneOf(s) \in Incomes
          BY <3>2, OneIsMember
        <4>2. v[OneOf(s)] = share(OneOf(s))
          BY <4>1
        <4> QED BY <3>2, <4>2 DEF OneOf
      <3> QED BY <3>1, <3>2
    <2> HIDE DEF v
    <2> QED BY <2>1 DEF Sums
  <1> HIDE DEF v, Iterates
  <1>3. Iterates(handed)
    <2>1. PICK g : Sums(g, v, Incomes)
      BY SumsExist
    <2>2. Iterates(g)
      BY <1>2, <2>1
    <2> QED BY <2>2
  <1>4. Sums(handed, v, Incomes)
    BY <1>2, <1>3
  <1> HIDE DEF handed
  <1>5. handed[Incomes] = SumOf(v, Incomes)
    BY <1>4, SumsGive
  <1>6. SumOf(v, Incomes) = SumOf(Weight, ExpenseLinks(e))
    <2> DEFINE X == ExpenseLinks(e)
               key == [l \in X |-> l.income]
               u == [i \in Incomes |-> SumOfKey(Weight, X, key, i)]
    <2>1. IsFiniteSet(X) /\ X \subseteq Link
      BY RemainingOf DEF Expenses
    <2>2. \A l \in X : Weight[l] \in Int /\ l.income \in Incomes
      BY <2>1, LinkFields DEF Weight
    <2>3. key \in [X -> Incomes]
      BY <2>2
    <2>4. ASSUME NEW i \in Incomes
          PROVE  v[i] = u[i]
      <3>1. {l \in X : key[l] = i} = Pair(e, i)
        BY DEF Pair, ExpenseLinks
      <3>2. u[i] = SumOf(Weight, Pair(e, i))
        BY <3>1 DEF SumOfKey
      <3>3. v[i] = Total(Pair(e, i))
        BY PairFacts DEF v, share
      <3> QED BY <3>2, <3>3, PairFacts, TotalIsSum
    <2> HIDE DEF key, X
    <2>5. SumOf(u, Incomes) = SumOf(Weight, X)
      BY <2>1, <2>2, <2>3, SumByKey
    <2> HIDE DEF u
    <2>6. SumOf(v, Incomes) = SumOf(u, Incomes)
      BY <2>4, SumSame
    <2> QED BY <2>5, <2>6 DEF X
  <1>7. Total(ExpenseLinks(e)) = SumOf(Weight, ExpenseLinks(e))
    BY RemainingOf, TotalIsSum DEF Expenses
  <1> QED BY <1>1, <1>5, <1>6, <1>7
\* What an income has given is what its links add up to.
LEMMA TakenIsTotal ==
    ASSUME LinksKept, IsFiniteSet(Expenses), NEW i \in Incomes
    PROVE  Allocates!Taken(i) = Total(IncomeLinks(i))
  <1> DEFINE share(e) == Shares[<<e, i>>]
             v == [e \in Expenses |-> share(e)]
             Iterates(g) == g = [s \in SUBSET Expenses |-> IF s = {} THEN 0
                 ELSE share(CHOOSE x \in s : TRUE) + g[s \ {CHOOSE x \in s : TRUE}]]
             taken == CHOOSE g : Iterates(g)
  <1>1. Allocates!Taken(i) = taken[Expenses]
    BY DEF Allocates!Taken, Allocates!MapThenSumSet, Allocates!MapThenFoldSet, Shares
  <1> HIDE DEF share
  <1>2. ASSUME NEW g
        PROVE  Iterates(g) <=> Sums(g, v, Expenses)
    <2>1. ASSUME NEW s \in SUBSET Expenses
          PROVE  (IF s = {} THEN 0
                  ELSE share(CHOOSE x \in s : TRUE) + g[s \ {CHOOSE x \in s : TRUE}])
                 = (IF s = {} THEN 0 ELSE v[OneOf(s)] + g[s \ {OneOf(s)}])
      <3>1. CASE s = {}
        BY <3>1
      <3>2. CASE s # {}
        <4>1. OneOf(s) \in Expenses
          BY <3>2, OneIsMember
        <4>2. v[OneOf(s)] = share(OneOf(s))
          BY <4>1
        <4> QED BY <3>2, <4>2 DEF OneOf
      <3> QED BY <3>1, <3>2
    <2> HIDE DEF v
    <2> QED BY <2>1 DEF Sums
  <1> HIDE DEF v, Iterates
  <1>3. Iterates(taken)
    <2>1. PICK g : Sums(g, v, Expenses)
      BY SumsExist
    <2>2. Iterates(g)
      BY <1>2, <2>1
    <2> QED BY <2>2
  <1>4. Sums(taken, v, Expenses)
    BY <1>2, <1>3
  <1> HIDE DEF taken
  <1>5. taken[Expenses] = SumOf(v, Expenses)
    BY <1>4, SumsGive
  <1>6. SumOf(v, Expenses) = SumOf(Weight, IncomeLinks(i))
    <2> DEFINE X == IncomeLinks(i)
               key == [l \in X |-> l.expense]
               u == [e \in Expenses |-> SumOfKey(Weight, X, key, e)]
    <2>1. IsFiniteSet(X) /\ X \subseteq Link
      BY RemainingOf DEF Incomes
    <2>2. \A l \in X : Weight[l] \in Int /\ l.expense \in Expenses
      BY <2>1, LinkFields DEF Weight
    <2>3. key \in [X -> Expenses]
      BY <2>2
    <2>4. ASSUME NEW e \in Expenses
          PROVE  v[e] = u[e]
      <3>1. {l \in X : key[l] = e} = Pair(e, i)
        BY DEF Pair, IncomeLinks
      <3>2. u[e] = SumOf(Weight, Pair(e, i))
        BY <3>1 DEF SumOfKey
      <3>3. v[e] = Total(Pair(e, i))
        BY PairFacts DEF v, share
      <3> QED BY <3>2, <3>3, PairFacts, TotalIsSum
    <2> HIDE DEF key, X
    <2>5. SumOf(u, Expenses) = SumOf(Weight, X)
      BY <2>1, <2>2, <2>3, SumByKey
    <2> HIDE DEF u
    <2>6. SumOf(v, Expenses) = SumOf(u, Expenses)
      BY <2>4, SumSame
    <2> QED BY <2>5, <2>6 DEF X
  <1>7. Total(IncomeLinks(i)) = SumOf(Weight, IncomeLinks(i))
    BY RemainingOf, TotalIsSum DEF Incomes
  <1> QED BY <1>1, <1>5, <1>6, <1>7

\* A link that is created allocates its amount.
LEMMA CreateAllocates ==
    ASSUME IsFiniteSet(Transactions), LinksSound, NEW r \in Requests, CreateLink(r)
    PROVE  Allocates!Next
  <1> DEFINE l == Inserted(request[r])
             e == l.expense
             i == l.income
  <1>1. /\ l \in Link /\ l \notin links /\ links' = links \cup {l}
        /\ <<e, i>> \in Compatible
        /\ \A k \in links : ~(k.expense = e /\ k.income = i)
        /\ l.amount <= Remaining(e, ExpenseLinks(e))
        /\ l.amount <= Unused(i, IncomeLinks(i))
    BY InsertedIsLink
  <1> HIDE DEF l
  <1>2. e \in Expenses /\ i \in Incomes /\ l.amount \in Int /\ l.amount > 0
    BY <1>1, LinkFields
  <1>3. IsFiniteSet(Expenses) /\ IsFiniteSet(Incomes)
    BY FS_Subset DEF Expenses, Incomes
  <1>4. LinksKept /\ LinksKept'
    BY CreateKeeps DEF LinksSound
  <1>5. /\ Total(ExpenseLinks(e)) \in Int /\ Amount[e] \in Int /\ Amount[i] \in Int
        /\ Total(IncomeLinks(i)) \in Int /\ Total(IncomeLinks(i)) >= 0
    BY <1>2, <1>4, RemainingOf DEF Expenses, Incomes
  <1>6. l.amount \in 1..Amount[i]
    BY <1>1, <1>2, <1>5 DEF Unused
  <1>7. Allocates!Handed(e) + l.amount <= -Amount[e]
    <2>1. Allocates!Handed(e) = Total(ExpenseLinks(e))
      BY <1>2, <1>3, <1>4, HandedIsTotal
    <2> QED BY <1>1, <1>2, <1>5, <2>1 DEF Remaining
  <1>8. Allocates!Taken(i) + l.amount <= Amount[i]
    <2>1. Allocates!Taken(i) = Total(IncomeLinks(i))
      BY <1>2, <1>3, <1>4, TakenIsTotal
    <2> QED BY <1>1, <1>2, <1>5, <2>1 DEF Unused
  <1>9. Shares[<<e, i>>] = 0
    <2>1. Pair(e, i) = {}
      BY <1>1 DEF Pair
    <2> QED BY <1>2, <1>4, <2>1, PairFacts
  <1>10. Shares' = [Shares EXCEPT ![<<e, i>>] = l.amount]
    <2>1. ASSUME NEW f \in Expenses, NEW j \in Incomes
          PROVE  Shares'[<<f, j>>] = [Shares EXCEPT ![<<e, i>>] = l.amount][<<f, j>>]
      <3>1. Shares'[<<f, j>>] = Total(Pair(f, j)') /\ Shares[<<f, j>>] = Total(Pair(f, j))
        BY DEF Shares, Pair
      <3>2. CASE f = e /\ j = i
        <4>1. Pair(f, j)' = {} \cup {l} /\ {} \subseteq Link
          BY <1>1, <3>2 DEF Pair
        <4>2. Total(Pair(f, j)') = 0 + l.amount
          BY <1>1, <4>1, TotalFacts, TotalEmpty, FS_EmptySet
        <4>3. Shares'[<<f, j>>] = l.amount
          BY <1>2, <3>1, <4>2
        <4> QED BY <3>2, <4>3 DEF Shares
      <3>3. CASE ~(f = e /\ j = i)
        <4>1. Pair(f, j)' = Pair(f, j)
          BY <1>1, <3>3 DEF Pair
        <4>2. Shares'[<<f, j>>] = Shares[<<f, j>>]
          BY <3>1, <4>1
        <4>3. <<f, j>> # <<e, i>>
          BY <3>3
        <4> QED BY <4>2, <4>3 DEF Shares
      <3> QED BY <3>2, <3>3
    <2>2. Shares' = [pair \in Expenses \X Incomes |-> Shares'[pair]]
      BY DEF Shares
    <2>3. [Shares EXCEPT ![<<e, i>>] = l.amount] =
          [pair \in Expenses \X Incomes |-> [Shares EXCEPT ![<<e, i>>] = l.amount][pair]]
      BY DEF Shares
    <2> QED BY <2>1, <2>2, <2>3
  <1>11. Allocates!Allocate(e, i)
    BY <1>1, <1>6, <1>7, <1>8, <1>9, <1>10 DEF Allocates!Allocate, Shares
  <1> QED BY <1>2, <1>11 DEF Allocates!Next

\* A link that is deleted releases its share; one that is gone releases nothing.
LEMMA DeleteReleases ==
    ASSUME LinksSound, NEW r \in Requests, DeleteLink(r)
    PROVE  Allocates!Next \/ UNCHANGED Shares
  <1> DEFINE gone == {l \in ExpenseLinks(request[r].expense) : l.id = request[r].id}
  <1>1. links' = links \ gone /\ gone \subseteq links /\ LinksKept
    BY DEF DeleteLink, ExpenseLinks, LinksSound
  <1>2. CASE gone = {}
    <2>1. links' = links
      BY <1>1, <1>2
    <2> QED BY <2>1 DEF Shares
  <1>3. CASE gone # {}
    <2>1. PICK l : l \in gone
      BY <1>3
    <2>2. gone = {l}
      BY <1>1, <2>1 DEF LinksKept
    <2> DEFINE e == l.expense
               i == l.income
    <2>3. l \in links /\ l \in Link /\ links' = links \ {l}
      BY <1>1, <2>1, <2>2 DEF LinksKept
    <2> HIDE DEF gone
    <2>4. e \in Expenses /\ i \in Incomes /\ l.amount \in Int /\ l.amount > 0
      BY <2>3, LinkFields
    <2>5. l \in Pair(e, i) /\ Pair(e, i) = {l} /\ Shares[<<e, i>>] = l.amount
      <3>1. l \in Pair(e, i)
        BY <2>3 DEF Pair
      <3> QED BY <1>1, <2>4, <3>1, PairFacts
    <2>6. Shares' = [Shares EXCEPT ![<<e, i>>] = 0]
      <3>1. ASSUME NEW f \in Expenses, NEW j \in Incomes
            PROVE  Shares'[<<f, j>>] = [Shares EXCEPT ![<<e, i>>] = 0][<<f, j>>]
        <4>1. Shares'[<<f, j>>] = Total(Pair(f, j)') /\ Shares[<<f, j>>] = Total(Pair(f, j))
          BY DEF Shares, Pair
        <4>2. CASE f = e /\ j = i
          <5>1. Pair(f, j)' = {}
            BY <2>3, <2>5, <4>2 DEF Pair
          <5>2. Shares'[<<f, j>>] = 0
            BY <4>1, <5>1, TotalEmpty
          <5> QED BY <4>2, <5>2 DEF Shares
        <4>3. CASE ~(f = e /\ j = i)
          <5>1. Pair(f, j)' = Pair(f, j)
            BY <2>3, <4>3 DEF Pair
          <5>2. Shares'[<<f, j>>] = Shares[<<f, j>>] /\ <<f, j>> # <<e, i>>
            BY <4>1, <4>3, <5>1
          <5> QED BY <5>2 DEF Shares
        <4> QED BY <4>2, <4>3
      <3>2. Shares' = [pair \in Expenses \X Incomes |-> Shares'[pair]]
        BY DEF Shares
      <3>3. [Shares EXCEPT ![<<e, i>>] = 0] =
            [pair \in Expenses \X Incomes |-> [Shares EXCEPT ![<<e, i>>] = 0][pair]]
        BY DEF Shares
      <3> QED BY <3>1, <3>2, <3>3
    <2>7. Allocates!Release(e, i)
      BY <2>4, <2>5, <2>6 DEF Allocates!Release, Shares
    <2> QED BY <2>4, <2>7 DEF Allocates!Next
  <1> QED BY <1>2, <1>3

\* The service, whose requests read, check and write in separate statements,
\* implements atomic allocation (module Allocation): each link it creates or deletes
\* is one step of it, and all else is none, for any finite number of transactions.
THEOREM ServiceAllocates ==
    ASSUME IsFiniteSet(Transactions)
    PROVE  Spec => AllocatesAtomically
  <1>1. Init => Allocates!Init
    BY TotalEmpty DEF Init, Allocates!Init
  <1>2. LinksSound /\ [Next]_vars => Allocates!Next \/ UNCHANGED Shares
    <2> SUFFICES ASSUME LinksSound, [Next]_vars
                 PROVE  Allocates!Next \/ UNCHANGED Shares
      OBVIOUS
    <2>1. ASSUME links' = links
          PROVE  UNCHANGED Shares
      BY <2>1 DEF Shares
    <2>2. CASE UNCHANGED vars
      BY <2>1, <2>2 DEF vars
    <2>3. CASE Next
      <3>1. PICK r \in Requests : Serve(r)
        BY <2>3 DEF Next
      <3>2. CASE CreateLink(r)
        BY <3>2, CreateAllocates
      <3>3. CASE DeleteLink(r)
        BY <3>3, DeleteReleases
      <3>4. CASE ~CreateLink(r) /\ ~DeleteLink(r)
        <4>1. links' = links
          BY <3>1, <3>4 DEF Serve, BeginLink, ReadExpenseLinks, ReadIncomeLinks, CreateAborted,
               BeginUnlink, ReadUnlinkLinks, GetDetails, ReadLinks, Suggest
        <4> QED BY <2>1, <4>1
      <3> QED BY <3>2, <3>3, <3>4
    <2> QED BY <2>2, <2>3
  <1>3. LinksSound /\ [Next]_vars => [Allocates!Next]_Shares
    BY <1>2
  <1>4. Init /\ [][Next]_vars => Allocates!Init /\ [][Allocates!Next]_Shares
    BY <1>1, <1>3, LinksSoundAtFirst, LinksSoundStays, PTL
  <1> QED BY <1>4, PTL DEF Spec, AllocatesAtomically, Allocates!Spec, Shares
-----------------------------------------------------------------------------
CorrectionSteps == {"idle", "find", "write", "answer"}
CorrectionRequests ==
    [pc : CorrectionSteps, mine : BOOLEAN, kind : Kinds,
     amount : Adjusted \cup {Original}, read : Rows, answer : Rows]

CorrectionTypes ==
    /\ row \in Rows /\ ledger \in Rows
    /\ fetch \in [pc : {"none", "sent", "read"}, page : Rows]
    /\ details \in [open : BOOLEAN, copy : Rows]
    /\ req \in [Corrections -> CorrectionRequests]
    /\ saving \subseteq {q \in Corrections : Pending(q) /\ req[q].mine}

Answering(q) == req[q].pc = "answer" /\ req[q].mine

\* A correction of this tab that no other overlaps computes its answer from
\* the row it changes, and until it has written the open copy shows that row.
CopyFollows ==
    faithful /\ details.open =>
        /\ \A q \in Corrections : Pending(q) /\ req[q].mine =>
              \A p \in Corrections : Pending(p) => p = q
        /\ \A q \in Corrections : req[q].mine /\ req[q].pc = "write" => req[q].read = row
        /\ \A q \in Corrections : Answering(q) => req[q].answer = row
        /\ (\A q \in Corrections : ~Answering(q)) => details.copy = row

\* The page on the screen, or the one about to replace it, shows the row
\* unless a correction of this tab has written and is not answered.
PageFollows ==
    ~unseen /\ (\A q \in Corrections : ~Answering(q)) =>
        /\ fetch.pc = "none" => ledger = row
        /\ fetch.pc = "read" => fetch.page = row

CorrectionsSound == CorrectionTypes /\ DirectionKept /\ CopyFollows /\ PageFollows

LEMMA AppliedIsRow ==
    ASSUME NEW r \in Rows, NEW kind \in Kinds, NEW amount \in Adjusted \cup {Original}
    PROVE  Applied(r, kind, amount) \in Rows
  BY DEF Applied, Rows, Kinds

LEMMA StepsOfCorrections ==
    /\ "idle" \in CorrectionSteps /\ "find" \in CorrectionSteps
    /\ "write" \in CorrectionSteps /\ "answer" \in CorrectionSteps
  BY DEF CorrectionSteps

LEMMA NoRequestIsRequest == NoRequest \in CorrectionRequests /\ Imported \in Rows
  <1>1. "reset" \in Kinds /\ FALSE \in BOOLEAN
    BY DEF Kinds
  <1> QED BY <1>1, StepsOfCorrections DEF NoRequest, CorrectionRequests, Imported, Rows

\* A correction begins in the way the button or the other device wants it.
LEMMA BeginStarts ==
    ASSUME NEW q \in Corrections, NEW mine \in BOOLEAN, NEW kind \in Kinds,
           NEW amount \in AmountChoices(kind), Begin(q, mine, kind, amount),
           req \in [Corrections -> CorrectionRequests]
    PROVE  /\ req' \in [Corrections -> CorrectionRequests]
           /\ req'[q].pc = "find" /\ (req'[q].mine <=> mine)
           /\ req[q].pc = "idle"
           /\ \A p \in Corrections : p # q => req'[p] = req[p]
           /\ faithful' => faithful /\ \A p \in Corrections : ~Pending(p)
  <1>1. amount \in Adjusted \cup {Original}
    BY DEF AmountChoices
  <1> DEFINE new == [NoRequest EXCEPT !.pc = "find", !.mine = mine, !.kind = kind,
                                      !.amount = amount]
  <1>2. new \in CorrectionRequests /\ new.pc = "find" /\ (new.mine <=> mine)
    BY <1>1, NoRequestIsRequest, StepsOfCorrections DEF NoRequest, CorrectionRequests
  <1>3. req' = [req EXCEPT ![q] = new]
    BY DEF Begin
  <1> HIDE DEF new
  <1> QED
    BY <1>2, <1>3 DEF Begin, Pending

\* What an update of one request leaves of the others.
LEMMA OneRequestChanges ==
    ASSUME req \in [Corrections -> CorrectionRequests], NEW q \in Corrections,
           NEW new \in CorrectionRequests, req' = [req EXCEPT ![q] = new]
    PROVE  /\ req' \in [Corrections -> CorrectionRequests]
           /\ req'[q] = new
           /\ \A p \in Corrections : p # q => req'[p] = req[p]
  OBVIOUS

LEMMA CorrectionTypesStay ==
    ASSUME CorrectionTypes, [CorrectionsNext]_correctionVars
    PROVE  CorrectionTypes'
  <1> USE DEF CorrectionTypes, copies
  <1>1. CASE OpenDetails
    BY <1>1 DEF OpenDetails, Pending
  <1>2. CASE CloseDetails
    BY <1>2, NoRequestIsRequest DEF CloseDetails, Closed, Pending
  <1>3. CASE Refetch
    BY <1>3, NoRequestIsRequest DEF Refetch, NoFetch, Pending
  <1>4. CASE ReadPage
    BY <1>4 DEF ReadPage, Pending
  <1>5. CASE ShowPage
    BY <1>5, NoRequestIsRequest DEF ShowPage, NoFetch, Pending
  <1>6. CASE FetchFails
    BY <1>6, NoRequestIsRequest DEF FetchFails, NoFetch, Pending
  <1>7. ASSUME NEW q \in Corrections, NEW kind \in Kinds, NEW amount \in AmountChoices(kind),
               Submit(q, kind, amount)
        PROVE  CorrectionTypes'
    <2>1. Begin(q, TRUE, kind, amount) /\ saving' = {q}
          /\ UNCHANGED <<row, ledger, fetch, details>>
      BY <1>7 DEF Submit
    <2> QED BY <2>1, BeginStarts DEF Pending
  <1>8. ASSUME NEW q \in Corrections, NEW kind \in Kinds, NEW amount \in AmountChoices(kind),
               SubmitElsewhere(q, kind, amount)
        PROVE  CorrectionTypes'
    <2>1. Begin(q, FALSE, kind, amount) /\ UNCHANGED <<row, copies>>
      BY <1>8 DEF SubmitElsewhere
    <2> QED BY <2>1, BeginStarts DEF Pending
  <1>9. ASSUME NEW q \in Corrections, Find(q)
        PROVE  CorrectionTypes'
    <2> DEFINE new == [req[q] EXCEPT !.pc = "write", !.read = row]
    <2>1. new \in CorrectionRequests /\ new.pc = "write" /\ new.mine = req[q].mine
      BY StepsOfCorrections DEF CorrectionRequests
    <2>2. req' = [req EXCEPT ![q] = new]
      BY <1>9 DEF Find
    <2> HIDE DEF new
    <2> QED BY <1>9, <2>1, <2>2, OneRequestChanges DEF Find, Pending
  <1>10. ASSUME NEW q \in Corrections, Reject(q)
         PROVE  CorrectionTypes'
    BY <1>10, NoRequestIsRequest, OneRequestChanges DEF Reject, Pending
  <1>11. ASSUME NEW q \in Corrections, Write(q)
         PROVE  CorrectionTypes'
    <2>1. row' \in Rows /\ AnswerOf(q) \in Rows
      BY <1>11, AppliedIsRow DEF Write, AnswerOf, CorrectionRequests
    <2> DEFINE new == [req[q] EXCEPT !.pc = "answer", !.answer = AnswerOf(q)]
    <2>2. new \in CorrectionRequests /\ new.pc = "answer" /\ new.mine = req[q].mine
      BY <2>1, StepsOfCorrections DEF CorrectionRequests
    <2>3. req' = [req EXCEPT ![q] = new]
      BY <1>11 DEF Write
    <2> HIDE DEF new
    <2> QED BY <1>11, <2>1, <2>2, <2>3, OneRequestChanges DEF Write, Pending
  <1>12. ASSUME NEW q \in Corrections, Succeed(q)
         PROVE  CorrectionTypes'
    <2>1. req' = [req EXCEPT ![q] = NoRequest] /\ saving' = saving \ {q}
      BY <1>12 DEF Succeed
    <2>2. req' \in [Corrections -> CorrectionRequests]
          /\ saving' \subseteq {p \in Corrections : Pending(p)' /\ req'[p].mine}
      BY <2>1, NoRequestIsRequest, OneRequestChanges DEF Pending
    <2>3. details' \in [open : BOOLEAN, copy : Rows]
      BY <1>12 DEF Succeed, Updated, CorrectionRequests
    <2>4. fetch' \in [pc : {"none", "sent", "read"}, page : Rows]
      BY <1>12, NoRequestIsRequest DEF Succeed, Refetched, NoFetch
    <2> QED BY <1>12, <2>2, <2>3, <2>4 DEF Succeed
  <1>13. ASSUME NEW q \in Corrections, AnswerLost(q)
         PROVE  CorrectionTypes'
    BY <1>13, NoRequestIsRequest, OneRequestChanges DEF AnswerLost, Pending
  <1>14. CASE UNCHANGED correctionVars
    BY <1>14 DEF correctionVars, Pending
  <1> QED
    BY <1>1, <1>2, <1>3, <1>4, <1>5, <1>6, <1>7, <1>8, <1>9, <1>10, <1>11, <1>12,
       <1>13, <1>14 DEF CorrectionsNext

LEMMA WriteKeepsDirection ==
    ASSUME CorrectionTypes, DirectionKept, NEW q \in Corrections, Write(q)
    PROVE  DirectionKept'
  <1>1. row' = Applied(row, req[q].kind, req[q].amount) /\ CompatibleDirection(q)
    BY DEF Write
  <1>2. row \in Rows /\ req[q].kind \in Kinds
    BY DEF CorrectionTypes, CorrectionRequests
  <1>3. CASE req[q].kind = "save"
    <2>1. row'.amount = req[q].amount /\ row'.adjusted
      BY <1>1, <1>2, <1>3 DEF Applied, Rows
    <2> QED BY <1>1, <1>3, <2>1 DEF DirectionKept, CompatibleDirection, SignsAgree
  <1>4. CASE req[q].kind = "reset"
    <2>1. row'.amount = Original
      BY <1>1, <1>2, <1>4 DEF Applied, Rows
    <2>2. SignsAgree(Original, Original)
      BY CorrectionsAssumption DEF SignsAgree
    <2> QED BY <2>1, <2>2 DEF DirectionKept, SignsAgree
  <1>5. CASE req[q].kind \in {"exclude", "restore"}
    <2>1. row'.amount = row.amount /\ row'.adjusted = row.adjusted
      BY <1>1, <1>2, <1>5 DEF Applied, Rows
    <2> QED BY <2>1 DEF DirectionKept, SignsAgree
  <1> QED BY <1>2, <1>3, <1>4, <1>5 DEF Kinds

LEMMA DirectionStays ==
    ASSUME CorrectionTypes, DirectionKept, [CorrectionsNext]_correctionVars
    PROVE  DirectionKept'
  <1>1. ASSUME UNCHANGED row
        PROVE  DirectionKept'
    BY <1>1 DEF DirectionKept, SignsAgree
  <1> QED
    BY <1>1, WriteKeepsDirection
    DEF CorrectionsNext, correctionVars, OpenDetails, CloseDetails, Refetch, ReadPage, ShowPage,
        FetchFails, Submit, SubmitElsewhere, Find, Reject, Succeed, AnswerLost

LEMMA CopyStays ==
    ASSUME CorrectionTypes, CopyFollows, PageFollows, [CorrectionsNext]_correctionVars
    PROVE  CopyFollows'
  <1> USE DEF CorrectionTypes, copies
  <1>1. CASE OpenDetails
    <2>1. ASSUME faithful'
          PROVE  /\ ledger = row
                 /\ \A q \in Corrections : ~(Pending(q) /\ req[q].mine)
      BY <1>1, <2>1 DEF OpenDetails, PageIsCurrent, MinePending, PageFollows, Answering, Pending
    <2> QED BY <1>1, <2>1 DEF OpenDetails, CopyFollows, Answering, Pending
  <1>2. CASE CloseDetails
    BY <1>2 DEF CloseDetails, CopyFollows
  <1>3. ASSUME UNCHANGED <<row, req, details, faithful>>
        PROVE  CopyFollows'
    BY <1>3 DEF CopyFollows, Answering, Pending
  <1>4. CASE Refetch \/ ReadPage \/ ShowPage \/ FetchFails \/ UNCHANGED correctionVars
    BY <1>3, <1>4 DEF Refetch, ReadPage, ShowPage, FetchFails, correctionVars
  <1>7. ASSUME NEW q \in Corrections, NEW kind \in Kinds, NEW amount \in AmountChoices(kind),
               NEW mine \in BOOLEAN, Begin(q, mine, kind, amount), UNCHANGED <<row, details>>
        PROVE  CopyFollows'
    BY <1>7, BeginStarts DEF CopyFollows, Answering, Pending
  <1>8. ASSUME NEW q \in Corrections, NEW kind \in Kinds, NEW amount \in AmountChoices(kind),
               Submit(q, kind, amount) \/ SubmitElsewhere(q, kind, amount)
        PROVE  CopyFollows'
    BY <1>7, <1>8 DEF Submit, SubmitElsewhere
  <1>9. ASSUME NEW q \in Corrections, Find(q)
        PROVE  CopyFollows'
    <2> DEFINE new == [req[q] EXCEPT !.pc = "write", !.read = row]
    <2>1. new \in CorrectionRequests /\ new.pc = "write" /\ new.mine = req[q].mine
          /\ new.read = row
      BY StepsOfCorrections DEF CorrectionRequests
    <2>2. req' = [req EXCEPT ![q] = new]
      BY <1>9 DEF Find
    <2> HIDE DEF new
    <2> QED BY <1>9, <2>1, <2>2, OneRequestChanges DEF Find, Pending, CopyFollows, Answering
  <1>10. ASSUME NEW q \in Corrections, Reject(q)
         PROVE  CopyFollows'
    BY <1>10, NoRequestIsRequest, OneRequestChanges
    DEF Reject, Pending, CopyFollows, Answering, NoRequest
  <1>11. ASSUME NEW q \in Corrections, Write(q)
         PROVE  CopyFollows'
    <2>1. AnswerOf(q) \in Rows
      BY <1>11, AppliedIsRow DEF Write, AnswerOf, CorrectionRequests
    <2> DEFINE new == [req[q] EXCEPT !.pc = "answer", !.answer = AnswerOf(q)]
    <2>2. new \in CorrectionRequests /\ new.pc = "answer" /\ new.mine = req[q].mine
          /\ new.answer = AnswerOf(q)
      BY <2>1, StepsOfCorrections DEF CorrectionRequests
    <2>3. req' = [req EXCEPT ![q] = new]
      BY <1>11 DEF Write
    <2> HIDE DEF new
    <2>4. /\ req'[q] = new
          /\ \A p \in Corrections : p # q => req'[p] = req[p]
      BY <2>2, <2>3, OneRequestChanges
    <2>5. SUFFICES ASSUME faithful', details.open
                   PROVE  CopyFollows'
      BY <1>11 DEF Write, CopyFollows
    <2>6. faithful /\ req[q].mine /\ Pending(q) /\ details' = details
      BY <1>11, <2>5 DEF Write, Pending
    <2>7. \A p \in Corrections : p # q => ~Pending(p)
      BY <2>5, <2>6 DEF CopyFollows
    <2>8. new.answer = row'
      BY <1>11, <2>2, <2>5, <2>6 DEF Write, CopyFollows, AnswerOf
    <2>9. \A p \in Corrections : p # q => ~Pending(p)'
      BY <2>4, <2>7 DEF Pending
    <2>10. \A p \in Corrections : req'[p].pc # "idle" => p = q
      BY <2>9 DEF Pending
    <2>11. /\ req'[q].pc = "answer" /\ (req'[q].mine <=> req[q].mine)
           /\ req'[q].answer = row'
      BY <2>2, <2>4, <2>8
    <2>12. \A p \in Corrections : req'[p].pc \in {"write", "answer"} => p = q
      BY <2>10
    <2>13. \A p \in Corrections : ~(req'[p].pc = "write")
      BY <2>11, <2>12
    <2> QED BY <2>6, <2>10, <2>11, <2>12, <2>13 DEF CopyFollows, Answering, Pending
  <1>12. ASSUME NEW q \in Corrections, Succeed(q)
         PROVE  CopyFollows'
    <2>1. /\ req'[q] = NoRequest
          /\ \A p \in Corrections : p # q => req'[p] = req[p]
      BY <1>12, NoRequestIsRequest, OneRequestChanges DEF Succeed
    <2>2. NoRequest.pc = "idle" /\ row' = row /\ faithful' = faithful
      BY <1>12 DEF NoRequest, Succeed
    <2>3. CASE req[q].mine
      <3>1. SUFFICES ASSUME faithful, details.open
                     PROVE  CopyFollows'
        BY <1>12, <2>2, <2>3 DEF Succeed, Updated, CopyFollows
      <3>2. details'.copy = req[q].answer /\ req[q].answer = row
        BY <1>12, <2>3, <3>1 DEF Succeed, Updated, CopyFollows, Answering
      <3>3. \A p \in Corrections : ~Pending(p)'
        BY <1>12, <2>1, <2>2, <2>3, <3>1 DEF Succeed, CopyFollows, Pending
      <3> QED BY <2>2, <3>2, <3>3 DEF CopyFollows, Answering, Pending
    <2>4. CASE ~req[q].mine
      <3>1. details' = details
        BY <1>12, <2>4 DEF Succeed
      <3> QED BY <2>1, <2>2, <2>4, <3>1 DEF CopyFollows, Answering, Pending
    <2> QED BY <2>3, <2>4
  <1>13. ASSUME NEW q \in Corrections, AnswerLost(q)
         PROVE  CopyFollows'
    BY <1>13 DEF AnswerLost, CopyFollows
  <1> QED
    BY <1>1, <1>2, <1>4, <1>8, <1>9, <1>10, <1>11, <1>12, <1>13 DEF CorrectionsNext

LEMMA PageStays ==
    ASSUME CorrectionTypes, PageFollows, [CorrectionsNext]_correctionVars
    PROVE  PageFollows'
  <1> USE DEF CorrectionTypes, copies
  <1>1. ASSUME UNCHANGED <<row, ledger, fetch, unseen>>, NEW q \in Corrections,
               \A p \in Corrections : p # q => req'[p] = req[p],
               ~Answering(q), ~Answering(q)'
        PROVE  PageFollows'
    BY <1>1 DEF PageFollows, Answering
  <1>2. CASE OpenDetails \/ CloseDetails \/ UNCHANGED correctionVars
    BY <1>2 DEF OpenDetails, CloseDetails, correctionVars, PageFollows, Answering
  <1>3. CASE Refetch
    BY <1>3 DEF Refetch, NoFetch, PageFollows
  <1>4. CASE ReadPage
    BY <1>4 DEF ReadPage, PageFollows
  <1>5. CASE ShowPage
    BY <1>5 DEF ShowPage, NoFetch, PageFollows, Answering
  <1>6. CASE FetchFails
    BY <1>6 DEF FetchFails, PageFollows
  <1>7. ASSUME NEW q \in Corrections, NEW kind \in Kinds, NEW amount \in AmountChoices(kind),
               NEW mine \in BOOLEAN, Begin(q, mine, kind, amount),
               UNCHANGED <<row, ledger, fetch, unseen>>
        PROVE  PageFollows'
    BY <1>1, <1>7, BeginStarts DEF Answering
  <1>8. ASSUME NEW q \in Corrections, NEW kind \in Kinds, NEW amount \in AmountChoices(kind),
               Submit(q, kind, amount) \/ SubmitElsewhere(q, kind, amount)
        PROVE  PageFollows'
    BY <1>7, <1>8 DEF Submit, SubmitElsewhere
  <1>9. ASSUME NEW q \in Corrections, Find(q)
        PROVE  PageFollows'
    <2>1. ~Answering(q) /\ ~Answering(q)' /\ \A p \in Corrections : p # q => req'[p] = req[p]
      BY <1>9 DEF Find, Answering, CorrectionRequests
    <2> QED BY <1>1, <1>9, <2>1 DEF Find
  <1>10. ASSUME NEW q \in Corrections, Reject(q)
         PROVE  PageFollows'
    <2>1. ~Answering(q) /\ ~Answering(q)' /\ \A p \in Corrections : p # q => req'[p] = req[p]
      BY <1>10 DEF Reject, Answering, NoRequest
    <2> QED BY <1>1, <1>10, <2>1 DEF Reject
  <1>11. ASSUME NEW q \in Corrections, Write(q)
         PROVE  PageFollows'
    <2>1. CASE req[q].mine
      <3>1. Answering(q)'
        BY <1>11, <2>1 DEF Write, Answering, CorrectionRequests
      <3> QED BY <3>1 DEF PageFollows
    <2>2. CASE ~req[q].mine
      BY <1>11, <2>2 DEF Write, PageFollows
    <2> QED BY <2>1, <2>2
  <1>12. ASSUME NEW q \in Corrections, Succeed(q)
         PROVE  PageFollows'
    <2>1. CASE req[q].mine
      <3>1. fetch'.pc = "sent"
        BY <1>12, <2>1 DEF Succeed, Refetched, NoFetch
      <3> QED BY <3>1 DEF PageFollows
    <2>2. CASE ~req[q].mine
      <3>1. ~Answering(q) /\ ~Answering(q)' /\ \A p \in Corrections : p # q => req'[p] = req[p]
        BY <1>12, <2>2 DEF Succeed, Answering, NoRequest
      <3> QED BY <1>1, <1>12, <2>2, <3>1 DEF Succeed
    <2> QED BY <2>1, <2>2
  <1>13. ASSUME NEW q \in Corrections, AnswerLost(q)
         PROVE  PageFollows'
    BY <1>13 DEF AnswerLost, PageFollows
  <1> QED
    BY <1>2, <1>3, <1>4, <1>5, <1>6, <1>8, <1>9, <1>10, <1>11, <1>12, <1>13
    DEF CorrectionsNext

\* The table, the open details and the cached page of one tab agree about a
\* corrected transaction whenever no correction of this tab is under way
\* (useTransactionMutations, TransactionCorrectionService), for any number of
\* corrections of this tab and others, any amounts and any loss of answers.
THEOREM CorrectionsAgree == CorrectionsSpec => []CorrectionsInvariant
  <1>1. CorrectionsInit => CorrectionsSound
    <2> SUFFICES ASSUME CorrectionsInit PROVE CorrectionsSound
      OBVIOUS
    <2>1. CorrectionTypes
      BY NoRequestIsRequest
      DEF CorrectionsInit, CorrectionTypes, NoFetch, Closed, Pending
    <2>2. DirectionKept
      <3>1. SignsAgree(Original, Original)
        BY CorrectionsAssumption DEF SignsAgree
      <3> QED BY <3>1 DEF CorrectionsInit, DirectionKept, Imported
    <2>3. CopyFollows /\ PageFollows
      BY DEF CorrectionsInit, CopyFollows, PageFollows, NoFetch
    <2> QED BY <2>1, <2>2, <2>3 DEF CorrectionsSound
  <1>2. CorrectionsSound /\ [CorrectionsNext]_correctionVars => CorrectionsSound'
    BY CorrectionTypesStay, DirectionStays, CopyStays, PageStays DEF CorrectionsSound
  <1>3. CorrectionsSound => CorrectionsInvariant
    <2> SUFFICES ASSUME CorrectionsSound PROVE CorrectionsInvariant
      OBVIOUS
    <2>1. CorrectionsTypeInvariant
      BY DEF CorrectionsSound, CorrectionTypes, CorrectionsTypeInvariant, CorrectionRequests,
         CorrectionSteps
    <2>2. DetailsShowTable
      BY DEF CorrectionsSound, CopyFollows, DetailsShowTable, MinePending, Answering, Pending
    <2>3. LedgerShowsTable
      BY DEF CorrectionsSound, PageFollows, LedgerShowsTable, PageIsCurrent, MinePending,
             Answering, Pending
    <2> QED BY <2>1, <2>2, <2>3 DEF CorrectionsSound, CorrectionsInvariant
  <1> QED BY <1>1, <1>2, <1>3, PTL DEF CorrectionsSpec

-----------------------------------------------------------------------------
\* gcd() returns the greatest common divisor.
LEMMA GcdIsGreatest ==
    ASSUME NEW a, a \in Nat, NEW b, b \in Nat, b > 0
    PROVE  gcd[<<a, b>>] = Greatest(CommonDivisors(a, b))
  <1>1. gcd = CHOOSE g : GcdRule(g)
    BY DEF gcd, GcdRule
  <1>2. GcdRule(gcd)
    BY <1>1, GcdTableRule
  <1>3. gcd[<<a, b>>] = GcdTable[<<a, b>>]
    BY <1>2, GcdUnique
  <1> QED BY <1>3 DEF GcdTable

\* What reduce() returns is the same fraction, in lowest terms.
LEMMA ReducedExact ==
    ASSUME NEW n, n \in Nat, n > 0, NEW d, d \in Nat, d > 0
    PROVE  /\ Reduced(n, d).num \in Nat /\ Reduced(n, d).den \in Nat
           /\ Reduced(n, d).num > 0 /\ Reduced(n, d).den > 0
           /\ Reduced(n, d).num * d = n * Reduced(n, d).den
           /\ gcd[<<Reduced(n, d).num, Reduced(n, d).den>>] = 1
  <1> DEFINE g == gcd[<<n, d>>]
  <1>1. g \in CommonDivisors(n, d) /\ \A e \in CommonDivisors(n, d) : e <= g
    BY GcdIsGreatest, CommonBounded
  <1>2. g \in Nat /\ g > 0 /\ Divides(g, n) /\ Divides(g, d)
    BY <1>1 DEF CommonDivisors
  <1>3. Reduced(n, d) = [num |-> n \div g, den |-> d \div g]
    BY DEF Reduced
  <1> HIDE DEF g
  <1>4. PICK x \in Nat : n = g * x
    BY <1>2 DEF Divides
  <1>5. PICK y \in Nat : d = g * y
    BY <1>2 DEF Divides
  <1>6. n \div g = x /\ d \div g = y
    BY <1>2, <1>4, <1>5, Quotient
  <1>7. x > 0 /\ y > 0
    BY <1>2, <1>4, <1>5
  <1>8. x * d = n * y
    <2>1. x * (g * y) = (g * x) * y
      BY <1>2
    <2> QED BY <1>4, <1>5, <2>1
  <1>9. gcd[<<x, y>>] = 1
    <2> DEFINE e == gcd[<<x, y>>]
    <2>1. e \in CommonDivisors(x, y)
      BY <1>7, GcdIsGreatest, CommonBounded
    <2>2. e \in Nat /\ e > 0 /\ Divides(e, x) /\ Divides(e, y)
      BY <2>1 DEF CommonDivisors
    <2> HIDE DEF e
    <2>3. PICK j \in Nat : x = e * j
      BY <2>2 DEF Divides
    <2>4. PICK k \in Nat : y = e * k
      BY <2>2 DEF Divides
    <2>5. n = (g * e) * j /\ d = (g * e) * k
      <3>1. g * (e * j) = (g * e) * j /\ g * (e * k) = (g * e) * k
        BY <1>2, <2>2
      <3> QED BY <1>4, <1>5, <2>3, <2>4, <3>1
    <2>6. g * e \in Nat \ {0}
      <3>1. g * e >= 1
        BY <1>2, <2>2
      <3>2. g * e \in Int
        BY <1>2, <2>2
      <3> QED BY <3>1, <3>2
    <2> DEFINE h == g * e
    <2>7. h \in Nat \ {0} /\ n = h * j /\ d = h * k
      BY <2>5, <2>6
    <2> HIDE DEF h
    <2>8. h \in CommonDivisors(n, d)
      BY <2>7 DEF CommonDivisors, Divides
    <2>9. g * e <= g
      BY <1>1, <2>8 DEF h
    <2>10. e = 1
      <3> SUFFICES ASSUME e >= 2 PROVE FALSE
        BY <2>2
      <3>1. g * e >= g * 2
        BY <1>2, <2>2
      <3>2. g * e \in Int
        BY <1>2, <2>2
      <3> QED BY <1>2, <2>9, <3>1, <3>2
    <2> QED BY <2>10 DEF e
  <1> QED BY <1>3, <1>6, <1>7, <1>8, <1>9

\* A positive fraction.
Fine(f) == f.num \in Nat /\ f.den \in Nat /\ f.num > 0 /\ f.den > 0

\* Fraction r is what quote q says.
ExactRate(q, r) ==
    IF q.kind = "cross"
    THEN r.num * 10 ^ q.rate.places = q.rate.digits * r.den
    ELSE r.num * 2 * 10 ^ q.buy.places * 10 ^ q.sell.places =
         r.den * (q.buy.digits * 10 ^ q.sell.places + q.sell.digits * 10 ^ q.buy.places)

\* A decimal that can be read is its fraction.
LEMMA FractionExact ==
    ASSUME NEW q, Readable(q), MaxSafe \in Nat
    PROVE  /\ Fine(Fraction(q)) /\ gcd[<<Fraction(q).num, Fraction(q).den>>] = 1
           /\ q.digits \in Nat /\ 10 ^ q.places \in Nat /\ 10 ^ q.places > 0
           /\ Fraction(q).num * 10 ^ q.places = q.digits * Fraction(q).den
  <1> DEFINE n == q.digits
             p == 10 ^ q.places
  <1>1. n \in Nat /\ n > 0 /\ p \in Nat /\ p > 0
    BY DEF Readable, Reducible
  <1>2. Fraction(q) = Reduced(n, p)
    BY DEF Fraction
  <1> HIDE DEF n, p
  <1>3. /\ Reduced(n, p).num \in Nat /\ Reduced(n, p).den \in Nat
        /\ Reduced(n, p).num > 0 /\ Reduced(n, p).den > 0
        /\ Reduced(n, p).num * p = n * Reduced(n, p).den
        /\ gcd[<<Reduced(n, p).num, Reduced(n, p).den>>] = 1
    BY <1>1, ReducedExact
  <1>4. /\ Fine(Fraction(q)) /\ gcd[<<Fraction(q).num, Fraction(q).den>>] = 1
        /\ Fraction(q).num * p = n * Fraction(q).den
    BY <1>2, <1>3 DEF Fine
  <1> QED BY <1>1, <1>4 DEF n, p

\* The mean of two fractions, as a fraction of the decimals they were read from.
LEMMA MeanExact ==
    ASSUME NEW bn, bn \in Nat, NEW bd, bd \in Nat, bd > 0,
           NEW sn, sn \in Nat, NEW sd, sd \in Nat, sd > 0,
           NEW x, x \in Nat, NEW pb, pb \in Nat, NEW y, y \in Nat, NEW ps, ps \in Nat,
           bn * pb = x * bd, sn * ps = y * sd,
           NEW rn, rn \in Nat, NEW rd, rd \in Nat,
           rn * (2 * bd * sd) = (bn * sd + sn * bd) * rd
    PROVE  rn * 2 * pb * ps = rd * (x * ps + y * pb)
  <1> DEFINE k == bd * sd
             left == rn * 2 * pb * ps
             right == rd * (x * ps + y * pb)
  <1>1. k \in Nat /\ k > 0
    <2>1. bd * sd >= 1 * sd
      OBVIOUS
    <2>2. bd * sd \in Nat
      OBVIOUS
    <2> QED BY <2>1, <2>2
  <1>2. left \in Int /\ right \in Int
    OBVIOUS
  <1>3. left * k = (rn * (2 * bd * sd)) * (pb * ps)
    OBVIOUS
  <1>4. left * k = ((bn * sd + sn * bd) * rd) * (pb * ps)
    BY <1>3
  <1>5. ((bn * sd + sn * bd) * rd) * (pb * ps)
           = rd * ((bn * pb) * (sd * ps) + (sn * ps) * (bd * pb))
    OBVIOUS
  <1>6. rd * ((bn * pb) * (sd * ps) + (sn * ps) * (bd * pb))
           = rd * ((x * bd) * (sd * ps) + (y * sd) * (bd * pb))
    OBVIOUS
  <1>7. rd * ((x * bd) * (sd * ps) + (y * sd) * (bd * pb)) = right * k
    OBVIOUS
  <1>8. left * k = right * k
    BY <1>4, <1>5, <1>6, <1>7
  <1> HIDE DEF k, left, right
  <1>9. left = right
    <2>1. ASSUME left < right PROVE FALSE
      <3> DEFINE e == right - left
      <3>1. e \in Nat /\ e >= 1 /\ right = left + e
        BY <1>2, <2>1
      <3> HIDE DEF e
      <3>2. right * k = left * k + e * k
        BY <1>1, <1>2, <3>1
      <3>3. e * k >= 1 * k
        BY <1>1, <3>1
      <3> QED BY <1>1, <1>2, <1>8, <3>1, <3>2, <3>3
    <2>2. ASSUME right < left PROVE FALSE
      <3> DEFINE e == left - right
      <3>1. e \in Nat /\ e >= 1 /\ left = right + e
        BY <1>2, <2>2
      <3> HIDE DEF e
      <3>2. left * k = right * k + e * k
        BY <1>1, <1>2, <3>1
      <3>3. e * k >= 1 * k
        BY <1>1, <3>1
      <3> QED BY <1>1, <1>2, <1>8, <3>1, <3>2, <3>3
    <2> QED BY <1>2, <2>1, <2>2
  <1> QED BY <1>9 DEF left, right

\* A quote that may be stored is stored exactly.
LEMMA RateExact ==
    ASSUME NEW q, ValidQuote(q), MaxSafe \in Nat
    PROVE  Fine(RateOf(q)) /\ gcd[<<RateOf(q).num, RateOf(q).den>>] = 1 /\ ExactRate(q, RateOf(q))
  <1>1. CASE q.kind = "cross"
    <2>1. Readable(q.rate) /\ RateOf(q) = Fraction(q.rate)
      BY <1>1 DEF ValidQuote, RateOf
    <2> QED BY <1>1, <2>1, FractionExact DEF ExactRate
  <1>2. CASE q.kind # "cross"
    <2> DEFINE b == Fraction(q.buy)
               s == Fraction(q.sell)
               m == Midpoint(b, s)
               r == RateOf(q)
               x == q.buy.digits
               y == q.sell.digits
               pb == 10 ^ q.buy.places
               ps == 10 ^ q.sell.places
    <2>1. Readable(q.buy) /\ Readable(q.sell) /\ Reducible(m.num, m.den)
      BY <1>2 DEF ValidQuote
    <2>2. r = Reduced(m.num, m.den)
      BY <1>2 DEF RateOf
    <2>3. Fine(b) /\ x \in Nat /\ pb \in Nat /\ pb > 0 /\ b.num * pb = x * b.den
      BY <2>1, FractionExact
    <2>4. Fine(s) /\ y \in Nat /\ ps \in Nat /\ ps > 0 /\ s.num * ps = y * s.den
      BY <2>1, FractionExact
    <2>5. m.num = b.num * s.den + s.num * b.den /\ m.den = 2 * b.den * s.den
      BY DEF Midpoint
    <2>6. ExactRate(q, r) <=> r.num * 2 * pb * ps = r.den * (x * ps + y * pb)
      BY <1>2 DEF ExactRate
    <2> HIDE DEF b, s, m, r, x, y, pb, ps
    <2>7. m.num \in Nat /\ m.num > 0 /\ m.den \in Nat /\ m.den > 0
      BY <2>1 DEF Reducible
    <2>8. /\ r.num \in Nat /\ r.den \in Nat /\ r.num > 0 /\ r.den > 0
          /\ r.num * m.den = m.num * r.den /\ gcd[<<r.num, r.den>>] = 1
      BY <2>2, <2>7, ReducedExact
    <2>9. r.num * (2 * b.den * s.den) = (b.num * s.den + s.num * b.den) * r.den
      BY <2>5, <2>8
    <2>10. r.num * 2 * pb * ps = r.den * (x * ps + y * pb)
      <3> DEFINE bn == b.num
                 bd == b.den
                 sn == s.num
                 sd == s.den
                 rn == r.num
                 rd == r.den
      <3>1. bn \in Nat /\ bd \in Nat /\ bd > 0 /\ sn \in Nat /\ sd \in Nat /\ sd > 0
        BY <2>3, <2>4 DEF Fine
      <3>2. rn \in Nat /\ rd \in Nat
        BY <2>8
      <3>3. bn * pb = x * bd /\ sn * ps = y * sd
        BY <2>3, <2>4
      <3>4. rn * (2 * bd * sd) = (bn * sd + sn * bd) * rd
        BY <2>9
      <3>5. x \in Nat /\ pb \in Nat /\ y \in Nat /\ ps \in Nat
        BY <2>3, <2>4
      <3> HIDE DEF bn, bd, sn, sd, rn, rd
      <3>6. rn * 2 * pb * ps = rd * (x * ps + y * pb)
        BY <3>1, <3>2, <3>3, <3>4, <3>5, MeanExact
      <3> QED BY <3>6 DEF rn, rd
    <2>11. Fine(r) /\ gcd[<<r.num, r.den>>] = 1 /\ ExactRate(q, r)
      BY <2>6, <2>8, <2>10 DEF Fine
    <2> QED BY <2>11 DEF r
  <1> QED BY <1>1, <1>2

\* The magnitudes: p over d, to the nearest, a tie up.
LEMMA RoundedHalf ==
    ASSUME NEW p, p \in Nat, NEW d, d \in Nat, d > 0
    PROVE  LET c == (p + d \div 2) \div d
           IN /\ c \in Nat
              /\ 2 * (c * d - p) <= d /\ 2 * (c * d - p) > -d
  <1> DEFINE h == d \div 2
             x == p + h
             c == x \div d
             m == d * c
  <1>1. h \in Nat /\ 2 * h <= d /\ d < 2 * h + 2
    OBVIOUS
  <1>2. x \in Nat
    BY <1>1
  <1> HIDE DEF h, x
  <1>3. c \in Nat /\ m <= x /\ x < m + d
    BY <1>2
  <1>4. m \in Int /\ c * d = m
    BY <1>3
  <1> HIDE DEF c, m
  <1>5. x = p + h
    BY DEF x
  <1>6. 2 * (m - p) <= d /\ 2 * (m - p) > -d
    BY <1>1, <1>2, <1>3, <1>4, <1>5
  <1>7. c \in Nat /\ 2 * (c * d - p) <= d /\ 2 * (c * d - p) > -d
    BY <1>3, <1>4, <1>6
  <1> QED BY <1>7 DEF c, x, h

\* multiplyAndRound of any amount with any positive rate: what RoundsToNearest says.
LEMMA AmountRounds ==
    ASSUME NEW a, a \in Int, NEW r, r.num \in Nat, r.den \in Nat, r.num > 0, r.den > 0
    PROVE  Nearest(a, r)
  <1> DEFINE n == r.num
             d == r.den
             m == Magnitude(a)
             p == m * n
             k == (p + d \div 2) \div d
             c == MultiplyAndRound(a, r)
             twice == 2 * (c * d - a * n)
             e == 2 * (k * d - p)
  <1>1. n \in Nat /\ n > 0 /\ d \in Nat /\ d > 0
    OBVIOUS
  <1>2. m \in Nat /\ Magnitude(-a) = m /\ (a >= 0 => a = m) /\ (a < 0 => a = -m)
    BY DEF Magnitude
  <1> HIDE DEF n, d, m
  <1>3. p \in Nat
    BY <1>1, <1>2
  <1>4. a * n = IF a < 0 THEN -p ELSE p
    BY <1>1, <1>2
  <1>5. a = 0 => p = 0
    BY <1>1, <1>2
  <1> HIDE DEF p
  <1>6. k \in Nat /\ e <= d /\ e > -d
    BY <1>1, <1>3, RoundedHalf
  <1>7. c = IF a < 0 THEN -k ELSE k
    BY DEF MultiplyAndRound, n, d, m, p
  <1>8. MultiplyAndRound(-a, r) = IF -a < 0 THEN -k ELSE k
    BY <1>2 DEF MultiplyAndRound, n, d, m, p
  <1> HIDE DEF k, c
  <1>9. k * d \in Int
    BY <1>1, <1>6
  <1>10. a = 0 => k = 0
    <2> SUFFICES ASSUME a = 0, k >= 1 PROVE FALSE
      BY <1>6
    <2>1. k * d >= 1 * d
      BY <1>1, <1>6
    <2> QED BY <1>1, <1>5, <1>6, <1>9, <2>1
  <1>11. twice = IF a < 0 THEN -e ELSE e
    <2>1. (-k) * d = -(k * d)
      BY <1>1, <1>6
    <2>2. CASE a < 0
      BY <2>1, <2>2, <1>3, <1>4, <1>7, <1>9
    <2>3. CASE ~(a < 0)
      BY <2>3, <1>3, <1>4, <1>7, <1>9
    <2> QED BY <2>2, <2>3
  <1>12. e \in Int
    BY <1>3, <1>9
  <1>13. a = 0 => e = 0
    BY <1>1, <1>5, <1>10
  <1> HIDE DEF e, twice
  <1>14. Magnitude(twice) <= d
    BY <1>1, <1>6, <1>11, <1>12 DEF Magnitude
  <1>15. twice # 0 => (Magnitude(twice) = d => (twice > 0) = (a > 0))
    BY <1>1, <1>6, <1>11, <1>12, <1>13 DEF Magnitude
  <1>16. MultiplyAndRound(-a, r) = -c
    BY <1>6, <1>7, <1>8, <1>10
  <1> QED BY <1>14, <1>15, <1>16 DEF Nearest, twice, c, d, n

RowsTyped(table) == \A r \in table : r.num \in Nat /\ r.den \in Nat

\* One leg through the hryvnia, there and back.
LEMMA LegInverts ==
    ASSUME NEW table, NEW c, NEW t, RowsTyped(table),
           Latest(c, "UAH", t, table) = {} \/ Latest("UAH", c, t, table) = {},
           NEW out \in DirectOrInverse(c, "UAH", t, table),
           NEW back \in DirectOrInverse("UAH", c, t, table)
    PROVE  out.num \in Nat /\ out.den \in Nat /\ back.num = out.den /\ back.den = out.num
  <1>1. \A s : s \subseteq table /\ s # {} => Ratio(s).num \in Nat /\ Ratio(s).den \in Nat
    BY DEF Ratio, RowsTyped
  <1>2. \A x, y : Latest(x, y, t, table) \subseteq table
    BY DEF Latest
  <1>3. CASE c = "UAH"
    BY <1>3 DEF DirectOrInverse, One
  <1>4. CASE c # "UAH" /\ Latest(c, "UAH", t, table) # {}
    <2>1. out = Ratio(Latest(c, "UAH", t, table))
      BY <1>4 DEF DirectOrInverse
    <2>2. back = Inverted(Ratio(Latest(c, "UAH", t, table)))
      BY <1>4 DEF DirectOrInverse
    <2>3. out.num \in Nat /\ out.den \in Nat
      BY <1>1, <1>2, <1>4, <2>1
    <2> QED BY <2>1, <2>2, <2>3 DEF Inverted
  <1>5. CASE c # "UAH" /\ Latest(c, "UAH", t, table) = {} /\ Latest("UAH", c, t, table) # {}
    <2>1. out = Inverted(Ratio(Latest("UAH", c, t, table)))
      BY <1>5 DEF DirectOrInverse
    <2>2. back = Ratio(Latest("UAH", c, t, table))
      BY <1>5 DEF DirectOrInverse
    <2>3. back.num \in Nat /\ back.den \in Nat
      BY <1>1, <1>2, <1>5, <2>2
    <2> QED BY <2>1, <2>2, <2>3 DEF Inverted
  <1>6. CASE c # "UAH" /\ Latest(c, "UAH", t, table) = {} /\ Latest("UAH", c, t, table) = {}
    BY <1>6 DEF DirectOrInverse
  <1> QED BY <1>3, <1>4, <1>5, <1>6

\* Both legs, there and back.
LEMMA WayBack ==
    ASSUME NEW table, NEW from, NEW to, NEW t, RowsTyped(table),
           Latest(from, to, t, table) = {}, Latest(to, from, t, table) = {},
           Latest(from, "UAH", t, table) = {} \/ Latest("UAH", from, t, table) = {},
           Latest(to, "UAH", t, table) = {} \/ Latest("UAH", to, t, table) = {},
           NEW there \in RateFor(from, to, t, table),
           NEW back \in RateFor(to, from, t, table)
    PROVE  there.num * back.num = there.den * back.den
  <1>1. CASE from = to
    BY <1>1 DEF RateFor, One
  <1>2. CASE from # to
    <2>1. there \in ThroughUah(from, to, t, table) /\ back \in ThroughUah(to, from, t, table)
      BY <1>2 DEF RateFor
    <2>2. PICK a \in DirectOrInverse(from, "UAH", t, table),
               b \in DirectOrInverse("UAH", to, t, table) :
               there = [num |-> a.num * b.num, den |-> a.den * b.den]
      BY <2>1 DEF ThroughUah
    <2>3. PICK x \in DirectOrInverse(to, "UAH", t, table),
               y \in DirectOrInverse("UAH", from, t, table) :
               back = [num |-> x.num * y.num, den |-> x.den * y.den]
      BY <2>1 DEF ThroughUah
    <2>4. a.num \in Nat /\ a.den \in Nat /\ y.num = a.den /\ y.den = a.num
      BY LegInverts
    <2>5. x.num \in Nat /\ x.den \in Nat /\ b.num = x.den /\ b.den = x.num
      BY LegInverts
    <2> DEFINE an == a.num
               ad == a.den
               xn == x.num
               xd == x.den
    <2>6. there.num = an * xd /\ there.den = ad * xn /\ back.num = xn * ad /\ back.den = xd * an
      BY <2>2, <2>3, <2>4, <2>5
    <2>7. an \in Nat /\ ad \in Nat /\ xn \in Nat /\ xd \in Nat
      BY <2>4, <2>5
    <2> HIDE DEF an, ad, xn, xd
    <2>8. (an * xd) * (xn * ad) = (ad * xn) * (xd * an)
      BY <2>7
    <2> QED BY <2>6, <2>8
  <1> QED BY <1>1, <1>2

\* A row is what the code wrote for an offer it accepted.
Written(r, o) ==
    /\ ValidQuote(o.quote) /\ o.at \in 0..MaxDate
    /\ r = Row(o)

\* The inductive invariant: rows are accepted offers, one of a pair and a date.
RatesSound ==
    /\ lastSync \in {"none", "stored", "failed"}
    /\ \A r \in rates : \E o \in Offers : Written(r, o)
    /\ \A r, q \in rates : SameKey(r, q) => r = q

LEMMA RatesSoundAtFirst == ConversionInit => RatesSound
  BY DEF ConversionInit, RatesSound

\* One answer: offers of one quote and one date.
LEMMA BatchKeeps ==
    ASSUME RatesSound, NEW offers, offers \subseteq Offers, SynchronizeRates(offers),
           \A o, p \in offers : o.quote = p.quote
    PROVE  RatesSound'
  <1>1. lastSync' = "stored" /\ \A o \in offers : ValidQuote(o.quote)
    BY DEF SynchronizeRates, Synchronizable
  <1>2. rates' = rates \cup {Row(o) : o \in {p \in offers : \A r \in rates : ~SameKey(r, p)}}
    BY DEF SynchronizeRates, StoredRows
  <1>3. \A o : /\ Row(o).from = o.from /\ Row(o).to = o.to /\ Row(o).at = o.at
               /\ Row(o).quote = o.quote
               /\ \A r : SameKey(r, Row(o)) <=> SameKey(r, o)
    BY DEF Row, SameKey
  <1>4. \A r \in rates' : r \in rates
                          \/ \E o \in offers : r = Row(o) /\ \A q \in rates : ~SameKey(q, o)
    BY <1>2
  <1>5. ASSUME NEW r \in rates' PROVE \E o \in Offers : Written(r, o)'
    <2>1. CASE r \in rates
      <3>1. PICK o \in Offers : Written(r, o)
        BY <2>1 DEF RatesSound
      <3>2. Written(r, o)'
        BY <3>1 DEF Written, ValidQuote, Readable, Row
      <3> QED BY <3>2
    <2>2. CASE \E o \in offers : r = Row(o)
      <3>1. PICK o \in offers : r = Row(o)
        BY <2>2
      <3>2. o \in Offers /\ ValidQuote(o.quote) /\ o.at \in 0..MaxDate
        BY <1>1 DEF Offers
      <3>3. Written(r, o)'
        BY <3>1, <3>2 DEF Written
      <3> QED BY <3>2, <3>3
    <2> QED BY <1>4, <2>1, <2>2
  <1>6. ASSUME NEW r \in rates', NEW q \in rates', SameKey(r, q) PROVE r = q
    <2>1. CASE r \in rates /\ q \in rates
      BY <1>6, <2>1 DEF RatesSound
    <2>2. CASE \E o \in offers : r = Row(o) /\ \A x \in rates : ~SameKey(x, o)
      <3>1. PICK o \in offers : r = Row(o) /\ \A x \in rates : ~SameKey(x, o)
        BY <2>2
      <3>2. SameKey(q, o)
        BY <1>3, <1>6, <3>1 DEF SameKey
      <3>3. PICK p \in offers : q = Row(p)
        BY <1>4, <3>1, <3>2
      <3>4. o.from = p.from /\ o.to = p.to /\ o.at = p.at /\ o.quote = p.quote
        BY <1>3, <3>2, <3>3 DEF SameKey
      <3> QED BY <3>1, <3>3, <3>4 DEF Row
    <2>3. CASE \E o \in offers : q = Row(o) /\ \A x \in rates : ~SameKey(x, o)
      <3>1. PICK o \in offers : q = Row(o) /\ \A x \in rates : ~SameKey(x, o)
        BY <2>3
      <3>2. SameKey(r, o)
        BY <1>3, <1>6, <3>1 DEF SameKey
      <3>3. PICK p \in offers : r = Row(p)
        BY <1>4, <3>1, <3>2
      <3>4. o.from = p.from /\ o.to = p.to /\ o.at = p.at /\ o.quote = p.quote
        BY <1>3, <3>2, <3>3 DEF SameKey
      <3> QED BY <3>1, <3>3, <3>4 DEF Row
    <2> QED BY <1>4, <2>1, <2>2, <2>3
  <1> QED BY <1>1, <1>5, <1>6 DEF RatesSound

\* Every step keeps the rows of exchange_rates sound.
LEMMA RatesSoundStays == RatesSound /\ [ConversionNext]_rateVars => RatesSound'
  <1> SUFFICES ASSUME RatesSound, [ConversionNext]_rateVars PROVE RatesSound'
    OBVIOUS
  <1>1. CASE SynchronizeRatesFails
    BY <1>1 DEF SynchronizeRatesFails, RatesSound
  <1>2. CASE \E o \in Offers : SynchronizeRates({o})
    BY <1>2, BatchKeeps
  <1>3. ASSUME NEW o \in Offers, NEW from \in Currencies, NEW to \in Currencies,
               SynchronizeRates({o, [o EXCEPT !.from = from, !.to = to]})
        PROVE  RatesSound'
    <2> DEFINE p == [o EXCEPT !.from = from, !.to = to]
    <2>1. p \in Offers /\ p.quote = o.quote
      BY DEF Offers
    <2>2. {o, p} \subseteq Offers /\ \A x, y \in {o, p} : x.quote = y.quote
      BY <2>1
    <2>3. SynchronizeRates({o, p})
      BY <1>3
    <2> HIDE DEF p
    <2> QED BY <2>2, <2>3, BatchKeeps
  <1>4. CASE UNCHANGED rateVars
    BY <1>4 DEF rateVars, RatesSound
  <1> QED BY <1>1, <1>2, <1>3, <1>4 DEF ConversionNext

\* Sound rows have every property of the conversion.
LEMMA RatesSoundMeans == RatesSound => ConversionInvariant
  <1> SUFFICES ASSUME RatesSound PROVE ConversionInvariant
    OBVIOUS
  <1>1. MaxSafe \in Nat
    BY ConversionAssumption
  <1>2. \A r \in rates : Fine(r) /\ gcd[<<r.num, r.den>>] = 1 /\ ExactRate(r.quote, r)
    <2> SUFFICES ASSUME NEW r \in rates
                 PROVE  Fine(r) /\ gcd[<<r.num, r.den>>] = 1 /\ ExactRate(r.quote, r)
      OBVIOUS
    <2>1. PICK o \in Offers : Written(r, o)
      BY DEF RatesSound
    <2> DEFINE q == o.quote
    <2>2. ValidQuote(q)
      BY <2>1 DEF Written
    <2>3. r.num = RateOf(q).num /\ r.den = RateOf(q).den /\ r.quote = q
      BY <2>1 DEF Written, Row
    <2> HIDE DEF q
    <2>4. Fine(RateOf(q)) /\ gcd[<<RateOf(q).num, RateOf(q).den>>] = 1 /\ ExactRate(q, RateOf(q))
      BY <1>1, <2>2, RateExact
    <2>5. ExactRate(q, r)
      BY <2>3, <2>4 DEF ExactRate
    <2> QED BY <2>3, <2>4, <2>5 DEF Fine
  <1>3. RatesTypeInvariant
    <2>1. \A r \in rates : r.num > 0 /\ r.den > 0 /\ gcd[<<r.num, r.den>>] = 1
      BY <1>2 DEF Fine
    <2> QED BY <2>1 DEF RatesTypeInvariant, RatesSound
  <1>4. RateIsQuote
    BY <1>2 DEF RateIsQuote, ExactRate
  <1>5. RoundsToNearest
    <2> SUFFICES ASSUME NEW r \in rates, NEW a \in Amounts
                 PROVE  Nearest(a, r)
      BY DEF RoundsToNearest
    <2>1. a \in Int
      BY ConversionAssumption
    <2>2. r.num \in Nat /\ r.den \in Nat /\ r.num > 0 /\ r.den > 0
      BY <1>2 DEF Fine
    <2> QED BY <2>1, <2>2, AmountRounds
  <1>6. WayBackInverts
    <2>1. RowsTyped(rates)
      BY <1>2 DEF RowsTyped, Fine
    <2> SUFFICES ASSUME NEW from \in Currencies, NEW to \in Currencies, NEW t \in 0..MaxDate,
                        Latest(from, to, t, rates) = {}, Latest(to, from, t, rates) = {},
                        Latest(from, "UAH", t, rates) = {} \/ Latest("UAH", from, t, rates) = {},
                        Latest(to, "UAH", t, rates) = {} \/ Latest("UAH", to, t, rates) = {},
                        NEW there \in RateFor(from, to, t, rates),
                        NEW back \in RateFor(to, from, t, rates)
                 PROVE  there.num * back.num = there.den * back.den
      BY DEF WayBackInverts
    <2> QED BY <2>1, WayBack
  <1> QED BY <1>3, <1>4, <1>5, <1>6 DEF ConversionInvariant

\* From the quote of the bank to the converted amount nothing is lost but the last half
\* of a minor unit, for any currencies, quotes of any length, dates and amounts: stored
\* rates are the quotes, amounts round to the nearest minor unit and a refund like its
\* purchase, and without quotes of both directions the way back inverts the way there.
THEOREM ConversionIsExact == ConversionSpec => []ConversionInvariant
  <1>1. ConversionInit => RatesSound
    BY RatesSoundAtFirst
  <1>2. RatesSound /\ [ConversionNext]_rateVars => RatesSound'
    BY RatesSoundStays
  <1>3. RatesSound => ConversionInvariant
    BY RatesSoundMeans
  <1> QED BY <1>1, <1>2, <1>3, PTL DEF ConversionSpec

\* Rates dated after a transaction are none of those it may be converted with.
LEMMA LatestStands ==
    ASSUME NEW table, NEW more, table \subseteq more, NEW t \in 0..MaxDate,
           \A r \in more \ table : r.at > t,
           \A r \in more : r.at \in 0..MaxDate
    PROVE  \A from, to : Latest(from, to, t, more) = Latest(from, to, t, table)
  <1>1. \A r \in more : r.at <= t => r \in table
    <2> SUFFICES ASSUME NEW r \in more, r.at <= t, r \notin table PROVE FALSE
      OBVIOUS
    <2>1. r.at > t /\ r.at \in Int /\ t \in Int
      OBVIOUS
    <2> QED BY <2>1
  <1> SUFFICES ASSUME NEW from, NEW to
               PROVE  Latest(from, to, t, more) = Latest(from, to, t, table)
    OBVIOUS
  <1> DEFINE usable(s) == {r \in s : r.from = from /\ r.to = to /\ r.at <= t}
  <1>2. usable(more) = usable(table)
    BY <1>1
  <1>3. \A s : Latest(from, to, t, s) = {r \in usable(s) : \A q \in usable(s) : q.at <= r.at}
    BY DEF Latest
  <1> HIDE DEF usable
  <1> QED BY <1>2, <1>3

\* Nor do they change what it converts to.
LEMMA ConvertedStands ==
    ASSUME NEW table, NEW more, table \subseteq more, NEW t \in 0..MaxDate,
           \A r \in more \ table : r.at > t,
           \A r \in more : r.at \in 0..MaxDate,
           NEW a, NEW from, NEW to
    PROVE  Converted(a, from, to, t, more) = Converted(a, from, to, t, table)
  <1>1. \A x, y : Latest(x, y, t, more) = Latest(x, y, t, table)
    BY LatestStands
  <1>2. \A x, y : DirectOrInverse(x, y, t, more) = DirectOrInverse(x, y, t, table)
    BY <1>1 DEF DirectOrInverse
  <1>3. ThroughUah(from, to, t, more) = ThroughUah(from, to, t, table)
    BY <1>2 DEF ThroughUah
  <1>4. RateFor(from, to, t, more) = RateFor(from, to, t, table)
    BY <1>1, <1>3 DEF RateFor
  <1> QED BY <1>4 DEF Converted

RatesDated == \A r \in rates : r.at \in 0..MaxDate

\* Synchronizing only adds rates.
LEMMA RatesAdded ==
    ASSUME [ConversionNext]_rateVars
    PROVE  /\ rates \subseteq rates'
           /\ \A r \in rates' \ rates : r.at \in 0..MaxDate
  <1>1. ASSUME NEW offers, offers \subseteq [from : Currencies, to : Currencies, at : 0..MaxDate,
                                            quote : Quotes],
               SynchronizeRates(offers)
        PROVE  rates \subseteq rates' /\ \A r \in rates' \ rates : r.at \in 0..MaxDate
    BY <1>1 DEF SynchronizeRates, StoredRows, Row
  <1>2. CASE SynchronizeRatesFails
    BY <1>2 DEF SynchronizeRatesFails
  <1>3. CASE \E o \in Offers : SynchronizeRates({o})
    BY <1>1, <1>3 DEF Offers
  <1>4. ASSUME NEW o \in Offers, NEW from \in Currencies, NEW to \in Currencies,
               SynchronizeRates({o, [o EXCEPT !.from = from, !.to = to]})
        PROVE  rates \subseteq rates' /\ \A r \in rates' \ rates : r.at \in 0..MaxDate
    <2>1. [o EXCEPT !.from = from, !.to = to] \in [from : Currencies, to : Currencies,
                                                   at : 0..MaxDate, quote : Quotes]
      BY DEF Offers
    <2> QED BY <1>1, <1>4, <2>1 DEF Offers
  <1>5. CASE UNCHANGED rateVars
    BY <1>5 DEF rateVars
  <1> QED BY <1>2, <1>3, <1>4, <1>5 DEF ConversionNext

\* Whatever rates are synchronized, none that is stored changes, and an amount of the past
\* converts as it did before rates of after it came.
THEOREM PastConversionsStand == ConversionSpec => HistoryStands
  <1> DEFINE Stand == rates' # rates /\ rates \subseteq rates' =>
         \A from, to \in Currencies, t \in 0..MaxDate, a \in Amounts :
            (\A r \in rates' \ rates : r.at > t)
               => Converted(a, from, to, t, rates') = Converted(a, from, to, t, rates)
             Stay == rates \subseteq rates'
  <1>1. ConversionInit => RatesDated
    BY DEF ConversionInit, RatesDated
  <1>2. RatesDated /\ [ConversionNext]_rateVars => RatesDated'
    BY RatesAdded DEF RatesDated
  <1>3. RatesDated /\ RatesDated' /\ [ConversionNext]_rateVars => [Stand]_rateVars
    BY ConvertedStands DEF RatesDated
  <1>4. [ConversionNext]_rateVars => [Stay]_rateVars
    BY RatesAdded
  <1>5. PastTotalsStand <=> [][Stand]_rateVars
    BY DEF PastTotalsStand
  <1>6. StoredRatesStay <=> [][Stay]_rateVars
    BY DEF StoredRatesStay
  <1> HIDE DEF Stand, Stay
  <1> QED BY <1>1, <1>2, <1>3, <1>4, <1>5, <1>6, PTL DEF ConversionSpec, HistoryStands
-----------------------------------------------------------------------------
\* What is kept: the filters are of a valid request, the figures of corrections.
FiguresTyped ==
    figures \in [{t.id : t \in Ledger} ->
                    [value : Values, excluded : BOOLEAN, compensated : Values]]

AnalyticsKept ==
    /\ filters \in {NoRequestYet} \cup
           [accounts : SUBSET {t.account : t \in Ledger}, base : Bases,
            period : {p \in Periods : ValidPeriod(p)}]
    /\ FiguresTyped

\* It is kept: at first, by every step, always.
LEMMA AnalyticsAtFirst == AnalyticsInit => AnalyticsKept
<1> SUFFICES ASSUME AnalyticsInit PROVE AnalyticsKept
  OBVIOUS
<1>1. Max(Values) \in Values /\ Min(Values) \in Values
  <2>1. IsFiniteSet(Values) /\ Values # {} /\ Values \subseteq Int
    BY AnalyticsAssumption
  <2> QED BY <2>1, MaxIs, MinIs
<1>2. Untouched \in [value : Values, excluded : BOOLEAN, compensated : Values]
  BY <1>1 DEF Untouched
<1>3. FiguresTyped
  BY <1>2 DEF AnalyticsInit, FiguresTyped
<1> QED BY <1>3 DEF AnalyticsInit, AnalyticsKept

LEMMA AnalyticsKeeps == AnalyticsKept /\ [AnalyticsNext]_analyticsVars => AnalyticsKept'
<1> SUFFICES ASSUME AnalyticsKept, [AnalyticsNext]_analyticsVars PROVE AnalyticsKept'
  OBVIOUS
<1>1. CASE Request
  <2>1. FiguresTyped'
    BY <1>1 DEF Request, AnalyticsKept, FiguresTyped
  <2> QED BY <1>1, <2>1 DEF Request, AnalyticsKept
<1>2. ASSUME NEW t \in Ledger, Correct(t)
      PROVE  AnalyticsKept'
  <2>1. FiguresTyped'
    BY <1>2 DEF Correct, AnalyticsKept, FiguresTyped
  <2> QED BY <1>2, <2>1 DEF Correct, AnalyticsKept
<1>3. CASE UNCHANGED analyticsVars
  BY <1>3 DEF analyticsVars, AnalyticsKept, FiguresTyped
<1> QED BY <1>1, <1>2, <1>3 DEF AnalyticsNext

LEMMA AnalyticsHolds == AnalyticsSpec => []AnalyticsKept
BY AnalyticsAtFirst, AnalyticsKeeps, PTL DEF AnalyticsSpec

\* The period of a request is in order and not too long; at first it is empty.
LEMMA PeriodIs ==
    ASSUME AnalyticsKept
    PROVE  /\ filters.period.from \in Nat /\ filters.period.to \in Nat
           /\ filters.period.from <= filters.period.to
           /\ filters.period.to - filters.period.from <= MaxPeriod * Day
<1>1. MaxPeriod * Day \in Nat
  BY AnalyticsAssumption
<1>2. CASE filters = NoRequestYet
  BY <1>1, <1>2 DEF NoRequestYet
<1>3. CASE filters.period \in Periods /\ ValidPeriod(filters.period)
  BY <1>3, AnalyticsAssumption DEF ValidPeriod
<1> QED BY <1>2, <1>3 DEF AnalyticsKept

\* The type invariant of the run.
LEMMA AnalyticsTyped == ASSUME AnalyticsKept PROVE AnalyticsTypeInvariant
<1>1. filters.period.to - filters.period.from \in 0..(MaxPeriod * Day)
  <2>1. MaxPeriod * Day \in Nat
    BY AnalyticsAssumption
  <2> QED BY <2>1, PeriodIs
<1> QED BY <1>1 DEF AnalyticsKept, FiguresTyped, AnalyticsTypeInvariant

\* What a transaction counts for is a natural number.
LEMMA FigureIs ==
    ASSUME AnalyticsKept, NEW t \in Ledger
    PROVE  /\ figures[t.id].value \in Nat /\ figures[t.id].compensated \in Nat
           /\ figures[t.id].excluded \in BOOLEAN
<1>1. figures[t.id] \in [value : Values, excluded : BOOLEAN, compensated : Values]
  BY DEF AnalyticsKept, FiguresTyped
<1>2. Values \subseteq Nat
  BY AnalyticsAssumption
<1> QED BY <1>1, <1>2
-----------------------------------------------------------------------------
\* The rates that are listed are the ones a conversion looks for.
LEMMA LatestListed ==
    ASSUME NEW codes, NEW dateTo, dateTo \in Int, NEW from, NEW to, from \in codes \/ to \in codes,
           NEW at, at \in Int, at <= dateTo
    PROVE  Latest(from, to, at, ListedRates(codes, dateTo)) = Latest(from, to, at, RateTable)
<1> DEFINE T == ListedRates(codes, dateTo)
           U == {r \in RateTable : r.from = from /\ r.to = to /\ r.at <= at}
           V == {r \in T : r.from = from /\ r.to = to /\ r.at <= at}
<1>1. U = V
  <2>1. \A r \in RateTable : r.at \in Int
    BY AnalyticsAssumption
  <2> QED BY <2>1 DEF ListedRates
<1>2. /\ Latest(from, to, at, RateTable) = {r \in U : \A q \in U : q.at <= r.at}
      /\ Latest(from, to, at, T) = {r \in V : \A q \in V : q.at <= r.at}
  BY DEF Latest
<1> QED BY <1>1, <1>2, Zenon

\* A table listed for a group converts its members as the whole table does.
LEMMA RatesSuffice ==
    ASSUME NEW G, G \subseteq Ledger, NEW t \in G
    PROVE  InBase(t, RatesOf(G)) = InBase(t, RateTable)
<1> DEFINE codes == {u.currency : u \in G} \cup {filters.base}
           times == {u.at : u \in G} \cup {0}
           last == Max(times)
           T == ListedRates(codes, last)
<1>1. t.currency \in codes /\ filters.base \in codes
  OBVIOUS
<1>2. t.at \in Int /\ last \in Int /\ t.at <= last
  <2>1. IsFiniteSet(G)
    BY AnalyticsAssumption, FS_Subset
  <2> DEFINE f == [u \in Ledger |-> u.at]
  <2>2. {f[u] : u \in G} = {u.at : u \in G}
    OBVIOUS
  <2> HIDE DEF f
  <2>3. IsFiniteSet({u.at : u \in G})
    BY <2>1, <2>2, ImageFinite
  <2>4. IsFiniteSet(times) /\ times # {} /\ t.at \in times
    BY <2>3, FS_AddElement
  <2>5. times \subseteq Int
    BY AnalyticsAssumption
  <2> HIDE DEF times
  <2> QED BY <2>4, <2>5, MaxIs
<1> HIDE DEF codes, last
<1>3. ASSUME NEW from, NEW to, from \in codes \/ to \in codes
      PROVE  Latest(from, to, t.at, T) = Latest(from, to, t.at, RateTable)
  BY <1>2, <1>3, LatestListed
<1> HIDE DEF T
<1>4. ASSUME NEW from, NEW to, from \in codes \/ to \in codes
      PROVE  DirectOrInverse(from, to, t.at, T) = DirectOrInverse(from, to, t.at, RateTable)
  <2>1. Latest(from, to, t.at, T) = Latest(from, to, t.at, RateTable)
    BY <1>3, <1>4
  <2>2. Latest(to, from, t.at, T) = Latest(to, from, t.at, RateTable)
    BY <1>3, <1>4
  <2> QED BY <2>1, <2>2 DEF DirectOrInverse
<1>5. ThroughUah(t.currency, filters.base, t.at, T)
        = ThroughUah(t.currency, filters.base, t.at, RateTable)
  <2>1. DirectOrInverse(t.currency, "UAH", t.at, T)
          = DirectOrInverse(t.currency, "UAH", t.at, RateTable)
    BY <1>1, <1>4
  <2>2. DirectOrInverse("UAH", filters.base, t.at, T)
          = DirectOrInverse("UAH", filters.base, t.at, RateTable)
    BY <1>1, <1>4
  <2> DEFINE Through(A, B) ==
               {[num |-> a.num * b.num, den |-> a.den * b.den] : a \in A, b \in B}
  <2>3. ASSUME NEW table
        PROVE  ThroughUah(t.currency, filters.base, t.at, table) =
                 Through(DirectOrInverse(t.currency, "UAH", t.at, table),
                         DirectOrInverse("UAH", filters.base, t.at, table))
    BY DEF ThroughUah
  <2> HIDE DEF Through
  <2> QED BY <2>1, <2>2, <2>3
<1>6. RateFor(t.currency, filters.base, t.at, T)
        = RateFor(t.currency, filters.base, t.at, RateTable)
  <2>1. Latest(t.currency, filters.base, t.at, T)
          = Latest(t.currency, filters.base, t.at, RateTable)
    BY <1>1, <1>3
  <2> QED BY <1>5, <2>1 DEF RateFor
<1>7. InBase(t, T) = InBase(t, RateTable)
  BY <1>6, Zenon DEF InBase
<1>8. T = RatesOf(G)
  BY DEF T, codes, last, RatesOf
<1> QED BY <1>7, <1>8

\* Listed rates are rates.
LEMMA RatesAreRows == ASSUME NEW G PROVE RatesOf(G) \subseteq RateTable
BY DEF RatesOf, ListedRates

\* A figure counts the same transactions in every report of a dashboard.
LEMMA SameItems ==
    ASSUME NEW G, G \subseteq Ledger, NEW H, H \subseteq G, NEW e
    PROVE  Counted(H, RatesOf(G), e) = Counted(H, RateTable, e)
<1>1. \A t \in H : InBase(t, RatesOf(G)) = InBase(t, RateTable)
  BY RatesSuffice
<1> QED BY <1>1 DEF Counted

\* The transactions of a period are transactions.
LEMMA GroupsAreRows ==
    ASSUME NEW from, NEW to PROVE Resolved(from, to) \subseteq Ledger
BY DEF Resolved
-----------------------------------------------------------------------------
\* Rates are positive, and there is at most one.
PositiveRate(r) == r.num \in Nat \ {0} /\ r.den \in Nat \ {0}
AtMostOne(R) == R = {} \/ \E r : R = {r} /\ PositiveRate(r)

\* Rates are positive, and so are their inverses.
LEMMA RatioIsPositive ==
    ASSUME NEW R, R \subseteq RateTable, R # {}
    PROVE  PositiveRate(Ratio(R)) /\ PositiveRate(Inverted(Ratio(R)))
<1> DEFINE r == CHOOSE x \in R : TRUE
<1>1. r \in RateTable
  OBVIOUS
<1>2. Ratio(R) = [num |-> r.num, den |-> r.den]
  BY DEF Ratio
<1> HIDE DEF r
<1>3. r.num \in Nat \ {0} /\ r.den \in Nat \ {0}
  BY <1>1, AnalyticsAssumption
<1> QED BY <1>2, <1>3 DEF PositiveRate, Inverted

\* The latest rates are rates.
LEMMA LatestIsRow ==
    ASSUME NEW table, table \subseteq RateTable, NEW from, NEW to, NEW at
    PROVE  Latest(from, to, at, table) \subseteq RateTable
BY DEF Latest

\* The rate of a currency to itself.
LEMMA OneIsPositive == PositiveRate(One)
BY DEF One, PositiveRate

\* There is at most one direct or inverse rate at a time, and it is positive.
LEMMA DirectIsOne ==
    ASSUME NEW table, table \subseteq RateTable, NEW from, NEW to, NEW at
    PROVE  AtMostOne(DirectOrInverse(from, to, at, table))
<1>1. Latest(from, to, at, table) # {} => PositiveRate(Ratio(Latest(from, to, at, table)))
  BY LatestIsRow, RatioIsPositive
<1>2. Latest(to, from, at, table) # {} => PositiveRate(Inverted(Ratio(Latest(to, from, at, table))))
  BY LatestIsRow, RatioIsPositive
<1> QED BY <1>1, <1>2, OneIsPositive DEF DirectOrInverse, AtMostOne

\* There is at most one rate to convert with, and it is positive.
LEMMA RateIsOne ==
    ASSUME NEW table, table \subseteq RateTable, NEW from, NEW to, NEW at
    PROVE  AtMostOne(RateFor(from, to, at, table))
<1>1. Latest(from, to, at, table) # {} => PositiveRate(Ratio(Latest(from, to, at, table)))
  BY LatestIsRow, RatioIsPositive
<1>2. AtMostOne(ThroughUah(from, to, at, table))
  <2> DEFINE A == DirectOrInverse(from, "UAH", at, table)
             B == DirectOrInverse("UAH", to, at, table)
  <2>1. AtMostOne(A) /\ AtMostOne(B)
    BY DirectIsOne
  <2>2. ThroughUah(from, to, at, table) =
          {[num |-> a.num * b.num, den |-> a.den * b.den] : a \in A, b \in B}
    BY DEF ThroughUah
  <2> HIDE DEF A, B
  <2>3. CASE A = {} \/ B = {}
    BY <2>2, <2>3 DEF AtMostOne
  <2>4. ASSUME NEW a, NEW b, A = {a}, B = {b}, PositiveRate(a), PositiveRate(b)
        PROVE  AtMostOne(ThroughUah(from, to, at, table))
    <3> DEFINE c == [num |-> a.num * b.num, den |-> a.den * b.den]
    <3>1. ThroughUah(from, to, at, table) = {c}
      BY <2>2, <2>4
    <3>2. \A x, y \in Nat \ {0} : x * y \in Nat \ {0}
      OBVIOUS
    <3>3. PositiveRate(c)
      BY <2>4, <3>2 DEF PositiveRate
    <3> QED BY <3>1, <3>3 DEF AtMostOne
  <2> QED BY <2>1, <2>3, <2>4 DEF AtMostOne
<1> QED BY <1>1, <1>2, OneIsPositive DEF RateFor, AtMostOne

\* A converted natural number is natural.
LEMMA ConvertedIsNatural ==
    ASSUME NEW v, v \in Nat, NEW r, PositiveRate(r)
    PROVE  MultiplyAndRound(v, r) \in Nat
<1> DEFINE d == r.den
           n == v * r.num + d \div 2
<1>1. d \in Nat /\ d > 0 /\ r.num \in Nat
  BY DEF PositiveRate
<1>2. v * r.num \in Nat /\ d \div 2 \in Nat
  BY <1>1
<1>3. n \in Nat
  BY <1>2
<1>4. MultiplyAndRound(v, r) = n \div d
  BY <1>1 DEF MultiplyAndRound, Magnitude
<1> HIDE DEF n, d
<1>5. n \div d \in Nat
  BY <1>1, <1>3, RemainderOf
<1> QED BY <1>4, <1>5
-----------------------------------------------------------------------------
\* What the reports add up.
Countable(X) ==
    /\ IsFiniteSet(X)
    /\ \A i \in X : /\ i.value \in Nat /\ i.compensated \in Nat
                    /\ i.at \in Nat /\ i.at \in {t.at : t \in Ledger}
                    /\ i.direction \in {"expense", "income"} /\ i.currency \in ReportCurrencies

\* A part of countable items is countable.
LEMMA PartIsCountable ==
    ASSUME NEW X, Countable(X), NEW P, P \subseteq X
    PROVE  Countable(P)
BY FS_Subset DEF Countable

\* A transaction becomes at most one item, with what it had.
ItemOf(i, t) ==
    /\ i.id = t.id /\ i.account = t.account /\ i.category = t.category
    /\ i.merchant = t.merchant /\ i.direction = t.direction /\ i.at = t.at

\* A transaction becomes finitely many items with its fields.
LEMMA InBaseIs ==
    ASSUME AnalyticsKept, NEW table, table \subseteq RateTable, NEW t, t \in Ledger
    PROVE  /\ IsFiniteSet(InBase(t, table))
           /\ \A i \in InBase(t, table) :
                 /\ ItemOf(i, t) /\ i.value \in Nat /\ i.compensated \in Nat
                 /\ i.currency \in ReportCurrencies
<1> DEFINE f == figures[t.id]
           R == RateFor(t.currency, filters.base, t.at, table)
           C(r) == Item(t, MultiplyAndRound(f.value, r), MultiplyAndRound(f.compensated, r),
                        filters.base)
<1>1. f.value \in Nat /\ f.compensated \in Nat
  BY FigureIs
<1>2. CASE filters.base = "original"
  <2> DEFINE i == Item(t, f.value, f.compensated, t.currency)
  <2>1. InBase(t, table) = {i}
    BY <1>2 DEF InBase
  <2>2. ItemOf(i, t) /\ i.value = f.value /\ i.compensated = f.compensated
        /\ i.currency = t.currency
    BY DEF Item, ItemOf
  <2>3. t.currency \in ReportCurrencies
    BY DEF ReportCurrencies
  <2> HIDE DEF i, f
  <2> QED BY <1>1, <2>1, <2>2, <2>3, FS_Singleton
<1>3. CASE filters.base # "original"
  <2>1. InBase(t, table) = {C(r) : r \in R}
    BY <1>3 DEF InBase
  <2>2. AtMostOne(R)
    BY RateIsOne
  <2>3. ASSUME NEW r, R = {r}, PositiveRate(r)
        PROVE  /\ InBase(t, table) = {C(r)} /\ ItemOf(C(r), t)
               /\ C(r).value \in Nat /\ C(r).compensated \in Nat
               /\ C(r).currency = filters.base
    <3>1. MultiplyAndRound(f.value, r) \in Nat /\ MultiplyAndRound(f.compensated, r) \in Nat
      BY <1>1, <2>3, ConvertedIsNatural
    <3> HIDE DEF f, R
    <3>2. InBase(t, table) = {C(r)}
      BY <2>1, <2>3
    <3> QED BY <3>1, <3>2 DEF Item, ItemOf
  <2>4. filters.base \in ReportCurrencies
    BY <1>3 DEF AnalyticsKept, NoRequestYet, ReportCurrencies
  <2> HIDE DEF C, R
  <2>5. CASE R = {}
    BY <2>1, <2>5, FS_EmptySet
  <2>6. CASE \E r : R = {r} /\ PositiveRate(r)
    <3>1. PICK r : R = {r} /\ PositiveRate(r)
      BY <2>6
    <3> DEFINE i == C(r)
    <3>2. /\ InBase(t, table) = {i} /\ ItemOf(i, t)
          /\ i.value \in Nat /\ i.compensated \in Nat /\ i.currency = filters.base
      BY <2>3, <3>1, Zenon
    <3> HIDE DEF i
    <3>3. IsFiniteSet({i}) /\ i.currency \in ReportCurrencies
      BY <2>4, <3>2, FS_Singleton
    <3> QED BY <3>2, <3>3, Zenon
  <2> QED BY <2>2, <2>5, <2>6 DEF AtMostOne
<1> QED BY <1>2, <1>3

\* The items of a group can be added up.
LEMMA ItemsCount ==
    ASSUME AnalyticsKept, NEW table, table \subseteq RateTable, NEW G, G \subseteq Ledger, NEW e
    PROVE  Countable(Counted(G, table, e))
<1> DEFINE U == {u \in G : figures[u.id].excluded = e}
           f == [t \in Ledger |-> InBase(t, table)]
<1>1. \A t \in U : t \in Ledger
  OBVIOUS
<1>2. Counted(G, table, e) = UNION {f[t] : t \in U}
  BY <1>1 DEF Counted
<1>3. \A t \in U : f[t] = InBase(t, table)
  BY <1>1
<1>4. IsFiniteSet(U)
  BY AnalyticsAssumption, FS_Subset
<1> HIDE DEF U, f
<1>5. IsFiniteSet({f[t] : t \in U})
  BY <1>4, ImageFinite
<1>6. \A T \in {f[t] : t \in U} : IsFiniteSet(T)
  BY <1>1, <1>3, InBaseIs
<1>7. IsFiniteSet(Counted(G, table, e))
  BY <1>2, <1>5, <1>6, FS_UNION
<1>8. ASSUME NEW i \in Counted(G, table, e)
      PROVE  /\ i.value \in Nat /\ i.compensated \in Nat
             /\ i.at \in Nat /\ i.at \in {t.at : t \in Ledger}
             /\ i.direction \in {"expense", "income"} /\ i.currency \in ReportCurrencies
  <2>1. PICK t \in U : i \in InBase(t, table)
    BY <1>2, <1>3
  <2>2. t \in Ledger
    BY <1>1
  <2>3. ItemOf(i, t) /\ i.value \in Nat /\ i.compensated \in Nat /\ i.currency \in ReportCurrencies
    BY <2>1, <2>2, InBaseIs
  <2>4. t.at \in Nat /\ t.direction \in {"expense", "income"}
    BY <2>2, AnalyticsAssumption
  <2> QED BY <2>2, <2>3, <2>4 DEF ItemOf
<1> QED BY <1>7, <1>8 DEF Countable
-----------------------------------------------------------------------------
\* Sums of values, amounts and points as sums of one function.
Worth(X) == [i \in X |-> i.value]
AmountOf(R) == [r \in R |-> r.amount]
ExpenseOf(P) == [p \in P |-> p.expense]
IncomeOf(P) == [p \in P |-> p.income]

\* The four kinds of sums are sums of a function.
LEMMA ValueSum ==
    ASSUME NEW X, IsFiniteSet(X), NEW S, S \subseteq X
    PROVE  SumOver(Value, S) = SumOf(Worth(X), S)
<1> DEFINE w == [i \in S |-> i.value]
<1>1. SumOver(Value, S) = SumFunction(w)
  BY DEF SumOver, Value
<1>2. DOMAIN w = S /\ IsFiniteSet(S) /\ \A i \in S : w[i] = Worth(X)[i]
  BY FS_Subset DEF Worth
<1> HIDE DEF w
<1>3. SumFunction(w) = SumOf(w, S)
  BY <1>2, SumIs
<1>4. SumOf(w, S) = SumOf(Worth(X), S)
  BY <1>2, SumSame
<1> QED BY <1>1, <1>3, <1>4

LEMMA AmountSum ==
    ASSUME NEW R, IsFiniteSet(R), NEW S, S \subseteq R
    PROVE  SumOver(RowAmount, S) = SumOf(AmountOf(R), S)
<1> DEFINE w == [r \in S |-> r.amount]
<1>1. SumOver(RowAmount, S) = SumFunction(w)
  BY DEF SumOver, RowAmount
<1>2. DOMAIN w = S /\ IsFiniteSet(S) /\ \A r \in S : w[r] = AmountOf(R)[r]
  BY FS_Subset DEF AmountOf
<1> HIDE DEF w
<1>3. SumFunction(w) = SumOf(w, S)
  BY <1>2, SumIs
<1>4. SumOf(w, S) = SumOf(AmountOf(R), S)
  BY <1>2, SumSame
<1> QED BY <1>1, <1>3, <1>4

LEMMA ExpenseSum ==
    ASSUME NEW P, IsFiniteSet(P)
    PROVE  SumOver(LAMBDA p : p.expense, P) = SumOf(ExpenseOf(P), P)
<1>1. SumOver(LAMBDA p : p.expense, P) = SumFunction(ExpenseOf(P))
  BY DEF SumOver, ExpenseOf
<1>2. DOMAIN ExpenseOf(P) = P
  BY DEF ExpenseOf
<1> QED BY <1>1, <1>2, SumIs

LEMMA IncomeSum ==
    ASSUME NEW P, IsFiniteSet(P)
    PROVE  SumOver(LAMBDA p : p.income, P) = SumOf(IncomeOf(P), P)
<1>1. SumOver(LAMBDA p : p.income, P) = SumFunction(IncomeOf(P))
  BY DEF SumOver, IncomeOf
<1>2. DOMAIN IncomeOf(P) = P
  BY DEF IncomeOf
<1> QED BY <1>1, <1>2, SumIs

\* A sum of values is natural.
LEMMA ValueIsNatural ==
    ASSUME NEW X, Countable(X), NEW S, S \subseteq X
    PROVE  SumOver(Value, S) \in Nat
<1>1. IsFiniteSet(X) /\ IsFiniteSet(S) /\ \A i \in S : Worth(X)[i] \in Nat
  BY FS_Subset DEF Countable, Worth
<1>2. SumOver(Value, S) = SumOf(Worth(X), S)
  BY <1>1, ValueSum
<1> QED BY <1>1, <1>2, SumIsNatural

PartOf(X, key, r) == {i \in X : key[i] = r}

\* Rows r that each have the value of their part of X have the value of X.
LEMMA RowsHaveValue ==
    ASSUME NEW X, Countable(X), NEW R, IsFiniteSet(R), NEW key, key \in [X -> R], NEW v,
           \A r \in R : v[r] = SumOver(Value, PartOf(X, key, r))
    PROVE  SumOf(v, R) = SumOver(Value, X)
<1>1. IsFiniteSet(X) /\ \A i \in X : Worth(X)[i] \in Int
  BY DEF Countable, Worth
<1>2. \A r \in R : v[r] = SumOfKey(Worth(X), X, key, r)
  BY <1>1, ValueSum DEF SumOfKey, PartOf
<1>3. SumOf(v, R) = SumOf(Worth(X), X)
  BY <1>1, <1>2, RowsAddUp
<1>4. SumOver(Value, X) = SumOf(Worth(X), X)
  BY <1>1, ValueSum
<1> QED BY <1>3, <1>4
-----------------------------------------------------------------------------
\* One row for each value of a field.
GroupRow(X, field, k, c) ==
    [key |-> k, currency |-> c,
     amount |-> SumOver(Value, {i \in X : i[field] = k /\ i.currency = c})]

\* The rows of a breakdown, one for each pair of a value and a currency.
LEMMA GroupRows ==
    ASSUME NEW X, NEW field
    PROVE  GroupAmounts(X, field) = {GroupRow(X, field, i[field], i.currency) : i \in X}
<1> DEFINE keys == {<<i[field], i.currency>> : i \in X}
<1>1. GroupAmounts(X, field) = {GroupRow(X, field, g[1], g[2]) : g \in keys}
  BY DEF GroupAmounts, GroupRow
<1>2. ASSUME NEW r \in GroupAmounts(X, field)
      PROVE  \E i \in X : r = GroupRow(X, field, i[field], i.currency)
  <2>1. PICK g \in keys : r = GroupRow(X, field, g[1], g[2])
    BY <1>1
  <2>2. PICK i \in X : g = <<i[field], i.currency>>
    OBVIOUS
  <2>3. g[1] = i[field] /\ g[2] = i.currency
    BY <2>2
  <2> QED BY <2>1, <2>3
<1>3. ASSUME NEW i \in X
      PROVE  GroupRow(X, field, i[field], i.currency) \in GroupAmounts(X, field)
  <2> DEFINE g == <<i[field], i.currency>>
  <2>1. g \in keys /\ g[1] = i[field] /\ g[2] = i.currency
    OBVIOUS
  <2> HIDE DEF g, keys
  <2> QED BY <1>1, <2>1
<1> QED BY <1>2, <1>3

\* The rows of a breakdown in a currency add up to its items.
LEMMA GroupsAddUp ==
    ASSUME NEW X, Countable(X), NEW field, NEW c
    PROVE  /\ IsFiniteSet({r \in GroupAmounts(X, field) : r.currency = c})
           /\ AmountIn(GroupAmounts(X, field), c) = SumOver(Value, Of(c, X))
<1> DEFINE Y == Of(c, X)
           R == {r \in GroupAmounts(X, field) : r.currency = c}
           key == [i \in Y |-> GroupRow(X, field, i[field], c)]
<1>1. Countable(Y) /\ IsFiniteSet(Y) /\ \A i \in Y : i \in X /\ i.currency = c
  BY PartIsCountable DEF Of, Countable
<1>2. ASSUME NEW k, NEW d
      PROVE  GroupRow(X, field, k, d).currency = d /\ GroupRow(X, field, k, d).key = k
  BY DEF GroupRow
<1>3. R = {key[i] : i \in Y}
  <2>1. ASSUME NEW i \in Y PROVE key[i] \in R
    BY <1>1, <1>2, <2>1, GroupRows
  <2>2. ASSUME NEW r \in R PROVE \E i \in Y : r = key[i]
    <3>1. PICK i \in X : r = GroupRow(X, field, i[field], i.currency)
      BY GroupRows
    <3>2. i.currency = c
      BY <1>2, <3>1
    <3> QED BY <3>1, <3>2 DEF Of
  <2> QED BY <2>1, <2>2
<1>4. key \in [Y -> R]
  BY <1>3
<1>5. ASSUME NEW r \in R
      PROVE  AmountOf(R)[r] = SumOver(Value, PartOf(Y, key, r))
  <2>1. PICK j \in Y : r = GroupRow(X, field, j[field], c)
    BY <1>3
  <2>2. PartOf(Y, key, r) = {i \in X : i[field] = j[field] /\ i.currency = c}
    <3>1. ASSUME NEW i \in Y PROVE key[i] = r <=> i[field] = j[field]
      BY <1>2, <2>1
    <3> QED BY <1>1, <3>1 DEF Of, PartOf
  <2>3. AmountOf(R)[r] = r.amount
    BY DEF AmountOf
  <2>4. r.amount = SumOver(Value, {i \in X : i[field] = j[field] /\ i.currency = c})
    BY <2>1 DEF GroupRow
  <2> HIDE DEF key, R, Y
  <2> QED BY <2>2, <2>3, <2>4
<1> HIDE DEF R, key
<1>6. IsFiniteSet(R)
  BY <1>1, <1>3, ImageFinite
<1>7. SumOf(AmountOf(R), R) = SumOver(Value, Y)
  BY <1>1, <1>4, <1>5, <1>6, RowsHaveValue
<1>8. AmountIn(GroupAmounts(X, field), c) = SumOver(RowAmount, R)
  BY DEF AmountIn, R
<1>9. SumOver(RowAmount, R) = SumOf(AmountOf(R), R)
  BY <1>6, AmountSum
<1> QED BY <1>6, <1>7, <1>8, <1>9 DEF R

-----------------------------------------------------------------------------
\* The k first rows by f and, among equals, by g.
Tops(R, f, g, k, top) ==
    /\ top \subseteq R /\ Cardinality(top) = k
    /\ \A r \in top, q \in R \ top : f[r] > f[q] \/ (f[r] = f[q] /\ g[r] >= g[q])

\* Of finitely many rows one is the first.
LEMMA FirstExists ==
    ASSUME NEW R, IsFiniteSet(R), R # {}, NEW f, NEW g, \A r \in R : f[r] \in Nat /\ g[r] \in Nat
    PROVE  \E x \in R : \A q \in R : f[x] > f[q] \/ (f[x] = f[q] /\ g[x] >= g[q])
<1>1. PICK x \in R : \A q \in R : f[x] >= f[q]
  <2>1. \A r \in R : f[r] \in Int
    OBVIOUS
  <2> QED BY <2>1, LargestExists
<1> DEFINE S == {r \in R : f[r] = f[x]}
<1>2. IsFiniteSet(S) /\ S # {} /\ \A r \in S : g[r] \in Int
  BY FS_Subset
<1>3. PICK y \in S : \A q \in S : g[y] >= g[q]
  <2> HIDE DEF S
  <2> QED BY <1>2, LargestExists
<1>4. ASSUME NEW q \in R PROVE f[y] > f[q] \/ (f[y] = f[q] /\ g[y] >= g[q])
  <2>1. f[y] = f[x] /\ f[x] >= f[q] /\ f[x] \in Nat /\ f[q] \in Nat
    BY <1>1
  <2>2. f[q] = f[x] => g[y] >= g[q]
    BY <1>3
  <2> QED BY <2>1, <2>2
<1> QED BY <1>4

\* Of finitely many rows there are k first: the first of the rest is added to k - 1.
LEMMA TopExists ==
    ASSUME NEW R, IsFiniteSet(R), NEW f, NEW g, \A r \in R : f[r] \in Nat /\ g[r] \in Nat,
           NEW k, k \in 0..Cardinality(R)
    PROVE  \E top : Tops(R, f, g, k, top)
<1> DEFINE n == Cardinality(R)
           Bad == {i \in 0..n : ~\E top : Tops(R, f, g, i, top)}
<1>1. n \in Nat
  BY FS_CardinalityType
<1>2. SUFFICES ASSUME Bad # {} PROVE FALSE
  OBVIOUS
<1>3. \E p \in Bad : \A t \in Bad : p <= t
  <2>1. Bad \subseteq 0..n
    OBVIOUS
  <2> HIDE DEF Bad, n
  <2> QED BY <1>1, <1>2, <2>1, LeastExists
<1>4. PICK p \in Bad : \A t \in Bad : p <= t
  BY <1>3
<1>5. p \in 0..n /\ ~\E top : Tops(R, f, g, p, top)
  OBVIOUS
<1>6. p # 0
  <2>1. Tops(R, f, g, 0, {})
    BY FS_EmptySet DEF Tops
  <2> QED BY <1>5, <2>1
<1>7. p - 1 \in 0..n /\ p - 1 \notin Bad
  BY <1>1, <1>4, <1>5, <1>6
<1>8. PICK T : Tops(R, f, g, p - 1, T)
  BY <1>7
<1> DEFINE Rest == R \ T
<1>9. T \subseteq R /\ IsFiniteSet(T) /\ Cardinality(T) = p - 1
      /\ \A r \in T, q \in Rest : f[r] > f[q] \/ (f[r] = f[q] /\ g[r] >= g[q])
  BY <1>8, FS_Subset DEF Tops
<1>10. IsFiniteSet(Rest) /\ Rest # {} /\ \A r \in Rest : f[r] \in Nat /\ g[r] \in Nat
  <2>1. IsFiniteSet(Rest)
    BY FS_Difference
  <2>2. Rest = {} => T = R
    BY <1>9
  <2>3. Cardinality(T) # Cardinality(R)
    BY <1>1, <1>5, <1>9
  <2> QED BY <2>1, <2>2, <2>3
<1>11. PICK x \in Rest : \A q \in Rest : f[x] > f[q] \/ (f[x] = f[q] /\ g[x] >= g[q])
  <2> HIDE DEF Rest
  <2> QED BY <1>10, FirstExists
<1>12. x \in R /\ x \notin T
  OBVIOUS
<1>13. Cardinality(T \cup {x}) = p
  <2>1. Cardinality(T \cup {x}) = Cardinality(T) + 1
    BY <1>9, <1>12, FS_AddElement
  <2> QED BY <1>5, <1>9, <2>1
<1>14. Tops(R, f, g, p, T \cup {x})
  BY <1>9, <1>11, <1>12, <1>13 DEF Tops
<1> QED BY <1>5, <1>14

\* The smaller of two numbers.
LEMMA MinOfTwo ==
    ASSUME NEW a \in Nat, NEW b \in Nat
    PROVE  /\ Min({a, b}) \in 0..a /\ Min({a, b}) \in 0..b
           /\ a <= b => Min({a, b}) = a
           /\ b <= a => Min({a, b}) = b
<1> DEFINE S == {a, b}
<1>1. IsFiniteSet({a} \cup {b}) /\ S = {a} \cup {b} /\ S # {} /\ S \subseteq Int
  <2>1. IsFiniteSet({a} \cup {b})
    BY FS_Singleton, FS_Union
  <2>2. S = {a} \cup {b} /\ S # {} /\ S \subseteq Int
    OBVIOUS
  <2> QED BY <2>1, <2>2
<1>2. Min(S) \in S /\ \A y \in S : Min(S) <= y
  <2>1. IsFiniteSet(S)
    BY <1>1
  <2> HIDE DEF S
  <2> QED BY <1>1, <2>1, MinIs
<1>3. (Min(S) = a \/ Min(S) = b) /\ Min(S) <= a /\ Min(S) <= b
  BY <1>2
<1> QED BY <1>3

\* A row of a breakdown has a natural amount.
LEMMA GroupRowsAreNatural ==
    ASSUME NEW X, Countable(X), NEW field
    PROVE  \A r \in GroupAmounts(X, field) : r.amount \in Nat
<1> SUFFICES ASSUME NEW r \in GroupAmounts(X, field) PROVE r.amount \in Nat
  OBVIOUS
<1>1. PICK i \in X : r = GroupRow(X, field, i[field], i.currency)
  BY GroupRows
<1> DEFINE S == {j \in X : j[field] = i[field] /\ j.currency = i.currency}
<1>2. r.amount = SumOver(Value, S)
  BY <1>1 DEF GroupRow
<1>3. S \subseteq X
  OBVIOUS
<1> HIDE DEF S
<1> QED BY <1>2, <1>3, ValueIsNatural

\* The merchants listed are the first of their rows.
LEMMA MerchantsAre ==
    ASSUME NEW X, Countable(X)
    PROVE  /\ IsFiniteSet(MerchantRows(X)) /\ MerchantAmounts(X) \subseteq MerchantRows(X)
           /\ Cardinality(MerchantAmounts(X)) <= MaxMerchants
           /\ Cardinality(MerchantRows(X)) <= MaxMerchants
                 => MerchantAmounts(X) = MerchantRows(X)
           /\ \A r \in MerchantAmounts(X), q \in MerchantRows(X) \ MerchantAmounts(X) :
                 r.amount >= q.amount
<1> DEFINE R == MerchantRows(X)
           n == Cardinality(R)
           k == Min({MaxMerchants, n})
           f == AmountOf(R)
           g == [r \in R |-> TransactionCount(r, X)]
<1>1. IsFiniteSet(X) /\ IsFiniteSet(R)
  <2>1. IsFiniteSet(X)
    BY DEF Countable
  <2> DEFINE key == [i \in X |-> GroupRow(X, "merchant", i["merchant"], i.currency)]
  <2>2. R = {key[i] : i \in X}
    BY GroupRows DEF MerchantRows
  <2> HIDE DEF R, key
  <2>3. key \in [X -> R]
    BY <2>2 DEF key
  <2> QED BY <2>1, <2>2, <2>3, ImageFinite
<1>2. n \in Nat /\ MaxMerchants \in Nat
  BY <1>1, FS_CardinalityType, AnalyticsAssumption
<1>3. k \in 0..n /\ k <= MaxMerchants /\ (n <= MaxMerchants => k = n)
  <2> HIDE DEF n
  <2> QED BY <1>2, MinOfTwo
<1>4. \A r \in R : f[r] = r.amount /\ r.amount \in Nat
  BY GroupRowsAreNatural DEF AmountOf, MerchantRows
<1>5. \A r \in R : g[r] = TransactionCount(r, X) /\ g[r] \in Nat
  <2> SUFFICES ASSUME NEW r \in R PROVE TransactionCount(r, X) \in Nat
    OBVIOUS
  <2>1. IsFiniteSet({i \in X : i.merchant = r.key /\ i.currency = r.currency})
    BY <1>1, FS_Subset
  <2> QED BY <2>1, FS_CardinalityType DEF TransactionCount
<1> DEFINE First(top) == /\ Cardinality(top) = k
                         /\ \A r \in top, q \in R \ top : ~Outranks(q, r, X)
<1>6. MerchantAmounts(X) = CHOOSE top \in SUBSET R : First(top)
  BY DEF MerchantAmounts
<1> HIDE DEF R, k, f, g
<1>7. PICK T : Tops(R, f, g, k, T)
  BY <1>1, <1>3, <1>4, <1>5, TopExists DEF n
<1>8. T \in SUBSET R /\ First(T)
  <2>1. ASSUME NEW r \in T, NEW q \in R \ T PROVE ~Outranks(q, r, X)
    <3>1. f[r] > f[q] \/ (f[r] = f[q] /\ g[r] >= g[q])
      BY <1>7, <2>1 DEF Tops
    <3>2. r \in R /\ q \in R
      BY <1>7, <2>1 DEF Tops
    <3> QED BY <1>4, <1>5, <3>1, <3>2 DEF Outranks
  <2> QED BY <1>7, <2>1 DEF Tops
<1> DEFINE M == MerchantAmounts(X)
<1>9. M \in SUBSET R /\ First(M)
  <2> HIDE DEF First
  <2> QED BY <1>6, <1>8
<1> HIDE DEF M
<1>10. n <= MaxMerchants => M = R
  <2>1. n <= MaxMerchants => Cardinality(M) = Cardinality(R)
    BY <1>3, <1>9 DEF n
  <2> QED BY <1>1, <1>9, <2>1, FS_Subset
<1>11. ASSUME NEW r \in M, NEW q \in R \ M PROVE r.amount >= q.amount
  <2>1. ~Outranks(q, r, X)
    BY <1>9, <1>11
  <2>2. r.amount \in Nat /\ q.amount \in Nat
    BY <1>4, <1>9, <1>11
  <2> QED BY <2>1, <2>2 DEF Outranks
<1> QED BY <1>1, <1>3, <1>9, <1>10, <1>11 DEF M, R, n

\* Some rows of a breakdown have at most the value of the items.
LEMMA PartOfRows ==
    ASSUME NEW X, Countable(X), NEW field, NEW c, NEW M, M \subseteq GroupAmounts(X, field)
    PROVE  AmountIn(M, c) <= SumOver(Value, Of(c, X))
<1> DEFINE R == {r \in GroupAmounts(X, field) : r.currency = c}
           P == {r \in M : r.currency = c}
           w == AmountOf(R)
<1>1. IsFiniteSet(R) /\ AmountIn(GroupAmounts(X, field), c) = SumOver(Value, Of(c, X))
  BY GroupsAddUp
<1>2. P \subseteq R /\ IsFiniteSet(P) /\ IsFiniteSet(R \ P) /\ R \ P \subseteq R
  BY <1>1, FS_Subset
<1>3. \A r \in R : w[r] \in Nat /\ w[r] \in Int
  BY GroupRowsAreNatural DEF AmountOf
<1>4. AmountIn(GroupAmounts(X, field), c) = SumOver(RowAmount, R) /\ AmountIn(M, c) = SumOver(RowAmount, P)
  BY DEF AmountIn
<1> HIDE DEF R, P
<1>5. SumOver(RowAmount, R) = SumOf(w, R) /\ SumOver(RowAmount, P) = SumOf(w, P)
  BY <1>1, <1>2, AmountSum
<1> HIDE DEF w
<1>6. SumOf(w, R) = SumOf(w, P) + SumOf(w, R \ P)
  BY <1>1, <1>2, <1>3, SumOfTwoParts
<1>7. SumOf(w, P) \in Nat /\ SumOf(w, R \ P) \in Nat
  BY <1>2, <1>3, SumIsNatural
<1> QED BY <1>1, <1>4, <1>5, <1>6, <1>7

\* One row for each day of the week.
DayRow(X, c, d) ==
    [currency |-> c, weekday |-> d,
     amount |-> SumOver(Value, {i \in Of(c, X) : WeekdayNumber(i.at) = d})]

\* Every time is on one of seven days.
LEMMA WeekdayIs == ASSUME NEW at, at \in Nat PROVE WeekdayNumber(at) \in 1..7
<1> DEFINE n == at \div Day + 4
<1>1. at \div Day \in Nat
  BY AnalyticsAssumption, RemainderOf
<1>2. n \in Nat
  BY <1>1
<1>3. WeekdayNumber(at) = IF n % 7 = 0 THEN 7 ELSE n % 7
  BY DEF WeekdayNumber
<1> HIDE DEF n
<1> QED BY <1>2, <1>3

\* A week is finite.
LEMMA WeekIsFinite == IsFiniteSet(1..7)
<1>1. \A a, b \in Int : IsFiniteSet(a..b)
  BY FS_Interval
<1>2. 1 \in Int /\ 7 \in Int
  OBVIOUS
<1> QED BY <1>1, <1>2, Zenon

\* The rows of the weekdays in a currency add up to its items.
LEMMA WeekdaysAddUp ==
    ASSUME NEW X, Countable(X), NEW c
    PROVE  AmountIn(WeekdayAmounts(X), c) = SumOver(Value, Of(c, X))
<1> DEFINE Y == Of(c, X)
           R == {r \in WeekdayAmounts(X) : r.currency = c}
           dayRow == [d \in 1..7 |-> DayRow(X, c, d)]
           key == [i \in Y |-> dayRow[WeekdayNumber(i.at)]]
<1>1. Countable(Y) /\ IsFiniteSet(Y)
  BY PartIsCountable DEF Of, Countable
<1>2. WeekdayAmounts(X) = {DayRow(X, b, d) : b \in {i.currency : i \in X}, d \in 1..7}
  BY DEF WeekdayAmounts, DayRow
<1>3. ASSUME NEW b, NEW d
      PROVE  DayRow(X, b, d).currency = b /\ DayRow(X, b, d).weekday = d
  BY DEF DayRow
<1>4. AmountIn(WeekdayAmounts(X), c) = SumOver(RowAmount, R)
  BY DEF AmountIn
<1>5. ASSUME R = {dayRow[d] : d \in 1..7}
      PROVE  AmountIn(WeekdayAmounts(X), c) = SumOver(Value, Y)
  <2>1. IsFiniteSet(1..7)
    BY WeekIsFinite
  <2>2. IsFiniteSet(R)
    <3> HIDE DEF R, dayRow
    <3> QED BY <1>5, <2>1, ImageFinite
  <2>3. \A i \in Y : WeekdayNumber(i.at) \in 1..7
    BY <1>1, WeekdayIs DEF Countable
  <2>4. key \in [Y -> R]
    BY <1>5, <2>3
  <2>5. ASSUME NEW r \in R
        PROVE  AmountOf(R)[r] = SumOver(Value, PartOf(Y, key, r))
    <3>1. PICK d \in 1..7 : r = DayRow(X, c, d)
      BY <1>5
    <3>2. PartOf(Y, key, r) = {i \in Of(c, X) : WeekdayNumber(i.at) = d}
      <4>1. ASSUME NEW i \in Y PROVE key[i] = r <=> WeekdayNumber(i.at) = d
        BY <1>3, <2>3, <3>1
      <4> QED BY <4>1 DEF PartOf
    <3>3. AmountOf(R)[r] = r.amount
      BY DEF AmountOf
    <3>4. r.amount = SumOver(Value, {i \in Of(c, X) : WeekdayNumber(i.at) = d})
      BY <3>1 DEF DayRow
    <3> HIDE DEF key, R, Y
    <3> QED BY <3>2, <3>3, <3>4
  <2> HIDE DEF R, key
  <2>6. SumOf(AmountOf(R), R) = SumOver(Value, Y)
    BY <1>1, <2>2, <2>4, <2>5, RowsHaveValue
  <2>7. SumOver(RowAmount, R) = SumOf(AmountOf(R), R)
    BY <2>2, AmountSum
  <2> QED BY <1>4, <2>6, <2>7
<1>6. CASE \E i \in X : i.currency = c
  <2>1. R = {dayRow[d] : d \in 1..7}
    <3>1. ASSUME NEW r \in R PROVE \E d \in 1..7 : r = dayRow[d]
      <4>1. PICK b \in {i.currency : i \in X}, d \in 1..7 : r = DayRow(X, b, d)
        BY <1>2
      <4> QED BY <1>3, <4>1
    <3>2. ASSUME NEW d \in 1..7 PROVE dayRow[d] \in R
      BY <1>2, <1>3, <1>6
    <3> QED BY <3>1, <3>2
  <2> QED BY <1>5, <2>1
<1>7. CASE ~\E i \in X : i.currency = c
  <2>1. R = {}
    BY <1>2, <1>3, <1>7
  <2>2. Y = {}
    BY <1>7 DEF Of
  <2>3. SumOver(RowAmount, {}) = SumOf(AmountOf({}), {})
    BY AmountSum, FS_EmptySet
  <2>4. SumOver(Value, {}) = SumOf(Worth({}), {})
    BY ValueSum, FS_EmptySet
  <2>5. SumOf(AmountOf({}), {}) = 0 /\ SumOf(Worth({}), {}) = 0
    BY SumEmpty
  <2> QED BY <1>4, <2>1, <2>2, <2>3, <2>4, <2>5
<1> QED BY <1>6, <1>7
-----------------------------------------------------------------------------
\* The points of a time series, one for each day or month that has an item.
Within(X, unit, s) == {i \in X : StartOf(unit, i.at) = s}
Point(X, unit, s, c) ==
    [start |-> s, currency |-> c,
     expense |-> Spent(c, Within(X, unit, s)), income |-> Earned(c, Within(X, unit, s))]

\* The points of a series in a currency, one for each start.
LEMMA PointsAre ==
    ASSUME NEW X, NEW unit, NEW c
    PROVE  ByCurrency(TimeSeries(X, unit), c)
             = {Point(X, unit, StartOf(unit, i.at), c) : i \in Of(c, X)}
<1> DEFINE keys == {<<StartOf(unit, i.at), i.currency>> : i \in X}
           T == ByCurrency(TimeSeries(X, unit), c)
           P == {Point(X, unit, StartOf(unit, i.at), c) : i \in Of(c, X)}
<1>1. TimeSeries(X, unit) = {Point(X, unit, g[1], g[2]) : g \in keys}
  BY DEF TimeSeries, Point, Within
<1>2. ASSUME NEW s, NEW d PROVE Point(X, unit, s, d).currency = d
  BY DEF Point
<1>3. ASSUME NEW r \in T PROVE r \in P
  <2>1. r \in TimeSeries(X, unit) /\ r.currency = c
    BY DEF ByCurrency
  <2>2. PICK g \in keys : r = Point(X, unit, g[1], g[2])
    BY <1>1, <2>1
  <2>3. PICK i \in X : g = <<StartOf(unit, i.at), i.currency>>
    OBVIOUS
  <2>4. g[1] = StartOf(unit, i.at) /\ g[2] = i.currency
    BY <2>3
  <2>5. i.currency = c
    BY <1>2, <2>1, <2>2, <2>4
  <2> QED BY <2>2, <2>4, <2>5 DEF Of
<1>4. ASSUME NEW i \in Of(c, X) PROVE Point(X, unit, StartOf(unit, i.at), c) \in T
  <2> DEFINE g == <<StartOf(unit, i.at), i.currency>>
  <2>1. i \in X /\ i.currency = c
    BY DEF Of
  <2>2. g \in keys /\ g[1] = StartOf(unit, i.at) /\ g[2] = c
    BY <2>1
  <2> HIDE DEF g, keys
  <2>3. Point(X, unit, g[1], g[2]) \in TimeSeries(X, unit)
    BY <1>1, <2>2
  <2> QED BY <1>2, <2>2, <2>3 DEF ByCurrency
<1> QED BY <1>3, <1>4

\* What is said of the points of one currency.
PointsSound(P, X, unit, c) ==
    /\ IsFiniteSet(P)
    /\ \A p, q \in P : p.start = q.start => p = q
    /\ \A p \in P : p.expense \in Nat /\ p.income \in Nat
                    /\ \E i \in X : p.start = StartOf(unit, i.at)
    /\ SumOver(LAMBDA p : p.expense, P) = Spent(c, X)
    /\ SumOver(LAMBDA p : p.income, P) = Earned(c, X)

\* The points of a series in a currency add up to its items.
LEMMA SeriesAddUp ==
    ASSUME NEW X, Countable(X), NEW unit, NEW c
    PROVE  PointsSound(ByCurrency(TimeSeries(X, unit), c), X, unit, c)
<1> DEFINE Y == Of(c, X)
           P == ByCurrency(TimeSeries(X, unit), c)
           f == [i \in Y |-> Point(X, unit, StartOf(unit, i.at), c)]
           E == Of(c, ExpenseItems(X))
           N == Of(c, X \ ExpenseItems(X))
           keyE == [i \in E |-> f[i]]
           keyN == [i \in N |-> f[i]]
<1>1. E \subseteq Y /\ N \subseteq Y /\ Y \subseteq X
  BY DEF Of, ExpenseItems
<1>2. Countable(E) /\ Countable(N) /\ Countable(Y) /\ IsFiniteSet(Y)
  BY <1>1, PartIsCountable DEF Countable
<1>3. P = {f[i] : i \in Y}
  BY PointsAre
<1>4. IsFiniteSet(P)
  <2> HIDE DEF P, f, Y
  <2> QED BY <1>2, <1>3, ImageFinite
<1>5. ASSUME NEW p \in P
      PROVE  /\ p = Point(X, unit, p.start, c)
             /\ \E i \in X : p.start = StartOf(unit, i.at)
  <2>1. PICK i \in Y : p = Point(X, unit, StartOf(unit, i.at), c)
    BY <1>3
  <2>2. p.start = StartOf(unit, i.at)
    BY <2>1 DEF Point
  <2> QED BY <1>1, <2>1, <2>2
<1>6. ASSUME NEW p \in P
      PROVE  /\ p.expense = SumOver(Value, PartOf(E, keyE, p))
             /\ p.income = SumOver(Value, PartOf(N, keyN, p))
  <2>1. \A i \in Y : f[i] = p <=> StartOf(unit, i.at) = p.start
    <3>1. ASSUME NEW i \in Y PROVE f[i] = p <=> StartOf(unit, i.at) = p.start
      <4>1. f[i] = Point(X, unit, StartOf(unit, i.at), c)
        OBVIOUS
      <4>2. f[i].start = StartOf(unit, i.at)
        BY <4>1 DEF Point
      <4> QED BY <1>5, <4>1, <4>2
    <3> QED BY <3>1
  <2>2. PartOf(E, keyE, p) = Of(c, ExpenseItems(Within(X, unit, p.start)))
    BY <1>1, <2>1 DEF Of, ExpenseItems, Within, PartOf
  <2>3. PartOf(N, keyN, p)
          = Of(c, Within(X, unit, p.start) \ ExpenseItems(Within(X, unit, p.start)))
    BY <1>1, <2>1 DEF Of, ExpenseItems, Within, PartOf
  <2>4. /\ p.expense = Spent(c, Within(X, unit, p.start))
        /\ p.income = Earned(c, Within(X, unit, p.start))
    BY <1>5 DEF Point
  <2> QED BY <2>2, <2>3, <2>4 DEF Spent, Earned
<1>7. \A p \in P : p.expense \in Nat /\ p.income \in Nat
  <2> HIDE DEF P, E, N, keyE, keyN
  <2>1. \A p : PartOf(E, keyE, p) \subseteq E /\ PartOf(N, keyN, p) \subseteq N
    BY DEF PartOf
  <2> QED BY <1>2, <1>6, <2>1, ValueIsNatural
<1>8. keyE \in [E -> P] /\ keyN \in [N -> P]
  BY <1>1, <1>3
<1>9. \A p \in P : /\ ExpenseOf(P)[p] = SumOver(Value, PartOf(E, keyE, p))
                  /\ IncomeOf(P)[p] = SumOver(Value, PartOf(N, keyN, p))
  <2>1. \A p \in P : ExpenseOf(P)[p] = p.expense /\ IncomeOf(P)[p] = p.income
    BY DEF ExpenseOf, IncomeOf
  <2> HIDE DEF P, E, N, keyE, keyN
  <2> QED BY <1>6, <2>1
<1>10. \A p, q \in P : p.start = q.start => p = q
  BY <1>5
<1> HIDE DEF P, E, N, keyE, keyN, f, Y
<1>11. SumOf(ExpenseOf(P), P) = SumOver(Value, E)
  BY <1>2, <1>4, <1>8, <1>9, RowsHaveValue
<1>12. SumOf(IncomeOf(P), P) = SumOver(Value, N)
  BY <1>2, <1>4, <1>8, <1>9, RowsHaveValue
<1>13. SumOver(LAMBDA p : p.expense, P) = Spent(c, X)
  BY <1>4, <1>11, ExpenseSum DEF Spent, E
<1>14. SumOver(LAMBDA p : p.income, P) = Earned(c, X)
  BY <1>4, <1>12, IncomeSum DEF Earned, N
<1>15. PointsSound(P, X, unit, c)
  BY <1>4, <1>5, <1>7, <1>10, <1>13, <1>14 DEF PointsSound
<1> QED BY <1>15 DEF P
-----------------------------------------------------------------------------
\* Fixed and variable expenses are the expenses.
LEMMA SplitAddsUp ==
    ASSUME NEW X, Countable(X), NEW repeated, NEW c
    PROVE  Fixed(c, repeated, X) + Variable(c, repeated, X) = SumOver(Value, Of(c, X))
<1> DEFINE Y == Of(c, X)
           P == {i \in Y : <<i.currency, i.merchant>> \in repeated}
           Q == {i \in Y : <<i.currency, i.merchant>> \notin repeated}
<1>1. Countable(Y)
  BY PartIsCountable DEF Of
<1>2. Q = Y \ P /\ P \subseteq Y /\ Q \subseteq Y
  OBVIOUS
<1>3. Fixed(c, repeated, X) = SumOver(Value, P) /\ Variable(c, repeated, X) = SumOver(Value, Q)
  BY DEF Fixed, Variable
<1> HIDE DEF Y, P, Q
<1>4. IsFiniteSet(Y) /\ \A i \in Y : Worth(Y)[i] \in Int
  BY <1>1 DEF Countable, Worth
<1>5. /\ SumOver(Value, P) = SumOf(Worth(Y), P) /\ SumOver(Value, Q) = SumOf(Worth(Y), Q)
      /\ SumOver(Value, Y) = SumOf(Worth(Y), Y)
  BY <1>2, <1>4, ValueSum
<1>6. SumOf(Worth(Y), Y) = SumOf(Worth(Y), P) + SumOf(Worth(Y), Y \ P)
  BY <1>2, <1>4, SumOfTwoParts
<1> QED BY <1>2, <1>3, <1>5, <1>6 DEF Y

\* What is compensated and what is personal are natural and add up to the expense.
LEMMA CompensationAddsUp ==
    ASSUME NEW X, Countable(X), NEW c
    PROVE  /\ Personal(c, X) \in Nat
           /\ CompensatedIn(c, X) + Personal(c, X) = SumOver(Value, Of(c, X))
<1> DEFINE Y == Of(c, X)
           w == [i \in Y |-> Compensated(i)]
           v == [i \in Y |-> i.value - Compensated(i)]
<1>1. Countable(Y) /\ IsFiniteSet(Y)
  BY PartIsCountable DEF Of, Countable
<1>2. ASSUME NEW i \in Y
      PROVE  Compensated(i) \in Nat /\ i.value - Compensated(i) \in Nat
  <2>1. i.value \in Nat /\ i.compensated \in Nat
    BY <1>1 DEF Countable
  <2> DEFINE S == {i.value, i.compensated}
  <2>2. IsFiniteSet(S) /\ S # {} /\ S \subseteq Int /\ i.value \in S
    <3>1. IsFiniteSet({i.value} \cup {i.compensated})
      BY FS_Singleton, FS_Union
    <3>2. S = {i.value} \cup {i.compensated}
      OBVIOUS
    <3> QED BY <2>1, <3>1, <3>2
  <2>3. Min(S) \in S /\ Min(S) <= i.value
    <3> HIDE DEF S
    <3> QED BY <2>2, MinIs
  <2>4. Compensated(i) = Min(S)
    BY DEF Compensated
  <2>5. Min(S) \in Nat
    BY <2>1, <2>3
  <2> HIDE DEF S
  <2> QED BY <2>1, <2>3, <2>4, <2>5
<1>3. CompensatedIn(c, X) = SumFunction(w) /\ Personal(c, X) = SumFunction(v)
  BY DEF CompensatedIn, Personal, SumOver
<1>4. DOMAIN w = Y /\ DOMAIN v = Y
  OBVIOUS
<1>5. \A i \in Y : w[i] \in Nat /\ v[i] \in Nat /\ Worth(Y)[i] = w[i] + v[i]
  <2>1. \A i \in Y : i.value \in Nat
    BY <1>1 DEF Countable
  <2> QED BY <1>2, <2>1 DEF Worth
<1> HIDE DEF w, v, Y
<1>6. SumFunction(w) = SumOf(w, Y) /\ SumFunction(v) = SumOf(v, Y)
  BY <1>1, <1>4, SumIs
<1>7. SumOf(Worth(Y), Y) = SumOf(w, Y) + SumOf(v, Y)
  BY <1>1, <1>5, SumOfTwo
<1>8. SumOf(v, Y) \in Nat
  BY <1>1, <1>5, SumIsNatural
<1>9. SumOver(Value, Y) = SumOf(Worth(Y), Y)
  BY <1>1, ValueSum
<1> QED BY <1>3, <1>6, <1>7, <1>8, <1>9 DEF Y
-----------------------------------------------------------------------------
\* The transactions every figure of a dashboard stands for.
Shown == Included(CurrentGroup, RateTable)

\* They can be added up.
LEMMA ShownCounts == ASSUME AnalyticsKept PROVE Countable(Shown) /\ Countable(ExpenseItems(Shown))
<1>1. CurrentGroup \subseteq Ledger /\ RateTable \subseteq RateTable
  BY GroupsAreRows DEF CurrentGroup
<1>2. Countable(Shown)
  BY <1>1, ItemsCount DEF Shown, Included
<1> QED BY <1>2, PartIsCountable DEF ExpenseItems

\* A report that reads the rates of a larger group shows the same items.
LEMMA IncludedIsShown ==
    ASSUME NEW G, G \subseteq Ledger, CurrentGroup \subseteq G
    PROVE  Included(CurrentGroup, RatesOf(G)) = Shown
BY SameItems DEF Shown, Included

\* The reports of that.
LEMMA OverviewShows ==
    ASSUME NEW now
    PROVE  /\ Overview(now).totals = Totals(Shown)
           /\ \A c \in ReportCurrencies : Overview(now).compensation[c] =
                 [compensated |-> CompensatedIn(c, ExpenseItems(Shown)),
                  personal |-> Personal(c, ExpenseItems(Shown))]
<1> DEFINE G == CurrentGroup \cup PreviousGroup \cup Resolved(MonthStart(now), now)
<1>1. Included(CurrentGroup, RatesOf(G)) = Shown
  <2>1. G \subseteq Ledger /\ CurrentGroup \subseteq G
    BY GroupsAreRows DEF CurrentGroup, PreviousGroup
  <2> QED BY <2>1, IncludedIsShown
<1>2. Overview(now).totals = Totals(Included(CurrentGroup, RatesOf(G)))
  BY DEF Overview
<1>3. Overview(now).compensation =
        [c \in ReportCurrencies |->
            [compensated |-> CompensatedIn(c, ExpenseItems(Included(CurrentGroup, RatesOf(G)))),
             personal |-> Personal(c, ExpenseItems(Included(CurrentGroup, RatesOf(G))))]]
  BY DEF Overview
<1> HIDE DEF G
<1> QED BY <1>1, <1>2, <1>3

Repeats == LET table == RatesOf(CurrentGroup \cup HistoryGroup)
           IN Repeated(ExpenseItems(Included(HistoryGroup, table)), ExpenseItems(Shown))

\* The breakdowns are of the items shown.
LEMMA BreakdownsShow ==
    /\ Breakdowns.accounts = GroupAmounts(ExpenseItems(Shown), "account")
    /\ Breakdowns.categories = GroupAmounts(ExpenseItems(Shown), "category")
    /\ Breakdowns.merchants = MerchantAmounts(ExpenseItems(Shown))
    /\ Breakdowns.weekdays = WeekdayAmounts(ExpenseItems(Shown))
    /\ Breakdowns.repeated = Repeats
    /\ \A c \in ReportCurrencies : Breakdowns.split[c] =
          [fixed |-> Fixed(c, Repeats, ExpenseItems(Shown)),
           variable |-> Variable(c, Repeats, ExpenseItems(Shown))]
<1> DEFINE G == CurrentGroup \cup HistoryGroup
<1>1. Included(CurrentGroup, RatesOf(G)) = Shown
  <2>1. G \subseteq Ledger /\ CurrentGroup \subseteq G
    BY GroupsAreRows DEF CurrentGroup, HistoryGroup
  <2> QED BY <2>1, IncludedIsShown
<1>2. Repeats = Repeated(ExpenseItems(Included(HistoryGroup, RatesOf(G))), ExpenseItems(Shown))
  BY DEF Repeats
<1>3. Breakdowns =
        [accounts |-> GroupAmounts(ExpenseItems(Shown), "account"),
         categories |-> GroupAmounts(ExpenseItems(Shown), "category"),
         merchants |-> MerchantAmounts(ExpenseItems(Shown)),
         weekdays |-> WeekdayAmounts(ExpenseItems(Shown)),
         repeated |-> Repeats,
         split |-> [c \in ReportCurrencies |->
            [fixed |-> Fixed(c, Repeats, ExpenseItems(Shown)),
             variable |-> Variable(c, Repeats, ExpenseItems(Shown))]]]
  BY <1>1, <1>2, Zenon DEF Breakdowns
<1> QED BY <1>3

\* The series are of the items shown.
LEMMA TrendsShow ==
    Trends.daily = TimeSeries(Shown, "day") /\ Trends.monthly = TimeSeries(Shown, "month")
<1>1. Included(CurrentGroup, RatesOf(CurrentGroup)) = Shown
  BY GroupsAreRows, IncludedIsShown DEF CurrentGroup
<1>2. Trends = [daily |-> TimeSeries(Shown, "day"), monthly |-> TimeSeries(Shown, "month")]
  BY <1>1, Zenon DEF Trends
<1> QED BY <1>2

\* The totals of a currency.
LEMMA TotalsAre ==
    ASSUME NEW X, NEW c \in ReportCurrencies
    PROVE  Totals(X)[c].expense = Spent(c, X) /\ Totals(X)[c].income = Earned(c, X)
BY DEF Totals

\* The reports add up to one another: each adds up to the items shown.
LEMMA ReportsAreOne == ASSUME AnalyticsKept PROVE ReportsAgree
<1> DEFINE E == ExpenseItems(Shown)
<1>1. Countable(Shown) /\ Countable(E)
  BY ShownCounts
<1>2. ASSUME NEW now \in Moments, NEW c \in ReportCurrencies
      PROVE  LET totals == Overview(now).totals
                 parts == Breakdowns
                 series == Trends
                 merchants == MerchantRows(ExpenseItems(Included(CurrentGroup, RatesOf(CurrentGroup))))
             IN /\ \A rows \in {parts.accounts, parts.categories, parts.weekdays} :
                      AmountIn(rows, c) = totals[c].expense
                /\ MerchantsAgree(parts.merchants, merchants, c, totals[c].expense)
                /\ parts.split[c].fixed + parts.split[c].variable = totals[c].expense
                /\ \A points \in {series.daily, series.monthly} :
                      /\ SpentIn(points, c) = totals[c].expense
                      /\ EarnedIn(points, c) = totals[c].income
  <2>1. /\ Overview(now).totals[c].expense = Spent(c, Shown)
        /\ Overview(now).totals[c].income = Earned(c, Shown)
    BY OverviewShows, TotalsAre
  <2>2. Spent(c, Shown) = SumOver(Value, Of(c, E))
    BY DEF Spent
  <2>3. ASSUME NEW field
        PROVE  AmountIn(GroupAmounts(E, field), c) = Spent(c, Shown)
    BY <1>1, <2>2, GroupsAddUp
  <2>4. AmountIn(WeekdayAmounts(E), c) = Spent(c, Shown)
    BY <1>1, <2>2, WeekdaysAddUp
  <2>5. Fixed(c, Repeats, E) + Variable(c, Repeats, E) = Spent(c, Shown)
    BY <1>1, <2>2, SplitAddsUp
  <2>6. ASSUME NEW unit
        PROVE  /\ SpentIn(TimeSeries(Shown, unit), c) = Spent(c, Shown)
               /\ EarnedIn(TimeSeries(Shown, unit), c) = Earned(c, Shown)
    BY <1>1, SeriesAddUp DEF PointsSound, SpentIn, EarnedIn, ByCurrency
  <2>7. \A rows \in {Breakdowns.accounts, Breakdowns.categories, Breakdowns.weekdays} :
           AmountIn(rows, c) = Spent(c, Shown)
    BY <2>3, <2>4, BreakdownsShow
  <2>8. Breakdowns.split[c].fixed + Breakdowns.split[c].variable = Spent(c, Shown)
    <3>1. Breakdowns.split[c]
            = [fixed |-> Fixed(c, Repeats, E), variable |-> Variable(c, Repeats, E)]
      BY BreakdownsShow
    <3> HIDE DEF E
    <3> QED BY <2>5, <3>1
  <2>9. \A points \in {Trends.daily, Trends.monthly} :
           SpentIn(points, c) = Spent(c, Shown) /\ EarnedIn(points, c) = Earned(c, Shown)
    BY <2>6, TrendsShow
  <2>10. ExpenseItems(Included(CurrentGroup, RatesOf(CurrentGroup))) = E
    BY GroupsAreRows, IncludedIsShown DEF CurrentGroup
  <2>11. MerchantsAgree(Breakdowns.merchants, MerchantRows(E), c, Spent(c, Shown))
    <3> DEFINE M == MerchantAmounts(E)
               R == MerchantRows(E)
    <3> HIDE DEF E
    <3>1. /\ M \subseteq R /\ Cardinality(M) <= MaxMerchants
          /\ Cardinality(R) <= MaxMerchants => M = R
          /\ \A r \in M, q \in R \ M : r.amount >= q.amount
      BY <1>1, MerchantsAre
    <3>2. R = GroupAmounts(E, "merchant")
      BY DEF MerchantRows
    <3> HIDE DEF M, R
    <3>3. AmountIn(M, c) <= Spent(c, Shown)
      BY <1>1, <2>2, <3>1, <3>2, PartOfRows
    <3>4. AmountIn(R, c) = Spent(c, Shown)
      BY <2>3, <3>2
    <3>5. MerchantsAgree(M, R, c, Spent(c, Shown))
      BY <3>1, <3>3, <3>4 DEF MerchantsAgree
    <3>6. Breakdowns.merchants = M
      BY BreakdownsShow DEF E, M
    <3> QED BY <3>5, <3>6 DEF R
  <2> HIDE DEF E
  <2> QED BY <2>1, <2>7, <2>8, <2>9, <2>10, <2>11
<1> QED BY <1>2 DEF ReportsAgree

\* What is compensated and what is personal are the expense.
LEMMA CompensationIsWithin == ASSUME AnalyticsKept PROVE CompensationWithinExpense
<1>1. ASSUME NEW now \in Moments, NEW c \in ReportCurrencies
      PROVE  /\ Overview(now).compensation[c].personal >= 0
             /\ Overview(now).compensation[c].compensated + Overview(now).compensation[c].personal
                  = Overview(now).totals[c].expense
  <2>1. Overview(now).totals[c].expense = Spent(c, Shown)
    BY OverviewShows, TotalsAre
  <2>2. /\ Personal(c, ExpenseItems(Shown)) \in Nat
        /\ CompensatedIn(c, ExpenseItems(Shown)) + Personal(c, ExpenseItems(Shown))
             = Spent(c, Shown)
    BY ShownCounts, CompensationAddsUp DEF Spent
  <2>3. /\ Overview(now).compensation[c].personal = Personal(c, ExpenseItems(Shown))
        /\ Overview(now).compensation[c].compensated = CompensatedIn(c, ExpenseItems(Shown))
    <3>1. Overview(now).compensation[c] = [compensated |-> CompensatedIn(c, ExpenseItems(Shown)),
                                           personal |-> Personal(c, ExpenseItems(Shown))]
      BY OverviewShows
    <3> QED BY <3>1
  <2> QED BY <2>1, <2>2, <2>3
<1> QED BY <1>1 DEF CompensationWithinExpense
-----------------------------------------------------------------------------
\* The periods compared touch and do not overlap.
LEMMA ComparisonFair == ASSUME AnalyticsKept PROVE ComparisonIsFair
<1> DEFINE from == filters.period.from
           to == filters.period.to
           Meant(t) == filters.accounts = {} \/ t.account \in filters.accounts
<1>1. from \in Nat /\ to \in Nat /\ from <= to
  BY PeriodIs
<1>2. \A t \in Ledger : t.at \in Nat
  BY AnalyticsAssumption
<1>3. CurrentGroup = {t \in Ledger : t.at >= from /\ t.at <= to /\ Meant(t)}
  BY DEF CurrentGroup, Resolved
<1>4. PreviousGroup =
        {t \in Ledger : t.at >= from - (to - from + 1) /\ t.at <= from - 1 /\ Meant(t)}
  BY DEF PreviousGroup, Resolved
<1>5. Resolved(2 * from - to - 1, to)
        = {t \in Ledger : t.at >= 2 * from - to - 1 /\ t.at <= to /\ Meant(t)}
  BY DEF Resolved
<1> HIDE DEF from, to, Meant
<1>6. CurrentGroup \cap PreviousGroup = {}
  <2>1. \A t \in Ledger : ~(t.at >= from /\ t.at <= from - 1)
    BY <1>1, <1>2
  <2> QED BY <1>3, <1>4, <2>1
<1>7. CurrentGroup \cup PreviousGroup = Resolved(2 * from - to - 1, to)
  <2>1. \A t \in Ledger :
           (t.at >= from /\ t.at <= to) \/ (t.at >= from - (to - from + 1) /\ t.at <= from - 1)
              <=> t.at >= 2 * from - to - 1 /\ t.at <= to
    BY <1>1, <1>2
  <2> QED BY <1>3, <1>4, <1>5, <2>1
<1> QED BY <1>6, <1>7 DEF ComparisonIsFair, from, to

\* The rates a report lists convert as the whole table.
LEMMA RatesListedSuffice == ListedRatesSuffice
<1> SUFFICES ASSUME NEW t \in CurrentGroup
             PROVE  InBase(t, RatesOf(CurrentGroup \cup PreviousGroup)) = InBase(t, RateTable)
  BY DEF ListedRatesSuffice
<1>1. CurrentGroup \cup PreviousGroup \subseteq Ledger
  BY GroupsAreRows DEF CurrentGroup, PreviousGroup
<1> QED BY <1>1, RatesSuffice

\* What is paid twice in a period within the history is seen as repeated.
LEMMA RepeatsSeen == ASSUME AnalyticsKept PROVE RepeatsAreSeen
<1> SUFFICES ASSUME filters.base = "original",
                    filters.period.to - filters.period.from < HistoryDays * Day,
                    NEW i \in ExpenseItems(Included(CurrentGroup, {})),
                    NEW j \in ExpenseItems(Included(CurrentGroup, {})),
                    i # j, i.merchant = j.merchant, i.currency = j.currency
             PROVE  <<i.currency, i.merchant>> \in Breakdowns.repeated
  BY DEF RepeatsAreSeen
<1> DEFINE from == filters.period.from
           to == filters.period.to
           first == Max({0, to - HistoryDays * Day + 1})
           table == RatesOf(CurrentGroup \cup HistoryGroup)
           history == ExpenseItems(Included(HistoryGroup, table))
           k == <<i.currency, i.merchant>>
           same == {x \in history : <<x.currency, x.merchant>> = k}
<1>1. CurrentGroup \subseteq HistoryGroup
  <2>1. from \in Nat /\ to \in Nat
    BY PeriodIs
  <2>2. HistoryDays * Day \in Nat
    BY AnalyticsAssumption
  <2> DEFINE S == {0, to - HistoryDays * Day + 1}
  <2>3. IsFiniteSet(S) /\ S # {} /\ S \subseteq Int
    <3>1. IsFiniteSet({0} \cup {to - HistoryDays * Day + 1})
      BY FS_Singleton, FS_Union
    <3>2. S = {0} \cup {to - HistoryDays * Day + 1}
      OBVIOUS
    <3> QED BY <2>1, <2>2, <3>1, <3>2
  <2>4. first \in S /\ first \in Int
    <3> HIDE DEF S
    <3>1. Max(S) \in S /\ Max(S) \in Int
      BY <2>3, MaxIs
    <3> QED BY <3>1 DEF S
  <2>5. first <= from
    <3> DEFINE h == HistoryDays * Day
    <3>1. h \in Nat /\ to - from < h /\ first \in {0, to - h + 1}
      BY <2>2, <2>4
    <3> HIDE DEF h, first, from, to
    <3> QED BY <2>1, <3>1
  <2>6. \A t \in Ledger : t.at \in Nat
    BY AnalyticsAssumption
  <2>7. HistoryGroup = Resolved(first, to) /\ CurrentGroup = Resolved(from, to)
    BY DEF HistoryGroup, CurrentGroup
  <2> HIDE DEF first, from, to, S
  <2> QED BY <2>1, <2>4, <2>5, <2>6, <2>7 DEF Resolved
<1>2. \A t, T, U : InBase(t, T) = InBase(t, U)
  BY Zenon DEF InBase
<1>3. i \in Shown /\ j \in Shown /\ i \in history /\ j \in history
      /\ i.direction = "expense" /\ j.direction = "expense"
  <2>1. ASSUME NEW x \in ExpenseItems(Included(CurrentGroup, {}))
        PROVE  x \in Shown /\ x \in history /\ x.direction = "expense"
    <3>1. x \in Included(CurrentGroup, {}) /\ x.direction = "expense"
      BY DEF ExpenseItems
    <3>2. PICK t \in CurrentGroup : figures[t.id].excluded = FALSE /\ x \in InBase(t, {})
      BY <3>1 DEF Included, Counted
    <3>3. x \in InBase(t, RateTable) /\ x \in InBase(t, table)
      BY <1>2, <3>2
    <3>4. t \in HistoryGroup
      BY <1>1, <3>2
    <3> HIDE DEF table
    <3>5. x \in Shown
      BY <3>2, <3>3 DEF Shown, Included, Counted
    <3>6. x \in Included(HistoryGroup, table)
      BY <3>2, <3>3, <3>4 DEF Included, Counted
    <3> QED BY <3>1, <3>5, <3>6 DEF ExpenseItems
  <2> QED BY <2>1
<1>4. i \in same /\ j \in same
  BY <1>3
<1>5. Cardinality(same) >= 2
  <2>1. IsFiniteSet(same)
    <3>1. HistoryGroup \subseteq Ledger /\ table \subseteq RateTable
      BY GroupsAreRows, RatesAreRows DEF HistoryGroup
    <3>2. Countable(Included(HistoryGroup, table))
      BY <3>1, ItemsCount DEF Included
    <3>3. same \subseteq Included(HistoryGroup, table)
      BY DEF ExpenseItems
    <3> HIDE DEF same, table
    <3> QED BY <3>2, <3>3, FS_Subset DEF Countable
  <2> HIDE DEF same
  <2>2. IsFiniteSet({i}) /\ Cardinality({i}) = 1
    BY FS_Singleton
  <2>3. IsFiniteSet({i} \cup {j}) /\ Cardinality({i} \cup {j}) = 2
    <3>1. j \notin {i}
      OBVIOUS
    <3> QED BY <2>2, <3>1, FS_AddElement
  <2>4. {i} \cup {j} \in SUBSET same
    BY <1>4
  <2>5. Cardinality({i} \cup {j}) <= Cardinality(same)
    BY <2>1, <2>4, FS_Subset
  <2>6. Cardinality(same) \in Nat
    BY <2>1, FS_CardinalityType
  <2> QED BY <2>3, <2>5, <2>6
<1>6. k \in Repeats
  <2>1. i \in ExpenseItems(Shown)
    BY <1>3 DEF ExpenseItems
  <2>2. Repeats = Repeated(history, ExpenseItems(Shown))
    BY DEF Repeats
  <2>3. k \in {<<x.currency, x.merchant>> : x \in ExpenseItems(Shown)}
    BY <2>1
  <2> HIDE DEF history, k
  <2> QED BY <1>5, <2>2, <2>3 DEF Repeated
<1> QED BY <1>6, BreakdownsShow
-----------------------------------------------------------------------------
\* Months open one after another.
LEMMA MonthsAre ==
    /\ MonthLengths \in Seq(Nat \ {0}) /\ Day \in Nat /\ Day > 0
    /\ Len(MonthLengths) \in Nat /\ DOMAIN MonthLengths = 1..Len(MonthLengths)
    /\ \A m \in DOMAIN MonthLengths : MonthLengths[m] \in Nat /\ MonthLengths[m] > 0
BY AnalyticsAssumption

\* A month opens when those before it are over.
LEMMA MonthOpensIs ==
    ASSUME NEW k, k \in 1..(Len(MonthLengths) + 1)
    PROVE  /\ IsFiniteSet(1..(k - 1)) /\ 1..(k - 1) \subseteq DOMAIN MonthLengths
           /\ MonthOpens(k) = Day * SumOf(MonthLengths, 1..(k - 1))
           /\ SumOf(MonthLengths, 1..(k - 1)) \in Nat
<1> DEFINE n == k - 1
           w == [m \in 1..n |-> MonthLengths[m]]
<1>1. n \in Int /\ 1..n \subseteq DOMAIN MonthLengths
  BY MonthsAre
<1>2. IsFiniteSet(1..n)
  <2>1. \A a, b \in Int : IsFiniteSet(a..b)
    BY FS_Interval
  <2>2. 1 \in Int
    OBVIOUS
  <2> HIDE DEF n
  <2> QED BY <1>1, <2>1, <2>2, Zenon
<1>3. MonthOpens(k) = Day * SumFunction(w)
  BY DEF MonthOpens, SumOver
<1>4. DOMAIN w = 1..n /\ \A m \in 1..n : w[m] = MonthLengths[m] /\ MonthLengths[m] \in Nat
  BY <1>1, MonthsAre
<1> HIDE DEF w, n
<1>5. SumFunction(w) = SumOf(w, 1..n)
  BY <1>2, <1>4, SumIs
<1>6. SumOf(w, 1..n) = SumOf(MonthLengths, 1..n)
  BY <1>2, <1>4, SumSame
<1>7. SumOf(MonthLengths, 1..n) \in Nat
  BY <1>2, <1>4, SumIsNatural
<1>8. MonthOpens(k) = Day * SumOf(MonthLengths, 1..n)
  BY <1>3, <1>5, <1>6
<1> QED BY <1>1, <1>2, <1>7, <1>8 DEF n

\* Months open at natural times.
LEMMA MonthOpensTyped ==
    ASSUME NEW k, k \in 1..(Len(MonthLengths) + 1)
    PROVE  MonthOpens(k) \in Nat
<1> DEFINE s == SumOf(MonthLengths, 1..(k - 1))
<1>1. MonthOpens(k) = Day * s /\ s \in Nat
  BY MonthOpensIs
<1> HIDE DEF s
<1>2. Day * s \in Nat
  BY <1>1, MonthsAre
<1> QED BY <1>1, <1>2

\* The first month opens at the epoch.
LEMMA FirstMonthOpens == MonthOpens(1) = 0
<1>1. 1 \in 1..(Len(MonthLengths) + 1)
  BY MonthsAre
<1>2. MonthOpens(1) = Day * SumOf(MonthLengths, 1..(1 - 1))
  BY <1>1, MonthOpensIs
<1>3. 1..(1 - 1) = {}
  OBVIOUS
<1>4. SumOf(MonthLengths, 1..(1 - 1)) = 0
  BY <1>3, SumEmpty, Zenon
<1> QED BY <1>2, <1>4, MonthsAre

\* The next month opens when this one has lasted its days.
LEMMA NextMonthOpens ==
    ASSUME NEW k, k \in DOMAIN MonthLengths
    PROVE  /\ k \in Nat /\ k + 1 \in 1..(Len(MonthLengths) + 1)
           /\ k \in 1..(Len(MonthLengths) + 1)
           /\ MonthOpens(k + 1) = MonthOpens(k) + Day * MonthLengths[k]
<1> DEFINE S == 1..(k - 1)
           T == 1..(k + 1 - 1)
           s == SumOf(MonthLengths, S)
           t == SumOf(MonthLengths, T)
           l == MonthLengths[k]
<1>1. k \in Nat /\ k + 1 \in 1..(Len(MonthLengths) + 1) /\ k \in 1..(Len(MonthLengths) + 1)
  BY MonthsAre
<1>2. /\ IsFiniteSet(S) /\ S \subseteq DOMAIN MonthLengths /\ s \in Nat
      /\ MonthOpens(k) = Day * s
  BY <1>1, MonthOpensIs
<1>3. MonthOpens(k + 1) = Day * t
  BY <1>1, MonthOpensIs
<1>4. T = S \cup {k} /\ k \notin S
  BY <1>1
<1>5. l \in Nat
  BY MonthsAre
<1>6. \A x \in S \cup {k} : MonthLengths[x] \in Int
  BY <1>2, MonthsAre
<1> HIDE DEF S, T
<1>7. SumOf(MonthLengths, S \cup {k}) = l + s
  BY <1>2, <1>4, <1>6, SumAdd
<1>8. t = l + s
  BY <1>4, <1>7, Zenon
<1> HIDE DEF s, t, l
<1>9. Day * (l + s) = Day * s + Day * l
  BY <1>2, <1>5, MonthsAre
<1> QED BY <1>1, <1>2, <1>3, <1>8, <1>9 DEF l

\* Every time within the months lies in one of them.
Dated(at) == at \in Nat /\ at < MonthOpens(Len(MonthLengths) + 1)

\* A time before the last month ends is in a month: the first that ends after it.
LEMMA MonthExists ==
    ASSUME NEW at, Dated(at)
    PROVE  \E k \in DOMAIN MonthLengths : MonthOpens(k) <= at /\ at < MonthOpens(k + 1)
<1> DEFINE n == Len(MonthLengths)
           Past == {k \in 0..n : at < MonthOpens(k + 1)}
<1>1. n \in Nat /\ n \in Past /\ Past \subseteq 0..n /\ Past # {}
  BY MonthsAre DEF Dated
<1>2. \E p \in Past : \A q \in Past : p <= q
  <2> HIDE DEF Past, n
  <2> QED BY <1>1, LeastExists
<1>3. PICK p \in Past : \A q \in Past : p <= q
  BY <1>2
<1>4. at < MonthOpens(p + 1) /\ p \in 0..n
  OBVIOUS
<1>5. p # 0
  <2>1. SUFFICES ASSUME p = 0 PROVE FALSE
    OBVIOUS
  <2>2. at < MonthOpens(1)
    BY <1>4, <2>1
  <2> QED BY <2>2, FirstMonthOpens DEF Dated
<1>6. p \in 1..n /\ p - 1 \in 0..n /\ ~(p <= p - 1) /\ p - 1 + 1 = p
  BY <1>1, <1>4, <1>5
<1>7. p - 1 \notin Past
  BY <1>3, <1>6
<1>8. ~(at < MonthOpens(p))
  BY <1>6, <1>7
<1>9. MonthOpens(p) \in Nat
  BY <1>1, <1>6, MonthOpensTyped
<1>10. MonthOpens(p) <= at
  BY <1>8, <1>9 DEF Dated
<1> QED BY <1>4, <1>6, <1>10, MonthsAre

\* What is known of the month of a time.
LEMMA MonthIs ==
    ASSUME NEW at, Dated(at)
    PROVE  /\ MonthOf(at) \in DOMAIN MonthLengths
           /\ MonthStart(at) \in Nat /\ MonthStart(at) <= at /\ at < NextMonthStart(at)
           /\ NextMonthStart(at) = MonthStart(at) + Day * MonthLengths[MonthOf(at)]
<1> DEFINE k == MonthOf(at)
<1>1. k \in DOMAIN MonthLengths /\ MonthOpens(k) <= at /\ at < MonthOpens(k + 1)
  BY MonthExists DEF MonthOf
<1> HIDE DEF k
<1>2. /\ MonthOpens(k) \in Nat
      /\ MonthOpens(k + 1) = MonthOpens(k) + Day * MonthLengths[k]
  BY <1>1, NextMonthOpens, MonthOpensTyped
<1> QED BY <1>1, <1>2 DEF k, MonthStart, NextMonthStart

\* The days and months of transactions start at natural times.
LEMMA StartsAreTimes ==
    ASSUME NEW at, at \in {t.at : t \in Ledger}, NEW unit
    PROVE  StartOf(unit, at) \in Nat
<1>1. Dated(at)
  BY MonthsAssumption DEF Dated
<1>2. MonthStart(at) \in Nat
  BY <1>1, MonthIs
<1>3. at \div Day \in Nat
  BY <1>1, MonthsAre, RemainderOf DEF Dated
<1>4. DayStart(at) \in Nat
  <2> DEFINE q == at \div Day
  <2>1. q \in Nat /\ DayStart(at) = q * Day
    BY <1>3 DEF DayStart
  <2> HIDE DEF q
  <2>2. q * Day \in Nat
    BY <2>1, MonthsAre
  <2> QED BY <2>1, <2>2
<1> QED BY <1>2, <1>4 DEF StartOf
-----------------------------------------------------------------------------
\* Days of a month, and how many of them have begun.
LEMMA DaysAre ==
    ASSUME NEW now, Dated(now)
    PROVE  LET days == (NextMonthStart(now) - MonthStart(now)) \div Day
           IN /\ days \in Nat /\ ElapsedDays(now) \in Nat /\ ElapsedDays(now) > 0
              /\ ElapsedDays(now) <= days
              /\ NextMonthStart(now) - now <= Day => ElapsedDays(now) = days
<1> DEFINE l == MonthLengths[MonthOf(now)]
           s == MonthStart(now)
           n == NextMonthStart(now)
           x == now - s
           days == (n - s) \div Day
<1>1. l \in Nat /\ l > 0 /\ Day \in Nat /\ Day > 0
  BY MonthIs, MonthsAre
<1>2. s \in Nat /\ s <= now /\ now < n /\ n = s + Day * l /\ now \in Nat
  BY MonthIs DEF Dated
<1>3. ElapsedDays(now) = x \div Day + 1
  BY DEF ElapsedDays
<1> HIDE DEF l, s, n
<1>4. Day * l \in Nat
  BY <1>1
<1>5. n - s = Day * l /\ x \in Nat /\ x < Day * l
  <2> DEFINE dl == Day * l
  <2>1. dl \in Nat /\ n = s + dl
    BY <1>2, <1>4
  <2> HIDE DEF dl
  <2>2. n - s = dl /\ x \in Nat /\ x < dl
    BY <1>2, <2>1
  <2> QED BY <2>2 DEF dl
<1>6. days = l
  BY <1>1, <1>5, Quotient
<1>7. x \div Day \in Nat
  BY <1>1, <1>5, RemainderOf
<1>8. x \div Day < l
  BY <1>1, <1>5, QuotientAtMost
<1>9. ASSUME n - now <= Day PROVE l - 1 <= x \div Day
  <2>1. Day * (l - 1) = Day * l - Day /\ l - 1 \in Nat
    BY <1>1
  <2>2. Day * (l - 1) <= x
    <3> DEFINE dl == Day * l
    <3>1. dl \in Nat /\ n = s + dl /\ Day * (l - 1) = dl - Day
      BY <1>2, <1>4, <2>1
    <3> HIDE DEF dl
    <3> QED BY <1>1, <1>2, <1>9, <3>1
  <2> HIDE DEF x
  <2> QED BY <1>1, <1>5, <2>1, <2>2, QuotientAtLeast
<1> DEFINE q == x \div Day
<1>10. q \in Nat /\ q < l /\ ElapsedDays(now) = q + 1 /\ (n - now <= Day => l - 1 <= q)
  BY <1>3, <1>7, <1>8, <1>9
<1> HIDE DEF q, x, days
<1>11. /\ days \in Nat /\ ElapsedDays(now) \in Nat /\ ElapsedDays(now) > 0
       /\ ElapsedDays(now) <= days
       /\ n - now <= Day => ElapsedDays(now) = days
  BY <1>1, <1>6, <1>10
<1> QED BY <1>11 DEF days, n, s

\* Rounding what is spent, spread over more days, is no less.
LEMMA SpreadCovers ==
    ASSUME NEW spent, spent \in Nat, NEW days, days \in Nat, NEW begun, begun \in Nat,
           begun > 0, begun <= days
    PROVE  /\ spent <= RoundedQuotient(spent * days, begun)
           /\ begun = days => RoundedQuotient(spent * days, begun) = spent
<1> DEFINE a == spent * days
           b == spent * begun
           d == 2 * begun
           m == 2 * a + begun
<1>1. a \in Nat /\ b \in Nat /\ b <= a
  <2>1. spent * begun <= spent * days
    BY ProductsGrow
  <2> QED BY <2>1
<1>2. d \in Nat /\ d > 0 /\ m \in Nat
  BY <1>1
<1>3. d * spent = 2 * b
  OBVIOUS
<1>4. d * (spent + 1) = 2 * b + d
  OBVIOUS
<1>5. RoundedQuotient(spent * days, begun) = m \div d
  BY DEF RoundedQuotient
<1>6. d * spent <= m
  <2> HIDE DEF a, b
  <2>1. 2 * b <= 2 * a + begun
    BY <1>1
  <2> QED BY <1>3, <2>1 DEF m
<1>7. begun = days => m < d * (spent + 1)
  <2>1. begun = days => a = b
    OBVIOUS
  <2> HIDE DEF a, b
  <2>2. begun = days => 2 * a + begun < 2 * b + 2 * begun
    BY <1>1, <2>1
  <2> QED BY <1>4, <2>2 DEF m, d
<1> HIDE DEF m, d, a, b
<1>8. spent <= m \div d
  BY <1>2, <1>6, QuotientAtLeast
<1>9. begun = days => m \div d < spent + 1
  BY <1>2, <1>7, QuotientAtMost
<1>10. m \div d \in Nat
  BY <1>2, RemainderOf
<1> QED BY <1>5, <1>8, <1>9, <1>10

\* A projection covers what the month has cost.
LEMMA ProjectionCovers == ASSUME AnalyticsKept PROVE ProjectionCoversSpent
<1> SUFFICES ASSUME NEW now \in Moments, NEW c \in ReportCurrencies
             PROVE  /\ Overview(now).projected[c] >= Overview(now).month[c].expense
                    /\ NextMonthStart(now) - now <= Day =>
                          Overview(now).projected[c] = Overview(now).month[c].expense
  BY DEF ProjectionCoversSpent
<1> DEFINE group == Resolved(MonthStart(now), now)
           table == RatesOf(CurrentGroup \cup PreviousGroup \cup group)
           month == Included(group, table)
           spent == Spent(c, month)
           days == (NextMonthStart(now) - MonthStart(now)) \div Day
<1>1. Countable(month)
  BY GroupsAreRows, RatesAreRows, ItemsCount DEF Included
<1>2. Overview(now).month = Totals(month)
  BY DEF Overview
<1>3. Overview(now).projected = [b \in ReportCurrencies |-> Projected(b, month, now)]
  BY DEF Overview
<1> HIDE DEF group, table, month
<1>4. Overview(now).month[c].expense = spent
  BY <1>2, TotalsAre
<1>5. Overview(now).projected[c] = RoundedQuotient(spent * days, ElapsedDays(now))
  BY <1>3 DEF Projected
<1>6. spent \in Nat
  <2>1. Of(c, ExpenseItems(month)) \subseteq month
    BY DEF Of, ExpenseItems
  <2> QED BY <1>1, <2>1, ValueIsNatural DEF Spent
<1>7. Dated(now)
  BY MonthsAssumption DEF Dated
<1>8. /\ days \in Nat /\ ElapsedDays(now) \in Nat /\ ElapsedDays(now) > 0
      /\ ElapsedDays(now) <= days
      /\ NextMonthStart(now) - now <= Day => ElapsedDays(now) = days
  BY <1>7, DaysAre
<1> HIDE DEF spent, days
<1>9. /\ spent <= RoundedQuotient(spent * days, ElapsedDays(now))
      /\ ElapsedDays(now) = days =>
            RoundedQuotient(spent * days, ElapsedDays(now)) = spent
  BY <1>6, <1>8, SpreadCovers
<1>10. RoundedQuotient(spent * days, ElapsedDays(now)) \in Int
  <2> DEFINE p == spent * days  e == ElapsedDays(now)
  <2>1. p \in Nat /\ e \in Nat /\ e > 0
    BY <1>6, <1>8
  <2> HIDE DEF p, e
  <2>2. (2 * p + e) \div (2 * e) \in Nat
    <3>1. 2 * p + e \in Nat /\ 2 * e \in Nat /\ 2 * e > 0
      BY <2>1
    <3> QED BY <3>1, RemainderOf
  <2>3. RoundedQuotient(p, e) = (2 * p + e) \div (2 * e)
    BY DEF RoundedQuotient
  <2> QED BY <2>2, <2>3 DEF p, e
<1> QED BY <1>4, <1>5, <1>6, <1>8, <1>9, <1>10

\* The figures of the reports agree in every state that is kept.
LEMMA AnalyticsAgree == ASSUME AnalyticsKept PROVE AnalyticsInvariant
BY AnalyticsTyped, ReportsAreOne, CompensationIsWithin, ComparisonFair, RatesListedSuffice,
   RepeatsSeen, ProjectionCovers DEF AnalyticsInvariant
-----------------------------------------------------------------------------
\* Points that can be drawn together.
Drawable(P) ==
    /\ IsFiniteSet(P)
    /\ \A p, q \in P : p.start = q.start => p = q
    /\ \A p \in P : p.start \in Nat /\ p.expense \in Nat /\ p.income \in Nat

Earlier(p, P) == {q \in P : q.start < p.start}
InBucket(P, k) == {p \in P : BucketOf(p, P) = k}
BucketNumbers(P) == {BucketOf(p, P) : p \in P}

\* Buckets of this size hold all points.
LEMMA BucketSizeIs ==
    ASSUME NEW P, IsFiniteSet(P)
    PROVE  /\ BucketSize(P) \in Nat /\ BucketSize(P) > 0
           /\ Cardinality(P) \in Nat /\ Cardinality(P) <= BucketSize(P) * MaximumBuckets
<1> DEFINE n == Cardinality(P)
           M == MaximumBuckets
           m == n + M - 1
           b == m \div M
<1>1. n \in Nat /\ M \in Nat /\ M > 0
  BY FS_CardinalityType, DashboardAssumption
<1>2. CASE n <= M
  BY <1>1, <1>2 DEF BucketSize
<1>3. CASE ~(n <= M)
  <2>1. BucketSize(P) = b
    BY <1>3 DEF BucketSize
  <2> HIDE DEF n, M
  <2>2. m \in Nat
    BY <1>1
  <2> HIDE DEF m
  <2>3. b \in Nat /\ m % M \in Nat /\ m % M < M /\ m = M * b + (m % M)
    BY <1>1, <2>2, RemainderOf
  <2> DEFINE r == m % M
             p == M * b
  <2>4. p \in Nat /\ r \in Nat /\ r < M /\ n + M - 1 = p + r
    BY <1>1, <2>3 DEF m
  <2> HIDE DEF r, p
  <2>5. n <= p /\ p > 0
    BY <1>1, <1>3, <2>4
  <2>6. p = b * M /\ b # 0
    <3> HIDE DEF b
    <3>1. M * b = b * M
      BY <1>1, <2>3
    <3>2. b = 0 => M * b = 0
      BY <1>1
    <3> QED BY <2>5, <3>1, <3>2 DEF p
  <2> HIDE DEF b
  <2> QED BY <1>1, <2>1, <2>3, <2>5, <2>6 DEF n, M
<1> QED BY <1>2, <1>3

\* A point has fewer points before it than there are.
LEMMA EarlierIs ==
    ASSUME NEW P, Drawable(P), NEW p \in P
    PROVE  /\ IsFiniteSet(Earlier(p, P)) /\ Cardinality(Earlier(p, P)) \in Nat
           /\ Cardinality(Earlier(p, P)) < Cardinality(P)
<1>1. IsFiniteSet(P) /\ p.start \in Nat
  BY DEF Drawable
<1>2. p \notin Earlier(p, P) /\ Earlier(p, P) \in SUBSET (P \ {p})
  BY <1>1 DEF Earlier
<1>3. IsFiniteSet(P \ {p}) /\ Cardinality(P \ {p}) = Cardinality(P) - 1
  BY <1>1, FS_RemoveElement
<1>4. IsFiniteSet(Earlier(p, P)) /\ Cardinality(Earlier(p, P)) <= Cardinality(P \ {p})
  BY <1>2, <1>3, FS_Subset
<1>5. Cardinality(Earlier(p, P)) \in Nat /\ Cardinality(P) \in Nat
  BY <1>1, <1>4, FS_CardinalityType
<1> QED BY <1>3, <1>4, <1>5

\* Buckets are numbered from zero, fewer than the maximum.
LEMMA BucketOfIs ==
    ASSUME NEW P, Drawable(P), NEW p \in P
    PROVE  /\ BucketOf(p, P) = Cardinality(Earlier(p, P)) \div BucketSize(P)
           /\ BucketOf(p, P) \in 0..(MaximumBuckets - 1)
<1> DEFINE n == Cardinality(Earlier(p, P))
           b == BucketSize(P)
           M == MaximumBuckets
<1>1. BucketOf(p, P) = n \div b
  BY DEF BucketOf, Earlier
<1>2. b \in Nat /\ b > 0 /\ Cardinality(P) \in Nat /\ Cardinality(P) <= b * M
      /\ M \in Nat /\ n \in Nat /\ n < Cardinality(P)
  BY BucketSizeIs, EarlierIs, DashboardAssumption DEF Drawable
<1> HIDE DEF n, b, M
<1>3. n < b * M
  <2> DEFINE z == b * M
  <2>1. z \in Nat /\ Cardinality(P) <= z
    BY <1>2
  <2> HIDE DEF z
  <2>2. n < z
    BY <1>2, <2>1
  <2> QED BY <2>2 DEF z
<1>4. n \div b < M /\ n \div b \in Nat
  BY <1>2, <1>3, QuotientAtMost, RemainderOf
<1> QED BY <1>1, <1>2, <1>4 DEF n, b, M

\* Later points are in later bars.
LEMMA BucketsInOrder ==
    ASSUME NEW P, Drawable(P), NEW p \in P, NEW q \in P, BucketOf(p, P) < BucketOf(q, P)
    PROVE  p.start < q.start
<1>1. p.start \in Nat /\ q.start \in Nat /\ \A x \in P : x.start \in Nat
  BY DEF Drawable
<1>2. SUFFICES ASSUME q.start <= p.start PROVE FALSE
  BY <1>1
<1> DEFINE n == Cardinality(Earlier(q, P))
           m == Cardinality(Earlier(p, P))
           b == BucketSize(P)
<1>3. Earlier(q, P) \in SUBSET Earlier(p, P)
  BY <1>1, <1>2 DEF Earlier
<1>4. n <= m /\ n \in Nat /\ m \in Nat
  BY <1>3, EarlierIs, FS_Subset
<1>5. b \in Nat /\ b > 0
  BY BucketSizeIs DEF Drawable
<1>6. BucketOf(p, P) = m \div b /\ BucketOf(q, P) = n \div b
  BY BucketOfIs
<1> HIDE DEF n, m, b
<1> DEFINE s == n \div b
           r == n % b
<1>7. s \in Nat /\ r \in Nat /\ n = b * s + r
  BY <1>4, <1>5, RemainderOf
<1>8. b * s <= m
  <2> HIDE DEF s, r
  <2> DEFINE z == b * s
  <2>1. z \in Nat /\ n = z + r
    BY <1>5, <1>7
  <2> HIDE DEF z
  <2>2. z <= m
    BY <1>4, <1>7, <2>1
  <2> QED BY <2>2 DEF z
<1>9. s <= m \div b
  <2> HIDE DEF s
  <2> QED BY <1>4, <1>5, <1>7, <1>8, QuotientAtLeast
<1>10. m \div b \in Nat
  BY <1>4, <1>5, RemainderOf
<1> QED BY <1>6, <1>7, <1>9, <1>10

\* What one bar stands for.
LEMMA BucketIs ==
    ASSUME NEW P, Drawable(P), NEW V, V \subseteq P, V # {}
    PROVE  /\ \E p \in V : Bucket(V).start = p.start
           /\ \E p \in V : Bucket(V).end = p.start
           /\ \A p \in V : Bucket(V).start <= p.start /\ p.start <= Bucket(V).end
           /\ Bucket(V).expense = SumOf(ExpenseOf(P), V) /\ Bucket(V).expense \in Nat
           /\ Bucket(V).income = SumOf(IncomeOf(P), V) /\ Bucket(V).income \in Nat
<1> DEFINE f == [p \in P |-> p.start]
           S == {p.start : p \in V}
<1>1. IsFiniteSet(V) /\ \A p \in V : p.start \in Nat
  BY FS_Subset DEF Drawable
<1>2. S = {f[p] : p \in V}
  OBVIOUS
<1> HIDE DEF f
<1>3. IsFiniteSet(S) /\ S # {} /\ S \subseteq Int
  <2>1. S # {} /\ S \subseteq Int
    BY <1>1
  <2> HIDE DEF S
  <2> QED BY <1>1, <1>2, <2>1, ImageFinite
<1>4. Bucket(V).start = Min(S) /\ Bucket(V).end = Max(S)
      /\ Bucket(V).expense = SumOver(LAMBDA p : p.expense, V)
      /\ Bucket(V).income = SumOver(LAMBDA p : p.income, V)
  BY DEF Bucket
<1>5. /\ Min(S) \in S /\ \A y \in S : Min(S) <= y
      /\ Max(S) \in S /\ \A y \in S : y <= Max(S)
  <2> HIDE DEF S
  <2> QED BY <1>3, MinIs, MaxIs
<1>6. \A p \in V : ExpenseOf(V)[p] = ExpenseOf(P)[p] /\ ExpenseOf(P)[p] \in Nat
                   /\ IncomeOf(V)[p] = IncomeOf(P)[p] /\ IncomeOf(P)[p] \in Nat
  BY DEF ExpenseOf, IncomeOf, Drawable
<1>7. SumOver(LAMBDA p : p.expense, V) = SumOf(ExpenseOf(V), V)
  BY <1>1, ExpenseSum
<1>8. SumOver(LAMBDA p : p.income, V) = SumOf(IncomeOf(V), V)
  BY <1>1, IncomeSum
<1>9. /\ SumOf(ExpenseOf(V), V) = SumOf(ExpenseOf(P), V) /\ SumOf(ExpenseOf(P), V) \in Nat
      /\ SumOf(IncomeOf(V), V) = SumOf(IncomeOf(P), V) /\ SumOf(IncomeOf(P), V) \in Nat
  BY <1>1, <1>6, SumSame, SumIsNatural
<1>10. \A p \in V : p.start \in S
  OBVIOUS
<1>11. \A s \in S : \E p \in V : s = p.start
  OBVIOUS
<1> HIDE DEF S
<1> QED BY <1>4, <1>5, <1>7, <1>8, <1>9, <1>10, <1>11

\* Bars of different numbers stand for periods that do not overlap.
LEMMA BucketsApart ==
    ASSUME NEW P, Drawable(P), NEW j \in BucketNumbers(P), NEW k \in BucketNumbers(P), j < k
    PROVE  /\ Bucket(InBucket(P, j)).end < Bucket(InBucket(P, k)).start
           /\ Bucket(InBucket(P, j)).start < Bucket(InBucket(P, k)).start
<1> DEFINE V == InBucket(P, j)
           W == InBucket(P, k)
<1>1. V \subseteq P /\ V # {} /\ W \subseteq P /\ W # {}
  BY DEF InBucket, BucketNumbers
<1>2. \A p \in V, q \in W : p.start < q.start
  BY BucketsInOrder DEF InBucket
<1> HIDE DEF V, W
<1>3. PICK p \in V : Bucket(V).end = p.start
  BY <1>1, BucketIs
<1>4. PICK q \in W : Bucket(W).start = q.start
  BY <1>1, BucketIs
<1>5. PICK r \in V : Bucket(V).start = r.start
  BY <1>1, BucketIs
<1> QED BY <1>2, <1>3, <1>4, <1>5 DEF V, W

\* What is said of the bars of a chart.
BarsSound(B, P) ==
    /\ IsFiniteSet(B) /\ Cardinality(B) <= MaximumBuckets
    /\ \A a, b \in B : a = b \/ a.end < b.start \/ b.end < a.start
    /\ \A b \in B : b.expense \in Nat /\ b.income \in Nat
    /\ SumOver(LAMBDA b : b.expense, B) = SumOver(LAMBDA p : p.expense, P)
    /\ SumOver(LAMBDA b : b.income, B) = SumOver(LAMBDA p : p.income, P)

\* However many points there are, the bars are sound.
LEMMA BucketsAddUp ==
    ASSUME NEW P, Drawable(P)
    PROVE  BarsSound(GroupTimeSeriesIntoBuckets(P), P)
<1> DEFINE K == BucketNumbers(P)
           bar == [k \in K |-> Bucket(InBucket(P, k))]
           B == GroupTimeSeriesIntoBuckets(P)
           key == [p \in P |-> bar[BucketOf(p, P)]]
<1>1. B = {bar[k] : k \in K}
  BY DEF GroupTimeSeriesIntoBuckets, InBucket, BucketNumbers
<1>2. K \subseteq 0..(MaximumBuckets - 1) /\ \A p \in P : BucketOf(p, P) \in K
  BY BucketOfIs DEF BucketNumbers
<1>3. IsFiniteSet(K) /\ Cardinality(K) <= MaximumBuckets /\ Cardinality(K) \in Nat
  <2> DEFINE n == MaximumBuckets - 1
  <2>1. n \in Nat /\ MaximumBuckets = n + 1
    BY DashboardAssumption
  <2>2. K \in SUBSET Nat /\ \A k \in K : k <= n
    BY <1>2
  <2> HIDE DEF K, n
  <2>3. IsFiniteSet(K) /\ Cardinality(K) <= n + 1
    BY <2>1, <2>2, FS_BoundedSetOfNaturals
  <2> QED BY <2>1, <2>3, FS_CardinalityType
<1>4. IsFiniteSet(B) /\ Cardinality(B) <= MaximumBuckets
  <2> HIDE DEF B, K, bar
  <2>1. IsFiniteSet(B) /\ Cardinality(B) <= Cardinality(K)
    BY <1>1, <1>3, ImageFinite
  <2>2. Cardinality(B) \in Nat /\ MaximumBuckets \in Nat
    BY <2>1, FS_CardinalityType, DashboardAssumption
  <2> QED BY <1>3, <2>1, <2>2
<1>5. ASSUME NEW j \in K, NEW k \in K
      PROVE  /\ j = k \/ bar[j].end < bar[k].start \/ bar[k].end < bar[j].start
             /\ bar[j] = bar[k] => j = k
  <2>1. j \in Nat /\ k \in Nat
    BY <1>2
  <2>2. j < k => bar[j].end < bar[k].start /\ bar[j].start < bar[k].start
    BY BucketsApart
  <2>3. k < j => bar[k].end < bar[j].start /\ bar[k].start < bar[j].start
    BY BucketsApart
  <2>4. \A k_1 \in K : \E p \in P : bar[k_1].start = p.start
    <3>1. ASSUME NEW i \in K PROVE \E p \in P : bar[i].start = p.start
      <4>1. InBucket(P, i) \subseteq P /\ InBucket(P, i) # {}
        BY DEF InBucket, BucketNumbers
      <4> QED BY <4>1, BucketIs
    <3> QED BY <3>1
  <2>5. bar[j].start \in Nat /\ bar[k].start \in Nat
    BY <2>4 DEF Drawable
  <2> HIDE DEF bar, K
  <2> QED BY <2>1, <2>2, <2>3, <2>5
<1>6. ASSUME NEW b \in B
      PROVE  /\ b.expense \in Nat /\ b.income \in Nat
             /\ ExpenseOf(B)[b] = SumOfKey(ExpenseOf(P), P, key, b)
             /\ IncomeOf(B)[b] = SumOfKey(IncomeOf(P), P, key, b)
  <2>1. PICK k \in K : b = bar[k]
    BY <1>1
  <2>2. InBucket(P, k) \subseteq P /\ InBucket(P, k) # {}
    BY DEF InBucket, BucketNumbers
  <2>3. /\ b.expense = SumOf(ExpenseOf(P), InBucket(P, k)) /\ b.expense \in Nat
        /\ b.income = SumOf(IncomeOf(P), InBucket(P, k)) /\ b.income \in Nat
    BY <2>1, <2>2, BucketIs
  <2>4. {p \in P : key[p] = b} = InBucket(P, k)
    <3>1. ASSUME NEW p \in P PROVE key[p] = b <=> BucketOf(p, P) = k
      <4>1. key[p] = bar[BucketOf(p, P)] /\ BucketOf(p, P) \in K
        BY <1>2
      <4> HIDE DEF key, bar, K
      <4> QED BY <1>5, <2>1, <4>1
    <3> QED BY <3>1 DEF InBucket
  <2>5. ExpenseOf(B)[b] = b.expense /\ IncomeOf(B)[b] = b.income
    BY DEF ExpenseOf, IncomeOf
  <2> HIDE DEF key, B, K, bar
  <2> QED BY <2>3, <2>4, <2>5 DEF SumOfKey
<1>7. key \in [P -> B]
  BY <1>1, <1>2
<1>8. IsFiniteSet(P) /\ \A p \in P : ExpenseOf(P)[p] \in Int /\ IncomeOf(P)[p] \in Int
  BY DEF ExpenseOf, IncomeOf, Drawable
<1>9. \A a, b \in B : a = b \/ a.end < b.start \/ b.end < a.start
  BY <1>1, <1>5
<1> HIDE DEF B, key, bar, K
<1>10. SumOf(ExpenseOf(B), B) = SumOf(ExpenseOf(P), P)
  BY <1>4, <1>6, <1>7, <1>8, RowsAddUp
<1>11. SumOf(IncomeOf(B), B) = SumOf(IncomeOf(P), P)
  BY <1>4, <1>6, <1>7, <1>8, RowsAddUp
<1>12. SumOver(LAMBDA b : b.expense, B) = SumOver(LAMBDA p : p.expense, P)
  BY <1>4, <1>8, <1>10, ExpenseSum
<1>13. SumOver(LAMBDA b : b.income, B) = SumOver(LAMBDA p : p.income, P)
  BY <1>4, <1>8, <1>11, IncomeSum
<1>14. BarsSound(B, P)
  BY <1>4, <1>6, <1>9, <1>12, <1>13 DEF BarsSound
<1> QED BY <1>14 DEF B
-----------------------------------------------------------------------------
\* A bucket has a bar for its expenses and one for its income.
LEMMA BarsAre ==
    ASSUME NEW b, b.expense \in Nat, b.income \in Nat
    PROVE  Bars(b) = {b.expense, b.income}
<1> DEFINE S == {0, b.income}
<1>1. Magnitude(b.expense) = b.expense
  BY DEF Magnitude
<1>2. IsFiniteSet(S) /\ S # {} /\ S \subseteq Int
  <2>1. IsFiniteSet({0} \cup {b.income})
    BY FS_Singleton, FS_Union
  <2>2. S = {0} \cup {b.income}
    OBVIOUS
  <2> QED BY <2>1, <2>2
<1>3. Max(S) \in S /\ \A y \in S : y <= Max(S)
  <2> HIDE DEF S
  <2> QED BY <1>2, MaxIs
<1>4. Max(S) = b.income
  <2> DEFINE m == Max(S)
  <2>1. m \in {0, b.income} /\ b.income <= m
    BY <1>3
  <2> HIDE DEF m
  <2>2. m = b.income
    BY <2>1
  <2> QED BY <2>2 DEF m
<1> HIDE DEF S
<1>5. Bars(b) = {Magnitude(b.expense), Max(S)}
  BY DEF Bars, S
<1> QED BY <1>1, <1>4, <1>5

\* The highest bar.
LEMMA MaximumIs ==
    ASSUME NEW B, IsFiniteSet(B), \A b \in B : b.expense \in Nat /\ b.income \in Nat
    PROVE  /\ Maximum(B) \in Nat
           /\ \A b \in B : \A v \in Bars(b) : v \in Nat /\ v <= Maximum(B)
           /\ Maximum(B) > 0 => \E b \in B : Maximum(B) \in Bars(b)
<1> DEFINE bars == [b \in B |-> Bars(b)]
           all == UNION {bars[b] : b \in B}
           S == {0} \cup all
<1>1. \A b \in B : bars[b] = {b.expense, b.income}
  BY BarsAre
<1>2. UNION {Bars(b) : b \in B} = all
  OBVIOUS
<1>3. \A b \in B : bars[b] \subseteq Nat /\ IsFiniteSet(bars[b])
  <2>1. ASSUME NEW b \in B PROVE bars[b] \subseteq Nat /\ IsFiniteSet(bars[b])
    <3>1. IsFiniteSet({b.expense} \cup {b.income})
      BY FS_Singleton, FS_Union
    <3>2. bars[b] = {b.expense} \cup {b.income}
      BY <1>1
    <3> HIDE DEF bars
    <3> QED BY <3>1, <3>2
  <2> QED BY <2>1
<1>4. IsFiniteSet(all) /\ all \subseteq Nat
  <2> HIDE DEF bars
  <2>1. IsFiniteSet({bars[b] : b \in B})
    BY ImageFinite
  <2>2. \A T \in {bars[b] : b \in B} : IsFiniteSet(T)
    BY <1>3
  <2>3. IsFiniteSet(all)
    <3> DEFINE Ts == {bars[b] : b \in B}
    <3>1. IsFiniteSet(Ts) /\ \A T \in Ts : IsFiniteSet(T)
      BY <2>1, <2>2
    <3> HIDE DEF Ts
    <3>2. IsFiniteSet(UNION Ts)
      BY <3>1, FS_UNION
    <3> QED BY <3>2 DEF Ts
  <2> QED BY <1>3, <2>3
<1>5. IsFiniteSet(S) /\ S # {} /\ S \subseteq Int /\ S \subseteq Nat
  <2> HIDE DEF all
  <2>1. IsFiniteSet({0})
    BY FS_Singleton
  <2>2. IsFiniteSet({0} \cup all)
    BY <1>4, <2>1, FS_Union
  <2> QED BY <1>4, <2>2
<1>6. Maximum(B) = Max(S)
  BY <1>2 DEF Maximum
<1>7. \A b \in B : Bars(b) \subseteq all
  OBVIOUS
<1>8. \A v \in all : \E b \in B : v \in Bars(b)
  OBVIOUS
<1> HIDE DEF all
<1>9. Max(S) \in S /\ \A y \in S : y <= Max(S)
  <2> HIDE DEF S
  <2> QED BY <1>5, MaxIs
<1> DEFINE m == Max(S)
<1>10. m \in Nat /\ \A y \in S : y <= m
  BY <1>5, <1>9
<1>11. \A b \in B : \A v \in Bars(b) : v \in Nat /\ v <= m
  <2>1. ASSUME NEW b \in B, NEW v \in Bars(b) PROVE v \in S
    BY <1>7 DEF S
  <2> HIDE DEF S, m
  <2> QED BY <1>5, <1>10, <2>1
<1>12. m > 0 => \E b \in B : m \in Bars(b)
  <2>1. m \in {0} \cup all
    BY <1>9 DEF S
  <2> HIDE DEF m
  <2> QED BY <1>8, <2>1
<1> QED BY <1>6, <1>10, <1>11, <1>12

\* Hundredths of a percent of nothing are none.
LEMMA PercentOfNothing ==
    ASSUME NEW v, v \in Nat, NEW h, h = 0
    PROVE  MinorRatioPercent(v, h) = 0
BY DEF MinorRatioPercent

\* They are a natural number.
LEMMA PercentIsNatural ==
    ASSUME NEW v, v \in Nat, NEW h, h \in Nat
    PROVE  MinorRatioPercent(v, h) \in Nat
<1> DEFINE n == v * 10000
<1>1. CASE h = 0
  <2>1. MinorRatioPercent(v, h) = 0
    BY <1>1, PercentOfNothing
  <2> QED BY <2>1
<1>2. CASE h > 0
  <2>1. MinorRatioPercent(v, h) = n \div h /\ n \in Nat
    BY <1>2 DEF MinorRatioPercent, Magnitude
  <2> HIDE DEF n
  <2>2. n \div h \in Nat
    BY <1>2, <2>1, RemainderOf
  <2> QED BY <2>1, <2>2
<1>3. h = 0 \/ h > 0
  OBVIOUS
<1> QED BY <1>1, <1>2, <1>3, Zenon

\* What is at most the largest is at most all of it.
LEMMA PercentIsWithin ==
    ASSUME NEW v, v \in Nat, NEW h, h \in Nat, v <= h
    PROVE  MinorRatioPercent(v, h) \in SharesOfWhole
<1> DEFINE n == v * 10000
           p == MinorRatioPercent(v, h)
<1>1. p \in Nat
  BY PercentIsNatural
<1>2. p < 10001
  <2>1. CASE h = 0
    <3>1. p = 0
      BY <2>1, PercentOfNothing
    <3> HIDE DEF p
    <3> QED BY <3>1
  <2>2. CASE h > 0
    <3>1. p = n \div h
      BY <2>2 DEF MinorRatioPercent, Magnitude
    <3>2. n \in Nat /\ n < h * 10001
      BY <2>2
    <3> HIDE DEF n, p
    <3>3. n \div h < 10001
      BY <2>2, <3>2, QuotientAtMost
    <3> QED BY <3>1, <3>3
  <2>3. h = 0 \/ h > 0
    OBVIOUS
  <2> HIDE DEF p
  <2> QED BY <2>1, <2>2, <2>3
<1> HIDE DEF p
<1>3. p \in SharesOfWhole
  <2>1. p \in Int /\ 0 <= p /\ p <= Whole
    BY <1>1, <1>2 DEF Whole
  <2> QED BY <2>1 DEF SharesOfWhole
<1> QED BY <1>3 DEF p

\* The largest is all of itself.
LEMMA PercentIsWhole ==
    ASSUME NEW h, h \in Nat, h > 0
    PROVE  MinorRatioPercent(h, h) = Whole
<1>1. MinorRatioPercent(h, h) = (h * 10000) \div h
  BY DEF MinorRatioPercent, Magnitude
<1> QED BY <1>1, Quotient DEF Whole

\* Hundredths of a percent of a total are at most the part they stand for.
LEMMA PercentScales ==
    ASSUME NEW v, v \in Nat, NEW h, h \in Nat
    PROVE  h * MinorRatioPercent(v, h) <= 10000 * v
<1> DEFINE n == v * 10000
           p == MinorRatioPercent(v, h)
           z == h * p
           r == n % h
<1>1. p \in Nat
  BY PercentIsNatural
<1>2. n \in Nat
  OBVIOUS
<1>3. h = 0 \/ h > 0
  OBVIOUS
<1>4. z <= 10000 * v
  <2>1. CASE h = 0
    <3> HIDE DEF p
    <3>1. z = 0
      BY <1>1, <2>1
    <3> HIDE DEF z
    <3> QED BY <3>1
  <2>2. CASE h > 0
    <3>1. p = n \div h
      BY <2>2 DEF MinorRatioPercent, Magnitude
    <3>2. r \in Nat /\ n = h * p + r
      <4> HIDE DEF n, p
      <4> QED BY <1>2, <2>2, <3>1, RemainderOf
    <3>3. z \in Nat /\ v * 10000 = z + r
      <4> HIDE DEF p, r
      <4> QED BY <1>1, <3>2
    <3> HIDE DEF z, r, p
    <3> QED BY <3>2, <3>3
  <2> HIDE DEF z
  <2> QED BY <1>3, <2>1, <2>2
<1> HIDE DEF z
<1> QED BY <1>4 DEF z

\* Figures are shown of currencies of the reports.
LEMMA CurrenciesAreReported ==
    ASSUME AnalyticsKept
    PROVE  AvailableCurrencies \subseteq ReportCurrencies
<1>1. Included(CurrentGroup, RatesOf(CurrentGroup)) = Shown
  BY GroupsAreRows, IncludedIsShown DEF CurrentGroup
<1> QED BY <1>1, ShownCounts DEF AvailableCurrencies, Countable

\* Charts add up: series add up to the totals and bars to the series.
LEMMA ChartsSound == ASSUME AnalyticsKept PROVE ChartsAddUp
<1> DEFINE included == Included(CurrentGroup, RatesOf(CurrentGroup))
<1>1. included = Shown
  BY GroupsAreRows, IncludedIsShown DEF CurrentGroup
<1> SUFFICES ASSUME NEW c \in AvailableCurrencies, NEW many \in BOOLEAN
             PROVE  ChartAddsUp(GroupTimeSeriesIntoBuckets(ChartPoints(c, many)),
                                Totals(included)[c])
  BY DEF ChartsAddUp
<1> DEFINE unit == IF many THEN "month" ELSE "day"
           P == ChartPoints(c, many)
           B == GroupTimeSeriesIntoBuckets(P)
           h == Maximum(B)
<1>2. P = ByCurrency(TimeSeries(Shown, unit), c)
  BY TrendsShow DEF ChartPoints
<1>3. PointsSound(P, Shown, unit, c)
  BY <1>2, ShownCounts, SeriesAddUp
<1>4. Drawable(P)
  <2>1. \A i \in Shown : i.at \in {t.at : t \in Ledger}
    BY ShownCounts DEF Countable
  <2>2. \A i \in Shown : StartOf(unit, i.at) \in Nat
    BY <2>1, StartsAreTimes
  <2> HIDE DEF P, unit
  <2> QED BY <1>3, <2>2 DEF PointsSound, Drawable
<1>5. BarsSound(B, P)
  <2> HIDE DEF P
  <2> QED BY <1>4, BucketsAddUp
<1> HIDE DEF P, B, unit
<1>6. c \in ReportCurrencies
  BY CurrenciesAreReported
<1>7. /\ SumOver(LAMBDA b : b.expense, B) = Totals(included)[c].expense
      /\ SumOver(LAMBDA b : b.income, B) = Totals(included)[c].income
  <2>1. /\ Totals(included)[c].expense = Spent(c, Shown)
        /\ Totals(included)[c].income = Earned(c, Shown)
    BY <1>1, <1>6, TotalsAre
  <2> QED BY <1>3, <1>5, <2>1 DEF PointsSound, BarsSound
<1>8. /\ h \in Nat /\ \A b \in B : \A v \in Bars(b) : v \in Nat /\ v <= h
      /\ h > 0 => \E b \in B : h \in Bars(b)
  BY <1>5, MaximumIs DEF BarsSound
<1> HIDE DEF h, included
<1>9. \A b \in B : \A v \in Bars(b) : MinorRatioPercent(v, h) \in SharesOfWhole
  <2> SUFFICES ASSUME NEW b \in B, NEW v \in Bars(b)
               PROVE  MinorRatioPercent(v, h) \in SharesOfWhole
    OBVIOUS
  <2>1. v \in Nat /\ v <= h /\ h \in Nat
    BY <1>8
  <2> QED BY <2>1, PercentIsWithin
<1>10. h > 0 => \E b \in B : \E v \in Bars(b) : MinorRatioPercent(v, h) = Whole
  <2> SUFFICES ASSUME h > 0
               PROVE  \E b \in B : \E v \in Bars(b) : MinorRatioPercent(v, h) = Whole
    OBVIOUS
  <2>1. PICK b \in B : h \in Bars(b)
    BY <1>8
  <2>2. MinorRatioPercent(h, h) = Whole
    BY <1>8, PercentIsWhole
  <2> QED BY <2>1, <2>2
<1>11. /\ Cardinality(B) <= MaximumBuckets
       /\ \A a, b \in B : a = b \/ a.end < b.start \/ b.end < a.start
  BY <1>5 DEF BarsSound
<1>12. ChartAddsUp(B, Totals(included)[c])
  BY <1>7, <1>9, <1>10, <1>11, Zenon DEF ChartAddsUp, h
<1> QED BY <1>12 DEF B, P
-----------------------------------------------------------------------------
\* The leading rows are rows, and few.
LEMMA LeadingIs ==
    ASSUME NEW R, IsFiniteSet(R), \A r \in R : r.amount \in Nat
    PROVE  Leading(R) \subseteq R /\ Cardinality(Leading(R)) <= LeadingRows
<1> DEFINE n == Cardinality(R)
           k == Min({LeadingRows, n})
           f == AmountOf(R)
           g == [r \in R |-> 0]
<1>1. n \in Nat /\ LeadingRows \in Nat
  BY FS_CardinalityType, DashboardAssumption
<1>2. k \in 0..n /\ k <= LeadingRows
  <2> HIDE DEF n
  <2> QED BY <1>1, MinOfTwo
<1>3. \A r \in R : f[r] = r.amount /\ f[r] \in Nat /\ g[r] \in Nat
  BY DEF AmountOf
<1>4. \E top : Tops(R, f, g, k, top)
  <2> HIDE DEF k, f, g
  <2> QED BY <1>2, <1>3, TopExists
<1>5. Leading(R) = CHOOSE top \in SUBSET R :
         /\ Cardinality(top) = k /\ \A r \in top, q \in R \ top : r.amount >= q.amount
  BY DEF Leading
<1> HIDE DEF k, f, g
<1>6. \E top \in SUBSET R :
         /\ Cardinality(top) = k /\ \A r \in top, q \in R \ top : r.amount >= q.amount
  <2>1. PICK top : Tops(R, f, g, k, top)
    BY <1>4
  <2>2. top \in SUBSET R /\ Cardinality(top) = k
    BY <2>1 DEF Tops
  <2>3. ASSUME NEW r \in top, NEW q \in R \ top PROVE r.amount >= q.amount
    <3>1. f[r] > f[q] \/ (f[r] = f[q] /\ g[r] >= g[q])
      BY <2>1, <2>3 DEF Tops
    <3>2. r \in R /\ q \in R
      BY <2>2, <2>3
    <3> QED BY <1>3, <3>1, <3>2
  <2> QED BY <2>2, <2>3
<1> QED BY <1>2, <1>5, <1>6
-----------------------------------------------------------------------------
\* The shares of rows in their total.
ShareOf(R, total) == [r \in R |-> MinorRatioPercent(r.amount, total)]

\* The sum of the shares as a sum of a function.
LEMMA ShareSum ==
    ASSUME NEW R, IsFiniteSet(R), NEW total
    PROVE  SumOver(LAMBDA r : MinorRatioPercent(r.amount, total), R) = SumOf(ShareOf(R, total), R)
<1>1. SumOver(LAMBDA r : MinorRatioPercent(r.amount, total), R) = SumFunction(ShareOf(R, total))
  BY DEF SumOver, ShareOf
<1>2. DOMAIN ShareOf(R, total) = R
  BY DEF ShareOf
<1> QED BY <1>1, <1>2, SumIs

\* ShareOf of a total are at most the whole.
LEMMA SharesWithin ==
    ASSUME NEW R, IsFiniteSet(R), \A r \in R : r.amount \in Nat,
           NEW total, total = SumOf(AmountOf(R), R)
    PROVE  SumOf(ShareOf(R, total), R) <= 10000
<1> DEFINE w == ShareOf(R, total)
<1>1. \A r \in R : AmountOf(R)[r] = r.amount
  BY DEF AmountOf
<1>2. total \in Nat
  BY <1>1, SumIsNatural
<1>3. \A r \in R : w[r] = MinorRatioPercent(r.amount, total)
  BY DEF ShareOf
<1>4. CASE total = 0
  <2>1. \A r \in R : w[r] = 0
    BY <1>3, <1>4 DEF MinorRatioPercent
  <2> HIDE DEF w
  <2>2. SumOf(w, R) = 0
    BY <2>1, SumOfZeros
  <2> QED BY <2>2 DEF w
<1>5. CASE total > 0
  <2> HIDE DEF w
  <2>1. \A r \in R : w[r] \in Nat
    <3> SUFFICES ASSUME NEW r \in R PROVE w[r] \in Nat
      OBVIOUS
    <3>1. r.amount \in Nat /\ w[r] = MinorRatioPercent(r.amount, total)
      BY <1>3
    <3>2. MinorRatioPercent(r.amount, total) \in Nat
      BY <1>2, <3>1, PercentIsNatural
    <3> QED BY <3>1, <3>2
  <2>2. \A r \in R : total * w[r] <= 10000 * AmountOf(R)[r]
    <3>1. ASSUME NEW r \in R PROVE total * w[r] <= 10000 * AmountOf(R)[r]
      <4>1. total * MinorRatioPercent(r.amount, total) <= 10000 * r.amount
        BY <1>2, PercentScales
      <4>2. w[r] = MinorRatioPercent(r.amount, total) /\ AmountOf(R)[r] = r.amount
        BY <1>1, <1>3
      <4>3. total \in Int /\ w[r] \in Int /\ r.amount \in Int
        BY <1>2, <2>1
      <4> DEFINE x == w[r]
                 y == AmountOf(R)[r]
      <4>4. total * x <= 10000 * y /\ x \in Int /\ y \in Int
        <5> HIDE DEF x, y
        <5>1. x = MinorRatioPercent(r.amount, total) /\ y = r.amount
          BY <4>2 DEF x, y
        <5> QED BY <4>1, <4>2, <4>3, <5>1
      <4> QED BY <4>4
    <3> QED BY <3>1
  <2>3. \A r \in R : w[r] \in Int /\ AmountOf(R)[r] \in Int
                     /\ total * w[r] <= 10000 * AmountOf(R)[r]
    <3>1. ASSUME NEW r \in R PROVE w[r] \in Int /\ AmountOf(R)[r] \in Int
      <4>1. w[r] \in Nat /\ r.amount \in Nat /\ AmountOf(R)[r] = r.amount
        BY <1>1, <2>1
      <4> QED BY <4>1
    <3> QED BY <2>2, <3>1
  <2>4. total * SumOf(w, R) <= 10000 * SumOf(AmountOf(R), R)
    <3>1. 10000 \in Nat
      OBVIOUS
    <3> QED BY <1>2, <2>3, <3>1, SumScaled
  <2>5. SumOf(w, R) \in Nat
    BY <2>1, SumIsNatural
  <2>6. SumOf(w, R) <= 10000
    <3>1. 10000 \in Nat /\ total * SumOf(w, R) <= 10000 * total
      BY <2>4
    <3> QED BY <1>2, <1>5, <2>5, <3>1, AtMostByScale
  <2> QED BY <2>6 DEF w
<1> QED BY <1>2, <1>4, <1>5

\* The leading rows and the others are all rows.
LEMMA RanksAddUp ==
    ASSUME NEW R, IsFiniteSet(R), \A r \in R : r.amount \in Nat
    PROVE  RankingAddsUp(R, SumOver(RowAmount, R))
<1> DEFINE top == Leading(R)
           total == SumOver(RowAmount, R)
<1>1. top \subseteq R /\ Cardinality(top) <= LeadingRows
  BY LeadingIs
<1>2. total = SumOf(AmountOf(R), R)
  BY AmountSum
<1>3. SumOver(RowAmount, top) = SumOf(AmountOf(R), top)
  BY <1>1, AmountSum
<1>4. Other(R) = SumOf(AmountOf(R), R \ top)
  <2>1. R \ top \subseteq R
    OBVIOUS
  <2>2. SumOver(RowAmount, R \ top) = SumOf(AmountOf(R), R \ top)
    BY <2>1, AmountSum
  <2> QED BY <2>2 DEF Other
<1>5. total = SumOver(RowAmount, top) + Other(R)
  <2>1. \A r \in R : AmountOf(R)[r] \in Int
    BY DEF AmountOf
  <2>2. SumOf(AmountOf(R), R) = SumOf(AmountOf(R), top) + SumOf(AmountOf(R), R \ top)
    <3> HIDE DEF top
    <3> QED BY <1>1, <2>1, SumOfTwoParts
  <2> QED BY <1>2, <1>3, <1>4, <2>2
<1>6. SumOver(LAMBDA r : MinorRatioPercent(r.amount, total), R) <= Whole
  <2> HIDE DEF total
  <2>1. SumOf(ShareOf(R, total), R) <= 10000
    BY <1>2, SharesWithin
  <2>2. SumOver(LAMBDA r : MinorRatioPercent(r.amount, total), R) = SumOf(ShareOf(R, total), R)
    BY ShareSum
  <2> QED BY <2>1, <2>2 DEF Whole
<1> HIDE DEF total
<1>7. RankingAddsUp(R, total)
  BY <1>1, <1>5, <1>6 DEF RankingAddsUp
<1> QED BY <1>7 DEF total

\* Rankings add up: the rows of the categories add up to the expense.
LEMMA RankingsSound == ASSUME AnalyticsKept PROVE RankingsAddUp
<1> DEFINE included == Included(CurrentGroup, RatesOf(CurrentGroup))
           E == ExpenseItems(Shown)
<1>1. included = Shown
  BY GroupsAreRows, IncludedIsShown DEF CurrentGroup
<1> SUFFICES ASSUME NEW c \in AvailableCurrencies
             PROVE  RankingAddsUp(ByCurrency(Breakdowns.categories, c), Totals(included)[c].expense)
  BY DEF RankingsAddUp
<1> DEFINE R == ByCurrency(GroupAmounts(E, "category"), c)
<1>2. ByCurrency(Breakdowns.categories, c) = R
  BY BreakdownsShow
<1>3. Countable(E)
  BY ShownCounts
<1>4. IsFiniteSet(R) /\ SumOver(RowAmount, R) = SumOver(Value, Of(c, E))
  BY <1>3, GroupsAddUp DEF ByCurrency, AmountIn
<1>5. \A r \in R : r.amount \in Nat
  BY <1>3, GroupRowsAreNatural DEF ByCurrency
<1>6. c \in ReportCurrencies
  BY CurrenciesAreReported
<1>7. Totals(included)[c].expense = SumOver(RowAmount, R)
  <2>1. Totals(Shown)[c].expense = Spent(c, Shown)
    BY <1>6, TotalsAre
  <2> QED BY <1>1, <1>4, <2>1 DEF Spent
<1> HIDE DEF R, included
<1>8. RankingAddsUp(R, SumOver(RowAmount, R))
  BY <1>4, <1>5, RanksAddUp
<1> QED BY <1>2, <1>7, <1>8
-----------------------------------------------------------------------------
\* A transaction in its own currency.
Own(t) == Item(t, figures[t.id].value, figures[t.id].compensated, t.currency)
Owned(T) == {Own(t) : t \in T}
Magnitudes(T) == [t \in T |-> figures[t.id].value]

\* It has the fields of the transaction.
LEMMA OwnIs ==
    ASSUME NEW t
    PROVE  /\ ItemOf(Own(t), t) /\ Own(t).value = figures[t.id].value
           /\ Own(t).currency = t.currency
  BY DEF Own, Item, ItemOf

\* Two transactions have two items.
LEMMA OwnIsOne ==
    ASSUME NEW t \in Ledger, NEW u \in Ledger, Own(t) = Own(u)
    PROVE  t = u
<1>1. t.id = u.id
  BY OwnIs DEF ItemOf
<1> QED BY <1>1, AnalyticsAssumption

\* Rows of the ledger add up to their items.
LEMMA OwnAddUp ==
    ASSUME AnalyticsKept, NEW T, T \subseteq Ledger
    PROVE  SumOver(LAMBDA t : figures[t.id].value, T) = SumOver(Value, Owned(T))
<1> DEFINE w == Magnitudes(T)
           I == Owned(T)
           key == [t \in T |-> Own(t)]
<1>1. IsFiniteSet(T)
  BY AnalyticsAssumption, FS_Subset
<1>2. I = {key[t] : t \in T}
  BY DEF Owned
<1>3. key \in [T -> I] /\ \A t \in T : key[t] = Own(t)
  BY DEF Owned
<1>4. \A t \in T : w[t] = figures[t.id].value /\ w[t] \in Int
  <2>1. \A t \in T : figures[t.id].value \in Nat
    BY FigureIs
  <2> QED BY <2>1 DEF Magnitudes
<1>5. SumOver(LAMBDA t : figures[t.id].value, T) = SumOf(w, T)
  <2>1. SumOver(LAMBDA t : figures[t.id].value, T) = SumFunction(w)
    BY DEF SumOver, Magnitudes
  <2>2. DOMAIN w = T
    BY DEF Magnitudes
  <2> HIDE DEF w
  <2> QED BY <1>1, <2>1, <2>2, SumIs
<1> HIDE DEF key
<1>6. IsFiniteSet(I)
  <2> HIDE DEF I
  <2> QED BY <1>1, <1>2, ImageFinite
<1>7. ASSUME NEW i \in I PROVE Worth(I)[i] = SumOfKey(w, T, key, i)
  <2>1. PICK t \in T : i = Own(t)
    BY DEF Owned
  <2>2. {x \in T : key[x] = i} = {} \cup {t}
    <3>1. ASSUME NEW x \in T, key[x] = i PROVE x = t
      BY <1>3, <2>1, <3>1, OwnIsOne
    <3>2. key[t] = i
      BY <1>3, <2>1
    <3> QED BY <3>1, <3>2
  <2>3. SumOf(w, {} \cup {t}) = w[t]
    <3>1. \A x \in {} \cup {t} : w[x] \in Int
      BY <1>4
    <3>2. IsFiniteSet({}) /\ t \notin {}
      BY FS_EmptySet
    <3> HIDE DEF w
    <3>3. SumOf(w, {} \cup {t}) = w[t] + SumOf(w, {})
      BY <3>1, <3>2, SumAdd
    <3>4. SumOf(w, {}) = 0 /\ w[t] \in Int
      BY <1>4, SumEmpty
    <3> QED BY <3>3, <3>4
  <2>4. SumOfKey(w, T, key, i) = w[t]
    <3> HIDE DEF w
    <3>1. SumOfKey(w, T, key, i) = SumOf(w, {} \cup {t})
      BY <2>2, Zenon DEF SumOfKey
    <3> QED BY <2>3, <3>1
  <2>5. Worth(I)[i] = i.value
    BY DEF Worth
  <2>6. i.value = figures[t.id].value
    BY <2>1, OwnIs
  <2> QED BY <1>4, <2>4, <2>5, <2>6
<1> HIDE DEF w, I
<1>8. \A t \in T : w[t] \in Int
  BY <1>4
<1>9. SumOf(Worth(I), I) = SumOf(w, T)
  BY <1>1, <1>3, <1>6, <1>7, <1>8, RowsAddUp
<1>10. SumOver(Value, I) = SumOf(Worth(I), I)
  BY <1>6, ValueSum
<1> QED BY <1>5, <1>9, <1>10 DEF I

\* Without conversion, what the reports show are the transactions themselves.
LEMMA ShownIs ==
    ASSUME filters.base = "original"
    PROVE  Shown = Owned({t \in CurrentGroup : figures[t.id].excluded = FALSE})
<1> DEFINE U == {t \in CurrentGroup : figures[t.id].excluded = FALSE}
<1>1. \A t : InBase(t, RateTable) = {Own(t)}
  BY DEF InBase, Own
<1>2. Shown = UNION {InBase(t, RateTable) : t \in U}
  BY DEF Shown, Included, Counted
<1> HIDE DEF U
<1>3. UNION {InBase(t, RateTable) : t \in U} = Owned(U)
  BY <1>1 DEF Owned
<1> QED BY <1>2, <1>3 DEF U

\* What a link selects of what is shown.
Selected(c, direction, category) ==
    {i \in Shown : i.currency = c /\ i.direction = direction /\ category \in {"any", i.category}}

\* A link opens the transactions whose items it selects, and they add up alike.
LEMMA LinkSelects ==
    ASSUME AnalyticsKept, NEW c, NEW direction \in {"expense", "income"}, NEW category,
           NEW f \in AnalyticsTransactionFilters(c, direction, category)
    PROVE  LinkedAmount(f) = SumOver(Value, Selected(c, direction, category))
<1>1. filters.base = "original"
  BY DEF AnalyticsTransactionFilters
<1>2. f = [accounts |-> filters.accounts, from |-> filters.period.from,
           to |-> filters.period.to, currency |-> c, direction |-> direction,
           category |-> category, excluded |-> FALSE]
  BY DEF AnalyticsTransactionFilters
<1>3. /\ f.accounts = filters.accounts /\ f.from = filters.period.from
      /\ f.to = filters.period.to /\ f.currency = c /\ f.direction = direction
      /\ f.category = category /\ f.excluded = FALSE
  BY <1>2
<1> DEFINE L == Linked(f)
           U == {t \in CurrentGroup : figures[t.id].excluded = FALSE}
<1>4. \A t : t \in L <=> /\ t \in U /\ t.currency = c /\ t.direction = direction
                         /\ category \in {"any", t.category}
  <2>1. \A t : t \in CurrentGroup <=>
           /\ t \in Ledger /\ t.at >= f.from /\ t.at <= f.to
           /\ f.accounts = {} \/ t.account \in f.accounts
    BY <1>3 DEF CurrentGroup, Resolved
  <2>2. \A t : t \in L <=>
           /\ t \in Ledger /\ (f.accounts = {} \/ t.account \in f.accounts)
           /\ t.at >= f.from /\ t.at <= f.to
           /\ t.currency = c /\ direction \in {"any", t.direction}
           /\ category \in {"any", t.category} /\ figures[t.id].excluded = FALSE
    BY <1>3 DEF Linked
  <2>3. direction # "any"
    OBVIOUS
  <2> QED BY <2>1, <2>2, <2>3
<1>5. Shown = Owned(U)
  BY <1>1, ShownIs
<1> HIDE DEF L, U
<1>6. Owned(L) = Selected(c, direction, category)
  <2>1. ASSUME NEW t
        PROVE  /\ Own(t).currency = t.currency /\ Own(t).direction = t.direction
               /\ Own(t).category = t.category
    BY OwnIs DEF ItemOf
  <2>2. ASSUME NEW i \in Owned(L) PROVE i \in Selected(c, direction, category)
    <3>1. PICK t \in L : i = Own(t)
      BY DEF Owned
    <3>2. i \in Owned(U)
      BY <1>4, <3>1 DEF Owned
    <3> QED BY <1>4, <1>5, <2>1, <3>1, <3>2 DEF Selected
  <2>3. ASSUME NEW i \in Selected(c, direction, category) PROVE i \in Owned(L)
    <3>1. i \in Owned(U) /\ i.currency = c /\ i.direction = direction
          /\ category \in {"any", i.category}
      BY <1>5 DEF Selected
    <3>2. PICK t \in U : i = Own(t)
      BY <3>1 DEF Owned
    <3>3. t \in L
      BY <1>4, <2>1, <3>1, <3>2
    <3> QED BY <3>2, <3>3 DEF Owned
  <2> QED BY <2>2, <2>3
<1>7. L \subseteq Ledger
  BY DEF L, Linked
<1>8. LinkedAmount(f) = SumOver(LAMBDA t : figures[t.id].value, L)
  BY DEF LinkedAmount, L
<1>9. SumOver(LAMBDA t : figures[t.id].value, L) = SumOver(Value, Owned(L))
  BY <1>7, OwnAddUp
<1> QED BY <1>6, <1>8, <1>9

\* Links explain figures: the items they select are those of the figure.
LEMMA FiguresExplained == ASSUME AnalyticsKept PROVE LedgerExplains
<1> DEFINE included == Included(CurrentGroup, RatesOf(CurrentGroup))
           E == ExpenseItems(Shown)
<1>1. included = Shown
  BY GroupsAreRows, IncludedIsShown DEF CurrentGroup
<1>2. ASSUME NEW i \in Shown PROVE i.direction \in {"expense", "income"}
  BY ShownCounts DEF Countable
<1>3. ASSUME NEW c \in AvailableCurrencies,
             NEW f \in AnalyticsTransactionFilters(c, "expense", "any")
      PROVE  LinkedAmount(f) = Totals(included)[c].expense
  <2>1. Selected(c, "expense", "any") = Of(c, ExpenseItems(Shown))
    BY DEF Selected, Of, ExpenseItems
  <2>2. Totals(Shown)[c].expense = Spent(c, Shown)
    BY CurrenciesAreReported, TotalsAre
  <2>3. LinkedAmount(f) = SumOver(Value, Selected(c, "expense", "any"))
    BY LinkSelects
  <2> QED BY <1>1, <2>1, <2>2, <2>3 DEF Spent
<1>4. ASSUME NEW c \in AvailableCurrencies,
             NEW f \in AnalyticsTransactionFilters(c, "income", "any")
      PROVE  LinkedAmount(f) = Totals(included)[c].income
  <2>1. Selected(c, "income", "any") = Of(c, Shown \ ExpenseItems(Shown))
    BY <1>2 DEF Selected, Of, ExpenseItems
  <2>2. Totals(Shown)[c].income = Earned(c, Shown)
    BY CurrenciesAreReported, TotalsAre
  <2>3. LinkedAmount(f) = SumOver(Value, Selected(c, "income", "any"))
    BY LinkSelects
  <2> QED BY <1>1, <2>1, <2>2, <2>3 DEF Earned
<1>5. ASSUME NEW c \in AvailableCurrencies, NEW figure \in ByCurrency(Breakdowns.categories, c),
             NEW f \in AnalyticsTransactionFilters(c, "expense", figure.key)
      PROVE  LinkedAmount(f) = figure.amount
  <2>1. figure \in GroupAmounts(E, "category") /\ figure.currency = c
    BY BreakdownsShow DEF ByCurrency
  <2>2. PICK i \in E : figure = GroupRow(E, "category", i["category"], i.currency)
    BY <2>1, GroupRows
  <2>3. /\ figure.key = i["category"] /\ figure.currency = i.currency
        /\ figure.amount = SumOver(Value, {j \in E : j["category"] = i["category"]
                                                   /\ j.currency = i.currency})
    BY <2>2 DEF GroupRow
  <2>4. {j \in E : j["category"] = i["category"] /\ j.currency = i.currency}
          = Selected(c, "expense", figure.key)
    <3>1. figure.key # "any"
      <4>1. filters.base = "original"
        BY DEF AnalyticsTransactionFilters
      <4>2. PICK t \in CurrentGroup : i = Own(t)
        BY <4>1, ShownIs DEF Owned, ExpenseItems
      <4>3. t \in Ledger
        BY GroupsAreRows DEF CurrentGroup
      <4>4. i.category = t.category
        BY <4>2, OwnIs DEF ItemOf
      <4> QED BY <2>3, <4>3, <4>4, AnalyticsAssumption
    <3> QED BY <2>1, <2>3, <3>1 DEF Selected, ExpenseItems
  <2>5. LinkedAmount(f) = SumOver(Value, Selected(c, "expense", figure.key))
    BY LinkSelects
  <2> HIDE DEF E
  <2> QED BY <2>3, <2>4, <2>5
<1> HIDE DEF included
<1> QED BY <1>3, <1>4, <1>5 DEF LedgerExplains, included

\* The figures of the dashboard agree in every state the invariant allows.
LEMMA DashboardAgrees == ASSUME AnalyticsKept PROVE DashboardInvariant
  BY AnalyticsAgree, ChartsSound, RankingsSound, FiguresExplained DEF DashboardInvariant

\* In every state of every behaviour of analytics, for any ledger, rates, months and
\* periods, the figures of the page, from the reports to the bars, the rankings and the
\* links, stand for the same transactions (worker/services/analytics.ts and
\* dashboard widgets).
THEOREM DashboardAddsUp == AnalyticsSpec => []DashboardInvariant
<1>1. AnalyticsKept => DashboardInvariant
  BY DashboardAgrees
<1> QED BY <1>1, AnalyticsHolds, PTL
=============================================================================
