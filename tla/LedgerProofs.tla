---------------------------- MODULE LedgerProofs ----------------------------
(* The ledger: the categories its transactions refer to, under any number  *)
(* of concurrent requests, and the pages that are shown of it, while rows  *)
(* are imported and corrected.                                             *)
EXTENDS Categories, LedgerPages, DataTheorems, TLAPS

\* What a request remembers are ids; a merge has two of them.
Sound(q) ==
    /\ q.pc \in {"find merged", "merge"} =>
         {q.source, q.target} \subseteq Ids /\ q.source # q.target
    /\ q.pc \in {"count overrides", "count mappings", "delete"} => q.category \in Ids

\* The tables are functions, and every reference names an existing row.
Inv ==
    /\ name \in [Ids -> Names \cup {None}]
    /\ override \in [Transactions -> Ids \cup {None}]
    /\ mapping \in [Sources -> Ids \cup {None}]
    /\ used \subseteq Ids
    /\ request = [r \in Requests |-> request[r]]
    /\ \A r \in Requests : Sound(request[r])
    /\ ReferencesExist

\* The statement an assignment or a reset runs on the two reference tables.
LEMMA WriteKeepsReferences ==
    ASSUME Inv, NEW x, NEW c \in Existing \cup {None}, Write(x, c), name' = name
    PROVE  /\ override' \in [Transactions -> Ids \cup {None}]
           /\ mapping' \in [Sources -> Ids \cup {None}]
           /\ ReferencesExist'
  BY DEF Inv, ReferencesExist, Existing, Write

\* A merge batch that commits leaves no reference to the category it removes.
LEMMA MergeKeepsReferences ==
    ASSUME Inv, NEW source, NEW target, source # target,
           target \in Ids, source \in Ids,
           MergePossible(source, target),
           override' = Redirected(override, source, target),
           mapping' = Redirected(mapping, source, target),
           name' = [name EXCEPT ![source] = None]
    PROVE  /\ name' \in [Ids -> Names \cup {None}]
           /\ override' \in [Transactions -> Ids \cup {None}]
           /\ mapping' \in [Sources -> Ids \cup {None}]
           /\ ReferencesExist'
  <1>1. /\ name' \in [Ids -> Names \cup {None}]
        /\ Existing' = Existing \ {source}
    BY DEF Inv, Existing
  <1>2. ASSUME NEW t \in Transactions
        PROVE  /\ override'[t] \in Ids \cup {None}
               /\ override'[t] \in Existing' \cup {None}
    BY <1>1 DEF Inv, ReferencesExist, MergePossible, Redirected, Overridden
  <1>3. ASSUME NEW s \in Sources
        PROVE  /\ mapping'[s] \in Ids \cup {None}
               /\ mapping'[s] \in Existing' \cup {None}
    BY <1>1 DEF Inv, ReferencesExist, MergePossible, Redirected, Mapped
  <1>4. /\ override' = [t \in Transactions |-> override'[t]]
        /\ mapping' = [s \in Sources |-> mapping'[s]]
    BY DEF Inv, Redirected
  <1> QED BY <1>1, <1>2, <1>3, <1>4 DEF ReferencesExist
LEMMA GoKeepsRequests ==
    ASSUME NEW r \in Requests, NEW state, Go(r, state), Inv, Sound(state)
    PROVE  /\ request' = [x \in Requests |-> request'[x]]
           /\ \A x \in Requests : Sound(request'[x])
  BY DEF Go, Inv

LEMMA AnswerKeepsRequests ==
    ASSUME NEW r \in Requests, NEW status, Answer(r, status), Inv
    PROVE  /\ request' = [x \in Requests |-> request'[x]]
           /\ \A x \in Requests : Sound(request'[x])
  <1>1. Sound([pc |-> "answered", status |-> status])
    BY DEF Sound
  <1> QED BY <1>1, GoKeepsRequests DEF Answer

\* A step that leaves the tables alone and brings its request to a sound state.
LEMMA ReadKeepsInv ==
    ASSUME NEW r \in Requests, Inv, UNCHANGED tables,
           \/ \E state : Go(r, state) /\ Sound(state)
           \/ \E status : Answer(r, status)
    PROVE  Inv'
  <1>1. /\ request' = [x \in Requests |-> request'[x]]
        /\ \A x \in Requests : Sound(request'[x])
    BY GoKeepsRequests, AnswerKeepsRequests
  <1> QED BY <1>1 DEF Inv, tables, ReferencesExist, Existing, Sound

\* The steps that write a table.
LEMMA WriteKeepsInv ==
    ASSUME NEW r \in Requests, Inv,
           \/ CreateCategory(r) \/ Rename(r) \/ DeleteCategory(r)
           \/ MergeCategories(r) \/ Assign(r) \/ Reset(r)
    PROVE  Inv'
  <1> USE CategoriesAssumption
  <1>1. CASE CreateCategory(r)
    <2>1. /\ request' = [x \in Requests |-> request'[x]]
          /\ \A x \in Requests : Sound(request'[x])
      BY <1>1, AnswerKeepsRequests DEF CreateCategory
    <2>2. Existing \subseteq Existing'
      BY <1>1 DEF CreateCategory, Existing, Inv
    <2>3. ReferencesExist'
      BY <1>1, <2>2 DEF CreateCategory, Inv, ReferencesExist
    <2>4. name' \in [Ids -> Names \cup {None}] /\ used' \subseteq Ids
      BY <1>1 DEF CreateCategory, Inv
    <2> QED BY <1>1, <2>1, <2>3, <2>4 DEF CreateCategory, Inv
  <1>2. CASE Rename(r)
    <2>1. PICK c \in used, n \in Names :
            /\ name' = [name EXCEPT ![c] = IF name[c] = None THEN None ELSE n]
            /\ Go(r, [pc |-> "renamed", category |-> c])
      BY <1>2 DEF Rename
    <2>2. Sound([pc |-> "renamed", category |-> c])
      BY DEF Sound
    <2>3. /\ request' = [x \in Requests |-> request'[x]]
          /\ \A x \in Requests : Sound(request'[x])
      BY <2>1, <2>2, GoKeepsRequests
    <2>4. Existing' = Existing
      BY <2>1 DEF Existing, Inv
    <2>5. ReferencesExist'
      BY <1>2, <2>4 DEF Rename, Inv, ReferencesExist
    <2>6. name' \in [Ids -> Names \cup {None}]
      BY <2>1 DEF Inv
    <2> QED BY <1>2, <2>3, <2>5, <2>6 DEF Rename, Inv
  <1>3. CASE DeleteCategory(r)
    <2> DEFINE c == request[r].category
    <2>1. /\ request' = [x \in Requests |-> request'[x]]
          /\ \A x \in Requests : Sound(request'[x])
      BY <1>3, AnswerKeepsRequests DEF DeleteCategory
    <2>2. Existing' = Existing \ {c}
      BY <1>3 DEF DeleteCategory, Existing, Inv
    <2>3. ReferencesExist'
      BY <1>3, <2>2 DEF DeleteCategory, Inv, ReferencesExist, Overridden, Mapped
    <2> QED BY <1>3, <2>1, <2>3 DEF DeleteCategory, Inv, Sound
  <1>4. CASE MergeCategories(r)
    <2>1. /\ request' = [x \in Requests |-> request'[x]]
          /\ \A x \in Requests : Sound(request'[x])
      BY <1>4, AnswerKeepsRequests DEF MergeCategories
    <2>2. /\ {request[r].source, request[r].target} \subseteq Ids
          /\ request[r].source # request[r].target
      BY <1>4 DEF MergeCategories, At, Inv, Sound
    <2>3. /\ name' \in [Ids -> Names \cup {None}]
          /\ override' \in [Transactions -> Ids \cup {None}]
          /\ mapping' \in [Sources -> Ids \cup {None}]
          /\ ReferencesExist'
      BY <1>4, <2>2, MergeKeepsReferences DEF MergeCategories
    <2> QED BY <1>4, <2>1, <2>3 DEF MergeCategories, Inv, Sound
  <1>5. CASE Assign(r)
    <2>1. /\ request' = [x \in Requests |-> request'[x]]
          /\ \A x \in Requests : Sound(request'[x])
      BY <1>5, AnswerKeepsRequests DEF Assign
    <2> QED BY <1>5, <2>1, WriteKeepsReferences DEF Assign, Inv, Sound
  <1>6. CASE Reset(r)
    <2>1. /\ request' = [x \in Requests |-> request'[x]]
          /\ \A x \in Requests : Sound(request'[x])
      BY <1>6, AnswerKeepsRequests DEF Reset
    <2> QED BY <1>6, <2>1, WriteKeepsReferences DEF Reset, Inv, Sound
  <1> QED BY <1>1, <1>2, <1>3, <1>4, <1>5, <1>6
LEMMA ServeKeepsInv ==
    ASSUME NEW r \in Requests, Inv, Serve(r)
    PROVE  Inv'
  <1>1. CASE CreateCategory(r) \/ Rename(r) \/ DeleteCategory(r)
             \/ MergeCategories(r) \/ Assign(r) \/ Reset(r)
    BY <1>1, WriteKeepsInv
  <1>2. CASE ReadRenamed(r) \/ DeleteAborted(r) \/ MergeAborted(r) \/ AssignAborted(r)
    BY <1>2, ReadKeepsInv DEF ReadRenamed, DeleteAborted, MergeAborted, AssignAborted
  <1>3. CASE BeginDelete(r)
    <2>1. \A c \in used : Sound([pc |-> "count overrides", category |-> c])
      BY DEF Sound, Inv
    <2> QED BY <1>3, <2>1, ReadKeepsInv DEF BeginDelete
  <1>4. CASE CountOverrides(r)
    <2>1. Sound([pc |-> "count mappings", category |-> request[r].category])
      BY <1>4 DEF Sound, Inv, CountOverrides, At
    <2> QED BY <1>4, <2>1, ReadKeepsInv DEF CountOverrides
  <1>5. CASE CountSourceMappings(r)
    <2>1. Sound([pc |-> "delete", category |-> request[r].category])
      BY <1>5 DEF Sound, Inv, CountSourceMappings, At
    <2> QED BY <1>5, <2>1, ReadKeepsInv DEF CountSourceMappings
  <1>6. CASE BeginMerge(r)
    <2>1. PICK source \in used, target \in used :
            /\ source # target
            /\ Go(r, [pc |-> "find merged", source |-> source, target |-> target,
                      pending |-> {source, target}, found |-> TRUE])
      BY <1>6 DEF BeginMerge
    <2>2. Sound([pc |-> "find merged", source |-> source, target |-> target,
                 pending |-> {source, target}, found |-> TRUE])
      BY <2>1 DEF Sound, Inv
    <2> QED BY <1>6, <2>1, <2>2, ReadKeepsInv DEF BeginMerge
  <1>7. CASE FindMerged(r)
    <2> DEFINE q == request[r]
               merge == [pc |-> "merge", source |-> q.source, target |-> q.target]
    <2>1. Sound(q) /\ q.pc = "find merged"
      BY <1>7 DEF Inv, FindMerged, At
    <2>2. Sound(merge)
      BY <2>1 DEF Sound
    <2>3. ASSUME NEW c, NEW found
          PROVE  Sound([pc |-> "find merged", source |-> q.source, target |-> q.target,
                       pending |-> q.pending \ {c}, found |-> found])
      BY <2>1 DEF Sound
    <2> QED BY <1>7, <2>2, <2>3, ReadKeepsInv DEF FindMerged
  <1>8. CASE BeginAssign(r)
    <2>1. \A x, c : Sound([pc |-> "assign", item |-> x, category |-> c])
      BY DEF Sound
    <2> QED BY <1>8, <2>1, ReadKeepsInv DEF BeginAssign
  <1>9. CASE BeginReset(r)
    <2>1. \A x : Sound([pc |-> "reset", item |-> x])
      BY DEF Sound
    <2> QED BY <1>9, <2>1, ReadKeepsInv DEF BeginReset
  <1> QED BY <1>1, <1>2, <1>3, <1>4, <1>5, <1>6, <1>7, <1>8, <1>9 DEF Serve

LEMMA InvHolds == Spec => []Inv
  <1> USE CategoriesAssumption
  <1>1. Init => Inv
    <2>1. Sound([pc |-> "answered", status |-> 200])
      BY DEF Sound
    <2> QED BY <2>1 DEF Init, Inv, ReferencesExist, Existing
  <1>2. Inv /\ [Next]_vars => Inv'
    <2> SUFFICES ASSUME Inv, [Next]_vars PROVE Inv'
      OBVIOUS
    <2>1. ASSUME NEW r \in Requests, Serve(r) PROVE Inv'
      BY <2>1, ServeKeepsInv
    <2>2. CASE UNCHANGED vars
      BY <2>2 DEF vars, Inv, ReferencesExist, Existing, Sound
    <2> QED BY <2>1, <2>2 DEF Next
  <1> QED BY <1>1, <1>2, PTL DEF Spec

\* No reference to a missing category, for any number of concurrent requests.
THEOREM ReferencesAlwaysExist == Spec => []ReferencesExist
  <1>1. Inv => ReferencesExist
    BY DEF Inv
  <1> QED BY <1>1, InvHolds, PTL
\* What explains a change of the category that transaction t shows.
Explained(t, r) ==
    LET q == request[r] IN
    /\ request'[r] # q
    /\ \/ /\ q.pc \in {"assign", "reset"}
          /\ q.item \in {t, SourceOf[t]}
       \/ /\ q.pc = "merge"
          /\ Effective(t) = q.source
          /\ Effective(t)' = q.target

LEMMA ChangeIsExplained ==
    ASSUME Inv, NEW r \in Requests, Serve(r), NEW t \in Transactions,
           Effective(t)' # Effective(t)
    PROVE  Explained(t, r)
  <1> USE CategoriesAssumption
  <1>1. ~UNCHANGED <<override, mapping>>
    BY DEF Effective
  <1>2. CASE Assign(r) \/ Reset(r)
    <2>1. PICK c : Write(request[r].item, c)
      BY <1>2 DEF Assign, Reset
    <2>2. request[r].item \in {t, SourceOf[t]}
      BY <2>1 DEF Write, Effective, Inv
    <2>3. request'[r] # request[r] /\ request[r].pc \in {"assign", "reset"}
      BY <1>2 DEF Assign, Reset, At, Answer, Go, Inv
    <2> QED BY <2>2, <2>3 DEF Explained
  <1>3. CASE MergeCategories(r)
    <2> DEFINE source == request[r].source
               target == request[r].target
    <2>1. /\ source \in Ids /\ target \in Ids
          /\ request[r].pc = "merge"
      BY <1>3 DEF MergeCategories, At, Inv, Sound
    <2>2. /\ override'[t] = IF override[t] = source THEN target ELSE override[t]
          /\ mapping'[SourceOf[t]] =
               IF mapping[SourceOf[t]] = source THEN target ELSE mapping[SourceOf[t]]
      BY <1>3 DEF MergeCategories, Redirected, Inv
    <2>3. Effective(t) = source /\ Effective(t)' = target
      BY <2>1, <2>2 DEF Effective
    <2>4. request'[r] # request[r]
      BY <1>3 DEF MergeCategories, At, Answer, Go, Inv
    <2> QED BY <2>1, <2>3, <2>4 DEF Explained
  <1> QED BY <1>1, <1>2, <1>3 DEF Serve, tables, CreateCategory, Rename, ReadRenamed,
             BeginDelete, CountOverrides, CountSourceMappings, DeleteCategory,
             DeleteAborted, BeginMerge, FindMerged, MergeAborted, BeginAssign,
             AssignAborted, BeginReset

\* The category of a transaction changes only by requests about it or its source
\* code and by merges, whatever interleaves: deletions and renames never do it.
THEOREM EffectiveIsStable == Spec => EffectiveStable
  <1>1. ASSUME Inv, Next, NEW t \in Transactions, Effective(t)' # Effective(t)
        PROVE  \E r \in Requests : Explained(t, r)
    BY <1>1, ChangeIsExplained DEF Next
  <1>2. Inv /\ [Next]_vars =>
          [\A t \in Transactions : Effective(t)' # Effective(t) =>
             \E r \in Requests : Explained(t, r)]_vars
    BY <1>1
  <1> QED BY <1>2, InvHolds, PTL DEF Spec, EffectiveStable, Explained

-----------------------------------------------------------------------------
(* The pages of the ledger *)

\* What a page is: rows and the cursor of the next one, if there is one.
PageRecords == [rows : Seq(LedgerRows), next : Seq(LedgerRows)]

\* A page holds rows in the order of the ledger, no more than the limit, and its cursor
\* is its last row.
PageKept(p) ==
    /\ Len(p.rows) <= PageSize
    /\ \A k, l \in 1..Len(p.rows) : k < l => Before(p.rows[k], p.rows[l])
    /\ p.next # <<>> => p.rows # <<>> /\ p.next = <<p.rows[Len(p.rows)]>>

\* Only the last page has no cursor; what follows a page lies after its cursor.
PagesFollow(ps) ==
    /\ \A i \in 1..Len(ps) : PageKept(ps[i])
    /\ \A i, j \in 1..Len(ps) : i < j =>
          /\ ps[i].next # <<>>
          /\ \A k \in 1..Len(ps[j].rows) : AfterCursor(ps[i].next, ps[j].rows[k])

\* Row r is on a page.
OnPages(ps, r) == \E i \in 1..Len(ps) : \E k \in 1..Len(ps[i].rows) : ps[i].rows[k] = r

\* The pages have every row of S as far as they go.
Covers(ps, S) ==
    ps # <<>> => \A r \in S :
        CursorOf(ps) = <<>> \/ ~AfterCursor(CursorOf(ps), r) => OnPages(ps, r)

\* A page is asked for only after one with a cursor.
AsksOn(ft) == ft.done # <<>> /\ CursorOf(ft.done) = <<>> => ft.want = Len(ft.done)

\* What was sent is what is read.
LEMMA SentIsRead ==
    /\ \A n, v : OrAny(SentValue(n, v)) = v /\ (SentValue(n, v) # <<>> <=> v # "any")
    /\ \A d : d # -1 => Epoch(<<d>>) = d /\ <<d>>[1] = d /\ <<d>> # <<>>
    /\ Epoch(<<>>) = -1 /\ OrAny(<<>>) = "any"
  BY DEF OrAny, SentValue, Epoch

\* The condition under which parseFilters refuses, of the filters themselves.
Unanswerable(f) ==
    \/ Cardinality(f.accountIds) > MaxAccountIds
    \/ -1 \notin {f.dateFrom, f.dateTo} /\ f.dateFrom > f.dateTo
    \/ "any" \notin {f.name, f.category}

\* parseFilters makes the filters of what transactionFilterParameters made of them.
LEMMA FiltersRead ==
    ASSUME NEW f \in LedgerFilters
    PROVE  Parsed(Query(f)) = IF Unanswerable(f) THEN Refused ELSE f
<1> DEFINE q == Query(f)
<1>1. /\ q.accountId = f.accountIds
      /\ q.dateFrom = IF f.dateFrom = -1 THEN <<>> ELSE <<f.dateFrom>>
      /\ q.dateTo = IF f.dateTo = -1 THEN <<>> ELSE <<f.dateTo>>
      /\ q.category = SentValue("category", f.name)
      /\ q.categoryId = IF f.category = "uncategorized" THEN <<>>
                        ELSE SentValue("categoryId", f.category)
      /\ q.uncategorized = IF f.category = "uncategorized" THEN <<"true">> ELSE <<>>
      /\ q.direction = SentValue("direction", f.direction)
      /\ q.currency = SentValue("currency", f.currency)
      /\ q.excluded = SentValue("excluded", f.excluded)
      /\ q.search = SentValue("search", f.search)
  BY DEF Query
<1> HIDE DEF q
<1>2. /\ OrAny(q.direction) = f.direction /\ OrAny(q.currency) = f.currency
      /\ OrAny(q.excluded) = f.excluded /\ OrAny(q.search) = f.search
      /\ OrAny(q.category) = f.name /\ (q.category # <<>> <=> f.name # "any")
  BY <1>1, SentIsRead
<1>3. /\ Epoch(q.dateFrom) = f.dateFrom /\ (q.dateFrom # <<>> <=> f.dateFrom # -1)
      /\ Epoch(q.dateTo) = f.dateTo /\ (q.dateTo # <<>> <=> f.dateTo # -1)
      /\ q.dateFrom # <<>> => q.dateFrom[1] = f.dateFrom
      /\ q.dateTo # <<>> => q.dateTo[1] = f.dateTo
  BY <1>1, SentIsRead
<1>4. /\ q.uncategorized = <<"true">> <=> f.category = "uncategorized"
      /\ q.categoryId # <<>> <=> f.category \notin {"any", "uncategorized"}
      /\ f.category =
           IF q.uncategorized = <<"true">> THEN "uncategorized" ELSE OrAny(q.categoryId)
  BY <1>1, SentIsRead
<1>5. f.direction \in {"any", "income", "expense"}
  BY DEF LedgerFilters
<1> DEFINE refused ==
       \/ Cardinality(q.accountId) > MaxAccountIds
       \/ OrAny(q.direction) \notin {"any", "income", "expense"}
       \/ q.categoryId # <<>> /\ q.uncategorized = <<"true">>
       \/ q.category # <<>> /\ (q.categoryId # <<>> \/ q.uncategorized = <<"true">>)
       \/ q.dateFrom # <<>> /\ q.dateTo # <<>> /\ q.dateFrom[1] > q.dateTo[1]
<1>6. refused <=> Unanswerable(f)
  BY <1>1, <1>2, <1>3, <1>4, <1>5 DEF Unanswerable
<1> HIDE DEF refused
<1>7. f = [accountIds |-> f.accountIds, category |-> f.category, name |-> f.name,
           dateFrom |-> f.dateFrom, dateTo |-> f.dateTo, direction |-> f.direction,
           currency |-> f.currency, excluded |-> f.excluded, search |-> f.search]
  BY DEF LedgerFilters
<1>8. Parsed(q) = IF refused THEN Refused ELSE
          [accountIds |-> q.accountId,
           category |-> IF q.uncategorized = <<"true">> THEN "uncategorized"
                        ELSE OrAny(q.categoryId),
           name |-> OrAny(q.category), dateFrom |-> Epoch(q.dateFrom), dateTo |-> Epoch(q.dateTo),
           direction |-> OrAny(q.direction), currency |-> OrAny(q.currency),
           excluded |-> OrAny(q.excluded), search |-> OrAny(q.search)]
  BY DEF Parsed, refused
<1>9. Parsed(q) = IF refused THEN Refused ELSE
          [accountIds |-> f.accountIds, category |-> f.category, name |-> f.name,
           dateFrom |-> f.dateFrom, dateTo |-> f.dateTo, direction |-> f.direction,
           currency |-> f.currency, excluded |-> f.excluded, search |-> f.search]
  BY <1>1, <1>2, <1>3, <1>4, <1>8
<1> QED BY <1>6, <1>7, <1>9 DEF q

-----------------------------------------------------------------------------
\* ORDER BY as a relation, and what makes it strict and total.
RowOrder == {p \in LedgerRows \X LedgerRows : Before(p[1], p[2])}

RowsTyped == /\ IsFiniteSet(LedgerRows)
             /\ \A r \in LedgerRows : r.id \in Int /\ r.at \in Int
             /\ \A r, s \in LedgerRows : r.id = s.id => r = s

LEMMA RowsAreTyped == RowsTyped
  BY LedgerPagesAssumption DEF RowsTyped

LEMMA RowsOrdered == ASSUME NEW S, S \subseteq LedgerRows PROVE Orders(RowOrder, S)
<1>1. \A u, v \in S : <<u, v>> \in RowOrder <=> Before(u, v)
  BY DEF RowOrder
<1>2. \A u \in S : ~Before(u, u)
  BY RowsAreTyped DEF Before, RowsTyped
<1>3. \A u, v, w \in S : Before(u, v) /\ Before(v, w) => Before(u, w)
  BY RowsAreTyped DEF Before, RowsTyped
<1>4. \A u, v \in S : u = v \/ Before(u, v) \/ Before(v, u)
  BY RowsAreTyped DEF Before, RowsTyped
<1> QED BY <1>1, <1>2, <1>3, <1>4 DEF Orders

\* The rows of a set in the order of the ledger.
LEMMA RowsInOrder ==
    ASSUME NEW S, S \subseteq LedgerRows, NEW q, q = Ordered(S)
    PROVE  /\ q \in Seq(LedgerRows) /\ Len(q) \in Nat
           /\ \A i \in 1..Len(q) : q[i] \in S
           /\ \A r \in S : \E i \in 1..Len(q) : q[i] = r
           /\ \A i, j \in 1..Len(q) : i < j => Before(q[i], q[j])
<1> DEFINE n == Cardinality(S)
<1>1. IsFiniteSet(S)
  BY RowsAreTyped, FS_Subset DEF RowsTyped
<1>2. Orders(RowOrder, S)
  BY RowsOrdered
<1>3. \A i \in 1..n : q[i] = CHOOSE r \in S : Cardinality({s \in S : Before(s, r)}) = i - 1
  BY DEF Ordered
<1>4. \A w \in S : Rank(RowOrder, S, w) = Cardinality({s \in S : Before(s, w)}) + 1
  <2> SUFFICES ASSUME NEW w \in S
               PROVE  Rank(RowOrder, S, w) = Cardinality({s \in S : Before(s, w)}) + 1
    OBVIOUS
  <2>1. Lower(RowOrder, S, w) = {s \in S : Before(s, w)}
    BY DEF Lower, RowOrder
  <2> QED BY <2>1 DEF Rank
<1>5. \A w \in S : Cardinality({s \in S : Before(s, w)}) \in Nat
  <2> SUFFICES ASSUME NEW w \in S PROVE Cardinality({s \in S : Before(s, w)}) \in Nat
    OBVIOUS
  <2>1. {s \in S : Before(s, w)} \subseteq S
    OBVIOUS
  <2> QED BY <1>1, <2>1, FS_Subset, FS_CardinalityType
<1>6. n \in Nat
  BY <1>1, FS_CardinalityType
<1>7. ASSUME NEW i \in 1..n, NEW w \in S, Rank(RowOrder, S, w) = i
      PROVE  q[i] \in S /\ Rank(RowOrder, S, q[i]) = i
  <2>1. Cardinality({s \in S : Before(s, w)}) = i - 1
    BY <1>4, <1>5, <1>6, <1>7
  <2>2. q[i] \in S /\ Cardinality({s \in S : Before(s, q[i])}) = i - 1
    BY <1>3, <2>1
  <2> QED BY <1>4, <1>6, <2>2
<1>8. /\ \A i \in 1..n : q[i] \in S
      /\ \A w \in S : \E i \in 1..n : q[i] = w
      /\ \A i, j \in 1..n : i < j => <<q[i], q[j]>> \in RowOrder
  <2> HIDE DEF n
  <2>1. \A i \in 1..Cardinality(S) : \A w \in S :
           Rank(RowOrder, S, w) = i => q[i] \in S /\ Rank(RowOrder, S, q[i]) = i
    BY <1>7 DEF n
  <2> QED BY <1>1, <1>2, <2>1, InOrder DEF n
<1>9. q = [i \in 1..n |-> q[i]]
  <2> DEFINE pick(i) == CHOOSE r \in S : Cardinality({s \in S : Before(s, r)}) = i - 1
  <2>1. q = [i \in 1..n |-> pick(i)]
    BY Zenon DEF Ordered
  <2> HIDE DEF pick, n
  <2> QED BY <2>1
<1> HIDE DEF n
<1>10. q \in Seq(LedgerRows) /\ Len(q) = n
  BY <1>6, <1>8, <1>9
<1>11. \A i, j \in 1..n : i < j => Before(q[i], q[j])
  BY <1>8 DEF RowOrder
<1> QED BY <1>6, <1>8, <1>10, <1>11

\* A page holds what the cursor is followed by, and ends where the next one begins.
PageFits(p, cursor, matching) ==
    /\ p \in PageRecords /\ PageKept(p)
    /\ \A k \in 1..Len(p.rows) : p.rows[k] \in matching /\ AfterCursor(cursor, p.rows[k])
    /\ \A r \in matching : AfterCursor(cursor, r) =>
          \/ \E k \in 1..Len(p.rows) : p.rows[k] = r
          \/ p.next # <<>> /\ AfterCursor(p.next, r)

\* The keyset condition is the order of the ledger.
LEMMA BeforeIsAfter ==
    ASSUME NEW r, r \in LedgerRows, NEW s, s \in LedgerRows
    PROVE  AfterCursor(<<r>>, s) <=> Before(r, s)
  BY RowsAreTyped DEF AfterCursor, Before, RowsTyped

\* What list answers.
LEMMA PageAnswers ==
    ASSUME NEW f, Matching(f) \subseteq LedgerRows, NEW cursor
    PROVE  PageFits(Page(f, cursor), cursor, Matching(f))
<1> DEFINE S == {r \in Matching(f) : AfterCursor(cursor, r)}
           q == Ordered(S)
           m == IF Len(q) < PageSize THEN Len(q) ELSE PageSize
           rows == SubSeq(q, 1, m)
           next == IF Len(q) > PageSize THEN <<rows[Len(rows)]>> ELSE <<>>
           p == [rows |-> rows, next |-> next]
<1>1. Page(f, cursor) = p
  BY DEF Page, Last
<1>2. S \subseteq LedgerRows
  OBVIOUS
<1> HIDE DEF S
<1>3. /\ q \in Seq(LedgerRows) /\ Len(q) \in Nat
      /\ \A i \in 1..Len(q) : q[i] \in S
      /\ \A r \in S : \E i \in 1..Len(q) : q[i] = r
      /\ \A i, j \in 1..Len(q) : i < j => Before(q[i], q[j])
  BY <1>2, RowsInOrder
<1> HIDE DEF q
<1>4. PageSize \in Nat /\ PageSize > 0
  BY LedgerPagesAssumption
<1>5. m \in Nat /\ m <= Len(q) /\ m <= PageSize /\ (Len(q) > PageSize => m = PageSize)
      /\ (m < Len(q) => Len(q) > PageSize)
  BY <1>3, <1>4
<1> HIDE DEF m
<1>6. rows \in Seq(LedgerRows) /\ Len(rows) = m /\ \A k \in 1..m : rows[k] = q[k]
  BY <1>3, <1>5
<1> HIDE DEF rows
<1>7. Len(q) > PageSize =>
         /\ m \in 1..m /\ rows[Len(rows)] = q[m] /\ rows # <<>> /\ q[m] \in LedgerRows
  <2> SUFFICES ASSUME Len(q) > PageSize
               PROVE  /\ m \in 1..m /\ rows[Len(rows)] = q[m] /\ rows # <<>>
                      /\ q[m] \in LedgerRows
    OBVIOUS
  <2>1. m \in 1..m /\ m \in 1..Len(q)
    BY <1>3, <1>4, <1>5
  <2>2. Len(rows) # 0
    BY <1>4, <1>5, <1>6
  <2> QED BY <1>2, <1>3, <1>6, <2>1, <2>2
<1>8. next \in Seq(LedgerRows) /\ (next # <<>> => Len(q) > PageSize /\ next = <<q[m]>>)
      /\ (Len(q) > PageSize => next = <<q[m]>> /\ next # <<>>)
  BY <1>7
<1> HIDE DEF next
<1>9. p \in PageRecords /\ p.rows = rows /\ p.next = next
  BY <1>6, <1>8 DEF PageRecords
<1> HIDE DEF p
<1>10. PageKept(p)
  <2>1. \A k, l \in 1..Len(rows) : k < l => Before(rows[k], rows[l])
    <3> SUFFICES ASSUME NEW k \in 1..m, NEW l \in 1..m, k < l PROVE Before(rows[k], rows[l])
      BY <1>6
    <3>1. k \in 1..Len(q) /\ l \in 1..Len(q)
      BY <1>3, <1>5
    <3> QED BY <1>3, <1>6, <3>1
  <2>2. next # <<>> => rows # <<>> /\ next = <<rows[Len(rows)]>>
    BY <1>7, <1>8
  <2> QED BY <1>5, <1>6, <1>9, <2>1, <2>2 DEF PageKept
<1>11. \A k \in 1..Len(rows) : rows[k] \in S
  <2> SUFFICES ASSUME NEW k \in 1..m PROVE rows[k] \in S
    BY <1>6
  <2>1. k \in 1..Len(q)
    BY <1>3, <1>5
  <2> QED BY <1>3, <1>6, <2>1
<1>12. ASSUME NEW r \in S
       PROVE  \/ \E k \in 1..Len(rows) : rows[k] = r
              \/ next # <<>> /\ AfterCursor(next, r)
  <2>1. PICK i \in 1..Len(q) : q[i] = r
    BY <1>3
  <2>2. CASE i <= m
    <3>1. i \in 1..m
      BY <1>5, <2>2
    <3> QED BY <1>6, <2>1, <3>1
  <2>3. CASE i > m
    <3>1. Len(q) > PageSize /\ next = <<q[m]>> /\ next # <<>>
      BY <1>3, <1>5, <1>8, <2>3
    <3>2. m \in 1..Len(q)
      BY <1>3, <1>4, <1>5, <3>1
    <3>3. Before(q[m], r)
      BY <1>3, <1>5, <2>1, <2>3, <3>2
    <3>4. r \in LedgerRows /\ q[m] \in LedgerRows
      BY <1>2, <1>3, <3>2
    <3> QED BY <3>1, <3>3, <3>4, BeforeIsAfter
  <2> QED BY <1>3, <1>5, <2>2, <2>3
<1>13. PageFits(p, cursor, Matching(f))
  BY <1>9, <1>10, <1>11, <1>12 DEF PageFits, S
<1> QED BY <1>1, <1>13 DEF p

\* One more page.
LEMMA PagesGrow ==
    ASSUME NEW ps, ps \in Seq(PageRecords), PagesFollow(ps),
           NEW p, NEW cursor, cursor = CursorOf(ps), ps # <<>> => cursor # <<>>,
           NEW matching, matching \subseteq LedgerRows, PageFits(p, cursor, matching)
    PROVE  Append(ps, p) \in Seq(PageRecords) /\ PagesFollow(Append(ps, p))
<1> DEFINE n == Len(ps)
           qs == Append(ps, p)
<1>1. p \in PageRecords /\ PageKept(p)
  BY DEF PageFits
<1>2. n \in Nat /\ qs \in Seq(PageRecords) /\ Len(qs) = n + 1 /\ qs[n + 1] = p
      /\ \A i \in 1..n : qs[i] = ps[i] /\ ps[i] \in PageRecords
  BY <1>1
<1> HIDE DEF n, qs
<1>3. \A i \in 1..Len(qs) : PageKept(qs[i])
  <2> SUFFICES ASSUME NEW i \in 1..(n + 1) PROVE PageKept(qs[i])
    BY <1>2
  <2>1. i = n + 1 \/ i \in 1..n
    BY <1>2
  <2> QED BY <1>1, <1>2, <2>1 DEF PagesFollow, n
<1>4. ASSUME NEW i \in 1..n
      PROVE  /\ qs[i].next # <<>>
             /\ \A k \in 1..Len(p.rows) : AfterCursor(qs[i].next, p.rows[k])
  <2>1. n \in 1..n /\ ps # <<>> /\ cursor = ps[n].next /\ cursor # <<>>
    <3>1. n \in 1..n
      BY <1>2
    <3>2. ps # <<>>
      BY <3>1, <1>2 DEF n
    <3> QED BY <3>1, <3>2 DEF CursorOf, Last, n
  <2>2. \A k \in 1..Len(p.rows) : AfterCursor(cursor, p.rows[k])
    BY DEF PageFits
  <2>3. CASE i = n
    BY <1>2, <2>1, <2>2, <2>3
  <2>4. CASE i < n
    <3> DEFINE c == ps[i]
               l == ps[n]
    <3>1. /\ c.next # <<>>
          /\ \A k \in 1..Len(l.rows) : AfterCursor(c.next, l.rows[k])
      BY <1>2, <2>1, <2>4 DEF PagesFollow, n
    <3>2. PageKept(c) /\ PageKept(l) /\ c \in PageRecords /\ l \in PageRecords
      BY <1>2, <2>1 DEF PagesFollow, n
    <3> HIDE DEF c, l
    <3>3. c.rows \in Seq(LedgerRows) /\ l.rows \in Seq(LedgerRows) /\ p.rows \in Seq(LedgerRows)
      BY <1>1, <3>2 DEF PageRecords
    <3>4. /\ c.rows # <<>> /\ c.next = <<c.rows[Len(c.rows)]>>
          /\ l.rows # <<>> /\ l.next = <<l.rows[Len(l.rows)]>>
      BY <2>1, <3>1, <3>2 DEF PageKept, l
    <3>5. /\ Len(c.rows) \in 1..Len(c.rows) /\ c.rows[Len(c.rows)] \in LedgerRows
          /\ Len(l.rows) \in 1..Len(l.rows) /\ l.rows[Len(l.rows)] \in LedgerRows
      BY <3>3, <3>4
    <3> DEFINE u == c.rows[Len(c.rows)]
               v == l.rows[Len(l.rows)]
    <3>6. AfterCursor(c.next, v)
      BY <3>1, <3>5
    <3>7. Before(u, v)
      BY <3>4, <3>5, <3>6, BeforeIsAfter
    <3>8. ASSUME NEW k \in 1..Len(p.rows) PROVE AfterCursor(c.next, p.rows[k])
      <4>1. p.rows[k] \in LedgerRows
        BY <3>3
      <4>2. AfterCursor(<<v>>, p.rows[k])
        BY <2>1, <2>2, <3>4 DEF l
      <4>3. Before(v, p.rows[k])
        BY <3>5, <4>1, <4>2, BeforeIsAfter
      <4> HIDE DEF u, v
      <4>4. u \in LedgerRows /\ v \in LedgerRows
        BY <3>5 DEF u, v
      <4>5. Before(u, p.rows[k])
        BY <3>7, <4>1, <4>3, <4>4, RowsAreTyped DEF Before, RowsTyped
      <4>6. c.next = <<u>>
        BY <3>4 DEF u
      <4> QED BY <4>1, <4>4, <4>5, <4>6, BeforeIsAfter
    <3>9. qs[i] = c
      BY <1>2 DEF c
    <3> QED BY <3>1, <3>8, <3>9
  <2> QED BY <1>2, <2>3, <2>4
<1>5. ASSUME NEW i \in 1..(n + 1), NEW j \in 1..(n + 1), i < j
      PROVE  /\ qs[i].next # <<>>
             /\ \A k \in 1..Len(qs[j].rows) : AfterCursor(qs[i].next, qs[j].rows[k])
  <2>1. i \in 1..n
    BY <1>2, <1>5
  <2>2. CASE j = n + 1
    BY <1>2, <1>4, <2>1, <2>2
  <2>3. CASE j \in 1..n
    BY <1>2, <1>5, <2>1, <2>3 DEF PagesFollow, n
  <2> QED BY <1>2, <2>2, <2>3
<1> QED BY <1>2, <1>3, <1>5 DEF PagesFollow, qs

\* One more page covers what it holds, the first page everything that matches.
LEMMA CoverGrows ==
    ASSUME NEW ps, ps \in Seq(PageRecords), NEW S, Covers(ps, S),
           NEW p, NEW matching, S \subseteq matching, PageFits(p, CursorOf(ps), matching)
    PROVE  Covers(Append(ps, p), IF ps = <<>> THEN matching ELSE S)
<1> DEFINE n == Len(ps)
           qs == Append(ps, p)
           T == IF ps = <<>> THEN matching ELSE S
<1>1. p \in PageRecords
  BY DEF PageFits
<1>2. n \in Nat /\ qs \in Seq(PageRecords) /\ Len(qs) = n + 1 /\ qs[n + 1] = p
      /\ \A i \in 1..n : qs[i] = ps[i]
  BY <1>1
<1>3. CursorOf(qs) = p.next
  BY <1>2 DEF CursorOf, Last
<1>4. T \subseteq matching
  OBVIOUS
<1> HIDE DEF n, qs
<1>5. ASSUME NEW r \in T, p.next = <<>> \/ ~AfterCursor(p.next, r)
      PROVE  OnPages(qs, r)
  <2>1. CASE AfterCursor(CursorOf(ps), r)
    <3>1. \E k \in 1..Len(p.rows) : p.rows[k] = r
      BY <1>4, <1>5, <2>1 DEF PageFits
    <3>2. n + 1 \in 1..Len(qs)
      BY <1>2
    <3> QED BY <1>2, <3>1, <3>2 DEF OnPages
  <2>2. CASE ~AfterCursor(CursorOf(ps), r)
    <3>1. ps # <<>>
      BY <2>2 DEF AfterCursor, CursorOf
    <3>2. OnPages(ps, r)
      BY <1>5, <2>2, <3>1 DEF Covers
    <3>3. PICK i \in 1..n : \E k \in 1..Len(ps[i].rows) : ps[i].rows[k] = r
      BY <3>2 DEF OnPages, n
    <3>4. i \in 1..Len(qs) /\ qs[i] = ps[i]
      BY <1>2
    <3> QED BY <3>3, <3>4 DEF OnPages
  <2> QED BY <2>1, <2>2
<1> HIDE DEF T
<1>6. Covers(qs, T)
  BY <1>3, <1>5 DEF Covers
<1> QED BY <1>6 DEF qs, T

\* The first page alone covers what it reaches: later pages hold later rows.
LEMMA FirstPageStays ==
    ASSUME NEW ps, ps \in Seq(PageRecords), PagesFollow(ps),
           NEW S, S \subseteq LedgerRows, Covers(ps, S),
           NEW qs, qs = SubSeq(ps, 1, IF Len(ps) > 1 THEN 1 ELSE Len(ps))
    PROVE  qs \in Seq(PageRecords) /\ PagesFollow(qs) /\ Covers(qs, S)
<1> DEFINE n == Len(ps)
<1>1. n \in Nat /\ \A i \in 1..n : ps[i] \in PageRecords
  OBVIOUS
<1>2. CASE n <= 1
  <2>1. qs = ps
    BY <1>1, <1>2
  <2> QED BY <2>1
<1>3. CASE n > 1
  <2>1. qs \in Seq(PageRecords) /\ Len(qs) = 1 /\ qs[1] = ps[1]
    BY <1>1, <1>3
  <2>2. 1 \in 1..n /\ n \in 1..n
    BY <1>1, <1>3
  <2> HIDE DEF n
  <2>3. PagesFollow(qs)
    <3>1. PageKept(qs[1])
      BY <2>1, <2>2 DEF PagesFollow, n
    <3> QED BY <2>1, <3>1 DEF PagesFollow
  <2> DEFINE c == ps[1]
             l == ps[n]
             u == c.rows[Len(c.rows)]
             v == l.rows[Len(l.rows)]
  <2>4. /\ c.next # <<>>
        /\ \A j \in 1..n : j # 1 =>
              \A k \in 1..Len(ps[j].rows) : AfterCursor(c.next, ps[j].rows[k])
    BY <1>1, <1>3, <2>2 DEF PagesFollow, n
  <2>5. PageKept(c) /\ PageKept(l) /\ c \in PageRecords /\ l \in PageRecords
    BY <1>1, <2>2 DEF PagesFollow, n
  <2>6. CursorOf(qs) = c.next /\ CursorOf(ps) = l.next
    BY <1>1, <1>3, <2>1 DEF CursorOf, Last, n
  <2>7. \A k \in 1..Len(l.rows) : AfterCursor(c.next, l.rows[k])
    BY <1>3, <2>2, <2>4
  <2>8. c.next = <<u>> /\ u \in LedgerRows
    <3> HIDE DEF c, l
    <3>1. c.rows \in Seq(LedgerRows) /\ c.rows # <<>> /\ c.next = <<u>>
      BY <2>4, <2>5 DEF PageRecords, PageKept
    <3> QED BY <3>1
  <2>9. l.next # <<>> => l.next = <<v>> /\ v \in LedgerRows /\ Before(u, v)
    <3> SUFFICES ASSUME l.next # <<>>
                 PROVE  l.next = <<v>> /\ v \in LedgerRows /\ Before(u, v)
      OBVIOUS
    <3> HIDE DEF c, l
    <3>1. l.rows \in Seq(LedgerRows) /\ l.rows # <<>> /\ l.next = <<v>>
      BY <2>5 DEF PageRecords, PageKept
    <3>2. Len(l.rows) \in 1..Len(l.rows) /\ v \in LedgerRows
      BY <3>1
    <3>3. AfterCursor(c.next, v)
      BY <2>7, <3>2
    <3> HIDE DEF u, v
    <3> QED BY <2>8, <3>1, <3>2, <3>3, BeforeIsAfter
  <2> HIDE DEF u, v
  <2>10. ASSUME NEW r \in S, CursorOf(qs) = <<>> \/ ~AfterCursor(CursorOf(qs), r)
         PROVE  OnPages(qs, r)
    <3>1. ~AfterCursor(c.next, r) /\ r \in LedgerRows
      BY <2>4, <2>6, <2>10
    <3>2. ~Before(u, r)
      BY <2>8, <3>1, BeforeIsAfter
    <3>3. l.next = <<>> \/ ~AfterCursor(l.next, r)
      <4> SUFFICES ASSUME l.next # <<>>, AfterCursor(l.next, r) PROVE FALSE
        OBVIOUS
      <4>1. Before(v, r) /\ Before(u, v) /\ v \in LedgerRows
        BY <2>9, <3>1, BeforeIsAfter
      <4> QED BY <2>8, <3>1, <3>2, <4>1, RowsAreTyped DEF Before, RowsTyped
    <3>4. OnPages(ps, r)
      <4>1. ps # <<>>
        BY <1>1, <1>3 DEF n
      <4> HIDE DEF l, c
      <4> QED BY <2>6, <3>3, <4>1 DEF Covers
    <3>5. PICK i \in 1..n : \E k \in 1..Len(ps[i].rows) : ps[i].rows[k] = r
      BY <3>4 DEF OnPages, n
    <3>6. i = 1
      BY <2>4, <3>1, <3>5
    <3>7. 1 \in 1..Len(qs) /\ qs[1] = ps[1]
      BY <2>1
    <3> QED BY <3>5, <3>6, <3>7 DEF OnPages
  <2>11. Covers(qs, S)
    BY <2>10 DEF Covers
  <2> QED BY <2>1, <2>3, <2>11
<1> QED BY <1>1, <1>2, <1>3

\* Pages that have a set of rows have its parts.
LEMMA CoverOfPart ==
    ASSUME NEW ps, NEW S, Covers(ps, S), NEW T, T \subseteq S
    PROVE  Covers(ps, T)
  BY DEF Covers

\* Before the first page.
LEMMA NoPages ==
    /\ <<>> \in Seq(PageRecords) /\ PagesFollow(<<>>)
    /\ \A S : Covers(<<>>, S)
    /\ CursorOf(<<>>) = <<>>
  BY DEF PagesFollow, Covers, CursorOf

-----------------------------------------------------------------------------
Fetches == [kind : {"none", "all", "next"}, done : Seq(PageRecords), want : Nat,
            steady : SUBSET LedgerRows]

\* What is kept of one filter.
FilterSound(ps, ft, st, matching) ==
    /\ ps \in Seq(PageRecords) /\ PagesFollow(ps) /\ Covers(ps, st) /\ st \subseteq matching
    /\ ft \in Fetches /\ PagesFollow(ft.done) /\ Covers(ft.done, ft.steady)
    /\ ft.steady \subseteq matching /\ AsksOn(ft)

\* What is kept of the ledger: the pages follow one another, the last row of each is
\* where the next begins, and together they have what matched throughout.
LedgerKept ==
    /\ stored \subseteq LedgerRows
    /\ chosen \in Filters
    /\ pages = [f \in Filters |-> pages[f]]
    /\ fetch = [f \in Filters |-> fetch[f]]
    /\ steady = [f \in Filters |-> steady[f]]
    /\ \A f \in Filters : FilterSound(pages[f], fetch[f], steady[f], Matching(f))

LEMMA NoFetchSound == NoFetch \in Fetches /\ NoFetch.done = <<>> /\ NoFetch.steady = {}
  BY NoPages DEF NoFetch, Fetches

LEMMA LedgerAtFirst == LedgerInit => LedgerKept
<1> SUFFICES ASSUME LedgerInit PROVE LedgerKept
  OBVIOUS
<1>1. stored \subseteq LedgerRows /\ chosen \in Filters
  BY LedgerPagesAssumption DEF LedgerInit
<1>2. FilterSound(<<>>, NoFetch, {}, {})
  <2>1. AsksOn(NoFetch)
    BY NoFetchSound DEF AsksOn
  <2> QED BY <2>1, NoPages, NoFetchSound DEF FilterSound
<1>3. \A m : FilterSound(<<>>, NoFetch, {}, m)
  BY <1>2, NoFetchSound DEF FilterSound
<1> QED BY <1>1, <1>3 DEF LedgerInit, LedgerKept

\* More rows match: nothing that is kept is lost.
LEMMA MatchingMore ==
    ASSUME NEW ps, NEW ft, NEW st, NEW m, FilterSound(ps, ft, st, m), NEW n, m \subseteq n
    PROVE  FilterSound(ps, ft, st, n)
  BY DEF FilterSound

\* A fetch of every page begins with nothing.
LEMMA FetchBegins ==
    ASSUME NEW f, NEW ps, pages[f] = ps, NEW ft, NEW st, NEW m, FilterSound(ps, ft, st, m)
    PROVE  FilterSound(ps, EveryPage(f), st, m)
<1> DEFINE n == IF ps = <<>> THEN 1 ELSE Len(ps)
           b == EveryPage(f)
<1>1. n \in Nat
  BY DEF FilterSound
<1>2. b = [kind |-> "all", done |-> <<>>, want |-> n, steady |-> {}]
  <2>1. b = [NoFetch EXCEPT !.kind = "all", !.want = n]
    BY Zenon DEF EveryPage
  <2> HIDE DEF n, b
  <2> QED BY <2>1 DEF NoFetch
<1> HIDE DEF n
<1>3. b \in Fetches
  BY <1>1, <1>2, NoPages DEF Fetches
<1>4. b.done = <<>> /\ b.steady = {}
  BY <1>2
<1> HIDE DEF b
<1>5. AsksOn(b)
  BY <1>4 DEF AsksOn
<1>6. FilterSound(ps, b, st, m)
  BY <1>3, <1>4, <1>5, NoPages DEF FilterSound
<1> QED BY <1>6 DEF b

\* What no write changed matches as before.
LEMMA MatchingSame ==
    ASSUME UNCHANGED <<stored, excluded, recategorized>>, NEW f
    PROVE  Matching(f)' = Matching(f)
<1>1. \A r : Matches(f, r)' <=> Matches(f, r)
  BY DEF Matches, CategoryOf, NameOf
<1> QED BY <1>1 DEF Matching

\* An import only adds rows.
LEMMA ImportKeeps == LedgerKept /\ Import => LedgerKept'
<1> SUFFICES ASSUME LedgerKept, Import PROVE LedgerKept'
  OBVIOUS
<1>1. UNCHANGED <<excluded, recategorized, chosen, pages, fetch, steady>>
  BY DEF Import
<1>2. stored \subseteq stored' /\ stored' \subseteq LedgerRows
  BY DEF Import, LedgerKept
<1>3. ASSUME NEW f \in Filters PROVE Matching(f) \subseteq Matching(f)'
  <2>1. \A r : Matches(f, r)' <=> Matches(f, r)
    BY <1>1 DEF Matches, CategoryOf, NameOf
  <2> QED BY <1>2, <2>1 DEF Matching
<1>4. ASSUME NEW f \in Filters
      PROVE  FilterSound(pages[f], fetch[f], steady[f], Matching(f)')
  <2>1. FilterSound(pages[f], fetch[f], steady[f], Matching(f))
    BY DEF LedgerKept
  <2> QED BY <1>3, <2>1, MatchingMore
<1> QED BY <1>1, <1>2, <1>4 DEF LedgerKept

\* A correction takes what matches no longer out of what matched throughout.
LEMMA CorrectKeeps == LedgerKept /\ Correct => LedgerKept'
<1> SUFFICES ASSUME LedgerKept, Correct PROVE LedgerKept'
  OBVIOUS
<1>1. /\ UNCHANGED <<stored, chosen, pages>>
      /\ steady' = [f \in Filters |-> {r \in steady[f] : Matches(f, r)'}]
      /\ fetch' = [f \in Filters |->
                     [fetch[f] EXCEPT !.steady = {r \in fetch[f].steady : Matches(f, r)'}]]
  BY DEF Correct
<1>2. ASSUME NEW f \in Filters
      PROVE  FilterSound(pages[f], fetch'[f], steady'[f], Matching(f)')
  <2> DEFINE ft == fetch[f]
             kept == {r \in steady[f] : Matches(f, r)'}
             part == {r \in ft.steady : Matches(f, r)'}
             gt == [ft EXCEPT !.steady = part]
  <2>1. FilterSound(pages[f], ft, steady[f], Matching(f))
    BY DEF LedgerKept
  <2>2. /\ Matching(f) \subseteq stored
        /\ Matching(f)' = {r \in stored : Matches(f, r)'}
    BY <1>1 DEF Matching
  <2>3. kept \subseteq Matching(f)' /\ part \subseteq Matching(f)'
    BY <2>1, <2>2 DEF FilterSound
  <2>4. kept \subseteq steady[f] /\ part \subseteq ft.steady
    OBVIOUS
  <2>5. steady'[f] = kept /\ fetch'[f] = gt
    BY <1>1
  <2> HIDE DEF kept, part, ft
  <2>6. ft \in Fetches
    BY <2>1 DEF FilterSound
  <2>7. /\ gt \in Fetches /\ gt.done = ft.done /\ gt.want = ft.want /\ gt.steady = part
    BY <2>4, <2>6 DEF Fetches
  <2> HIDE DEF gt
  <2>8. AsksOn(gt)
    BY <2>1, <2>7 DEF AsksOn, FilterSound
  <2>9. Covers(pages[f], kept) /\ Covers(gt.done, gt.steady)
    BY <2>1, <2>4, <2>7, CoverOfPart DEF FilterSound
  <2>10. FilterSound(pages[f], gt, kept, Matching(f)')
    BY <2>1, <2>3, <2>7, <2>8, <2>9 DEF FilterSound
  <2> QED BY <2>5, <2>10
<1>3. fetch' = [f \in Filters |-> fetch'[f]] /\ steady' = [f \in Filters |-> steady'[f]]
  BY <1>1
<1> QED BY <1>1, <1>2, <1>3 DEF LedgerKept

\* What an action of the browser changes is sound if it is for the filters it is about.
LEMMA OneFilterChanges ==
    ASSUME LedgerKept, UNCHANGED <<stored, excluded, recategorized>>, chosen' \in Filters,
           NEW f \in Filters, NEW ps, NEW ft, NEW st,
           pages' = [pages EXCEPT ![f] = ps], fetch' = [fetch EXCEPT ![f] = ft],
           steady' = [steady EXCEPT ![f] = st],
           FilterSound(ps, ft, st, Matching(f))
    PROVE  LedgerKept'
<1>1. /\ pages' = [g \in Filters |-> IF g = f THEN ps ELSE pages[g]]
      /\ fetch' = [g \in Filters |-> IF g = f THEN ft ELSE fetch[g]]
      /\ steady' = [g \in Filters |-> IF g = f THEN st ELSE steady[g]]
  BY DEF LedgerKept
<1>2. ASSUME NEW g \in Filters
      PROVE  FilterSound(pages'[g], fetch'[g], steady'[g], Matching(g)')
  <2>1. Matching(g)' = Matching(g)
    BY MatchingSame
  <2>2. CASE g = f
    BY <1>1, <2>1, <2>2
  <2>3. CASE g # f
    <3>1. FilterSound(pages[g], fetch[g], steady[g], Matching(g))
      BY DEF LedgerKept
    <3> QED BY <1>1, <2>1, <2>3, <3>1
  <2> QED BY <2>2, <2>3
<1>3. stored' \subseteq LedgerRows
  BY DEF LedgerKept
<1>4. /\ pages' = [g \in Filters |-> pages'[g]] /\ fetch' = [g \in Filters |-> fetch'[g]]
      /\ steady' = [g \in Filters |-> steady'[g]]
  BY <1>1
<1> QED BY <1>2, <1>3, <1>4 DEF LedgerKept

\* Choosing filters keeps their first page, or begins to fetch all of them.
LEMMA ChooseKeeps ==
    ASSUME LedgerKept, NEW f \in Filters, ChooseFilters(f)
    PROVE  LedgerKept'
<1> DEFINE ps == pages[f]
           qs == SubSeq(ps, 1, IF Len(ps) > 1 THEN 1 ELSE Len(ps))
<1>1. /\ UNCHANGED <<stored, excluded, recategorized, steady>> /\ chosen' = f
      /\ pages' = [pages EXCEPT ![f] = qs]
      /\ \/ fetch' = fetch
         \/ fetch' = [fetch EXCEPT ![f] = EveryPage(f)]
  BY DEF ChooseFilters
<1>2. FilterSound(ps, fetch[f], steady[f], Matching(f))
  BY DEF LedgerKept
<1>3. stored \subseteq LedgerRows /\ Matching(f) \subseteq LedgerRows
  BY DEF LedgerKept, Matching
<1>4. qs \in Seq(PageRecords) /\ PagesFollow(qs) /\ Covers(qs, steady[f])
  <2>1. /\ ps \in Seq(PageRecords) /\ PagesFollow(ps) /\ Covers(ps, steady[f])
        /\ steady[f] \subseteq LedgerRows
    BY <1>2, <1>3 DEF FilterSound
  <2> HIDE DEF ps
  <2> QED BY <2>1, FirstPageStays
<1>5. /\ fetch = [fetch EXCEPT ![f] = fetch[f]] /\ steady = [steady EXCEPT ![f] = steady[f]]
  BY DEF LedgerKept
<1> HIDE DEF qs
<1>6. FilterSound(qs, fetch[f], steady[f], Matching(f))
  BY <1>2, <1>4 DEF FilterSound
<1>7. FilterSound(qs, EveryPage(f), steady[f], Matching(f))
  <2>1. FilterSound(ps, EveryPage(f), steady[f], Matching(f))
    BY <1>2, FetchBegins
  <2> QED BY <1>4, <2>1 DEF FilterSound
<1>8. CASE fetch' = fetch
  BY <1>1, <1>5, <1>6, <1>8, OneFilterChanges
<1>9. CASE fetch' = [fetch EXCEPT ![f] = EveryPage(f)]
  BY <1>1, <1>5, <1>7, <1>9, OneFilterChanges
<1> QED BY <1>1, <1>8, <1>9

\* A fetch of every page begins, another page is asked for.
LEMMA FetchAllKeeps == LedgerKept /\ FetchAll => LedgerKept'
<1> SUFFICES ASSUME LedgerKept, FetchAll PROVE LedgerKept'
  OBVIOUS
<1> DEFINE f == chosen
<1>1. /\ UNCHANGED <<stored, excluded, recategorized, chosen, pages, steady>>
      /\ fetch' = [fetch EXCEPT ![f] = EveryPage(f)]
  BY DEF FetchAll
<1>2. f \in Filters /\ FilterSound(pages[f], fetch[f], steady[f], Matching(f))
  BY DEF LedgerKept
<1>3. FilterSound(pages[f], EveryPage(f), steady[f], Matching(f))
  BY <1>2, FetchBegins
<1>4. pages' = [pages EXCEPT ![f] = pages[f]] /\ steady' = [steady EXCEPT ![f] = steady[f]]
  BY <1>1 DEF LedgerKept
<1> QED BY <1>1, <1>2, <1>3, <1>4, OneFilterChanges

LEMMA LoadMoreKeeps == LedgerKept /\ LoadMore => LedgerKept'
<1> SUFFICES ASSUME LedgerKept, LoadMore PROVE LedgerKept'
  OBVIOUS
<1> DEFINE f == chosen
           ps == pages[f]
           st == steady[f]
           ft == [kind |-> "next", done |-> ps, want |-> Len(ps) + 1, steady |-> st]
<1>1. /\ UNCHANGED <<stored, excluded, recategorized, chosen, pages, steady>>
      /\ fetch' = [fetch EXCEPT ![f] = ft]
      /\ ps # <<>> /\ Last(ps).next # <<>>
  BY DEF LoadMore
<1>2. /\ f \in Filters /\ FilterSound(ps, fetch[f], st, Matching(f))
      /\ stored \subseteq LedgerRows
  BY DEF LedgerKept
<1>3. pages' = [pages EXCEPT ![f] = ps] /\ steady' = [steady EXCEPT ![f] = st]
  BY <1>1 DEF LedgerKept
<1>4. FilterSound(ps, ft, st, Matching(f))
  <2> HIDE DEF ps, st
  <2>1. ps \in Seq(PageRecords) /\ st \subseteq LedgerRows
    BY <1>2 DEF FilterSound, Matching
  <2>2. ft \in Fetches /\ ft.done = ps /\ ft.steady = st
    BY <2>1 DEF Fetches
  <2> HIDE DEF ft
  <2>3. AsksOn(ft)
    BY <1>1, <2>2 DEF AsksOn, CursorOf
  <2> QED BY <1>2, <2>2, <2>3 DEF FilterSound
<1> HIDE DEF ft
<1> QED BY <1>1, <1>2, <1>3, <1>4, OneFilterChanges

\* An answer is what follows the cursor of the page before.
LEMMA AnswerKeeps ==
    ASSUME LedgerKept, NEW f \in Filters, AnswerPage(f)
    PROVE  LedgerKept'
<1> DEFINE ft == fetch[f]
           page == Page(f, CursorOf(ft.done))
           done == Append(ft.done, page)
           want == IF page.next = <<>> THEN Len(ft.done) + 1 ELSE ft.want
           steadied == IF ft.done = <<>> THEN Matching(f) ELSE ft.steady
           gt == [ft EXCEPT !.done = done, !.want = want, !.steady = steadied]
<1>1. Parsed(Query(f)) = f
  <2>1. f \in LedgerFilters
    BY LedgerPagesAssumption
  <2> QED BY <2>1, FiltersRead DEF AnswerPage
<1>2. /\ UNCHANGED <<stored, excluded, recategorized, chosen, pages, steady>>
      /\ Len(ft.done) < ft.want
      /\ fetch' = [fetch EXCEPT ![f].done = done, ![f].want = want, ![f].steady = steadied]
  BY <1>1 DEF AnswerPage
<1>3. /\ FilterSound(pages[f], ft, steady[f], Matching(f))
      /\ chosen \in Filters /\ stored \subseteq LedgerRows
  BY DEF LedgerKept
<1>4. ft \in Fetches /\ PagesFollow(ft.done) /\ Covers(ft.done, ft.steady) /\ AsksOn(ft)
      /\ ft.steady \subseteq Matching(f)
  BY <1>3 DEF FilterSound
<1>5. Matching(f) \subseteq LedgerRows
  BY <1>3 DEF Matching
<1>6. PageFits(page, CursorOf(ft.done), Matching(f))
  BY <1>5, PageAnswers
<1>7. ft.done \in Seq(PageRecords) /\ ft.want \in Nat
  BY <1>4 DEF Fetches
<1>8. ft.done # <<>> => CursorOf(ft.done) # <<>>
  BY <1>2, <1>4, <1>7 DEF AsksOn
<1> HIDE DEF page, ft
<1>9. done \in Seq(PageRecords) /\ PagesFollow(done)
  BY <1>4, <1>5, <1>6, <1>7, <1>8, PagesGrow
<1>10. Covers(done, steadied)
  BY <1>4, <1>6, <1>7, CoverGrows
<1>11. page \in PageRecords
  BY <1>6 DEF PageFits
<1>12. Len(done) = Len(ft.done) + 1 /\ done # <<>> /\ Len(done) \in Nat /\ Last(done) = page
  BY <1>7, <1>11 DEF Last
<1>13. want \in Nat /\ (page.next = <<>> => want = Len(done))
  BY <1>7, <1>12
<1>14. steadied \subseteq Matching(f) /\ steadied \subseteq LedgerRows
  BY <1>4, <1>5
<1> HIDE DEF done, want, steadied
<1>15. gt \in Fetches /\ gt.done = done /\ gt.want = want /\ gt.steady = steadied
  BY <1>4, <1>9, <1>13, <1>14 DEF Fetches
<1>16. fetch' = [fetch EXCEPT ![f] = gt]
  BY <1>2 DEF LedgerKept, ft
<1> HIDE DEF gt
<1>17. AsksOn(gt)
  BY <1>12, <1>13, <1>15 DEF AsksOn, CursorOf
<1>18. FilterSound(pages[f], gt, steady[f], Matching(f))
  BY <1>3, <1>9, <1>10, <1>14, <1>15, <1>17 DEF FilterSound
<1>19. pages' = [pages EXCEPT ![f] = pages[f]] /\ steady' = [steady EXCEPT ![f] = steady[f]]
  BY <1>2 DEF LedgerKept
<1> QED BY <1>2, <1>3, <1>16, <1>18, <1>19, OneFilterChanges

\* A fetch is given up, or its pages replace those that are shown.
LEMMA FailKeeps ==
    ASSUME LedgerKept, NEW f \in Filters, FetchFailed(f)
    PROVE  LedgerKept'
<1>1. /\ UNCHANGED <<stored, excluded, recategorized, chosen, pages, steady>>
      /\ fetch' = [fetch EXCEPT ![f] = NoFetch]
  BY DEF FetchFailed
<1>2. /\ FilterSound(pages[f], fetch[f], steady[f], Matching(f))
      /\ chosen \in Filters
  BY DEF LedgerKept
<1>3. FilterSound(pages[f], NoFetch, steady[f], Matching(f))
  <2>1. AsksOn(NoFetch)
    BY NoFetchSound DEF AsksOn
  <2> QED BY <1>2, <2>1, NoFetchSound, NoPages DEF FilterSound
<1>4. pages' = [pages EXCEPT ![f] = pages[f]] /\ steady' = [steady EXCEPT ![f] = steady[f]]
  BY <1>1 DEF LedgerKept
<1> QED BY <1>1, <1>2, <1>3, <1>4, OneFilterChanges

LEMMA CompleteKeeps ==
    ASSUME LedgerKept, NEW f \in Filters, FetchCompletes(f)
    PROVE  LedgerKept'
<1> DEFINE ft == fetch[f]
<1>1. /\ UNCHANGED <<stored, excluded, recategorized, chosen>>
      /\ pages' = [pages EXCEPT ![f] = ft.done]
      /\ steady' = [steady EXCEPT ![f] = ft.steady]
      /\ fetch' = [fetch EXCEPT ![f] = NoFetch]
  BY DEF FetchCompletes
<1>2. FilterSound(pages[f], ft, steady[f], Matching(f)) /\ chosen \in Filters
  BY DEF LedgerKept
<1> HIDE DEF ft
<1>3. FilterSound(ft.done, NoFetch, ft.steady, Matching(f))
  <2>1. AsksOn(NoFetch)
    BY NoFetchSound DEF AsksOn
  <2>2. ft.done \in Seq(PageRecords)
    BY <1>2 DEF FilterSound, Fetches
  <2> QED BY <1>2, <2>1, <2>2, NoFetchSound, NoPages DEF FilterSound
<1> QED BY <1>1, <1>2, <1>3, OneFilterChanges

\* Every step.
LEMMA LedgerKeeps == LedgerKept /\ [LedgerNext]_ledgerVars => LedgerKept'
<1> SUFFICES ASSUME LedgerKept, [LedgerNext]_ledgerVars PROVE LedgerKept'
  OBVIOUS
<1>1. CASE Import
  BY <1>1, ImportKeeps
<1>2. CASE Correct
  BY <1>2, CorrectKeeps
<1>3. CASE FetchAll
  BY <1>3, FetchAllKeeps
<1>4. CASE LoadMore
  BY <1>4, LoadMoreKeeps
<1>5. ASSUME NEW f \in Filters, ChooseFilters(f) PROVE LedgerKept'
  BY <1>5, ChooseKeeps
<1>6. ASSUME NEW f \in Filters, AnswerPage(f) PROVE LedgerKept'
  BY <1>6, AnswerKeeps
<1>7. ASSUME NEW f \in Filters, FetchFailed(f) PROVE LedgerKept'
  BY <1>7, FailKeeps
<1>8. ASSUME NEW f \in Filters, FetchCompletes(f) PROVE LedgerKept'
  BY <1>8, CompleteKeeps
<1>9. CASE UNCHANGED ledgerVars
  <2>1. UNCHANGED <<stored, excluded, recategorized, chosen, pages, fetch, steady>>
    BY <1>9 DEF ledgerVars
  <2>2. \A f : Matching(f)' = Matching(f)
    BY <2>1, MatchingSame
  <2> QED BY <2>1, <2>2 DEF LedgerKept
<1> QED BY <1>1, <1>2, <1>3, <1>4, <1>5, <1>6, <1>7, <1>8, <1>9 DEF LedgerNext

\* F joins the first m of the sequences R, as FlattenSeq does.
Joins(F, R, m) == F = [i \in 1..m |-> IF i = 1 THEN R[i] ELSE F[i - 1] \o R[i]]

\* The recursive function behind FlattenSeq exists.
LEMMA JoinsExist == ASSUME NEW R, NEW n, n \in Nat PROVE \E F : Joins(F, R, n)
<1> DEFINE Bad == {m \in 0..n : ~ \E F : Joins(F, R, m)}
<1>1. SUFFICES ASSUME Bad # {} PROVE FALSE
  <2>1. n \in 0..n
    OBVIOUS
  <2> QED BY <2>1
<1>2. PICK m \in Bad : \A t \in Bad : m <= t
  <2>1. Bad \subseteq 0..n
    OBVIOUS
  <2> HIDE DEF Bad
  <2> QED BY <1>1, <2>1, LeastExists
<1>3. m \in 0..n /\ ~ \E F : Joins(F, R, m)
  OBVIOUS
<1>4. CASE m = 0
  <2> DEFINE F == [i \in 1..0 |-> R[i]]
  <2>1. Joins(F, R, 0)
    <3>1. 1..0 = {}
      OBVIOUS
    <3> QED BY <3>1 DEF Joins
  <2> QED BY <1>3, <1>4, <2>1
<1>5. CASE m # 0
  <2>1. m - 1 \in 0..n /\ m - 1 \notin Bad /\ m \in 1..m
    BY <1>2, <1>3, <1>5
  <2>2. PICK F : Joins(F, R, m - 1)
    BY <2>1
  <2> DEFINE last == IF m = 1 THEN R[m] ELSE F[m - 1] \o R[m]
             G == [i \in 1..m |-> IF i = m THEN last ELSE F[i]]
  <2>3. ASSUME NEW i \in 1..m
        PROVE  G[i] = IF i = 1 THEN R[i] ELSE G[i - 1] \o R[i]
    <3>1. CASE i = m
      <4>1. m # 1 => m - 1 \in 1..m /\ m - 1 # m
        BY <2>1
      <4>2. m # 1 => G[m - 1] = F[m - 1]
        BY <4>1
      <4>3. G[m] = last
        BY <2>1
      <4> HIDE DEF G
      <4> QED BY <3>1, <4>2, <4>3
    <3>2. CASE i # m
      <4>1. i \in 1..(m - 1) /\ (i # 1 => i - 1 \in 1..m /\ i - 1 # m)
        BY <3>2
      <4>2. G[i] = F[i] /\ (i # 1 => G[i - 1] = F[i - 1])
        BY <3>2, <4>1
      <4> HIDE DEF G
      <4>3. F[i] = IF i = 1 THEN R[i] ELSE F[i - 1] \o R[i]
        BY <2>2, <4>1 DEF Joins
      <4> QED BY <4>2, <4>3
    <3> QED BY <3>1, <3>2
  <2>4. G = [i \in 1..m |-> G[i]]
    OBVIOUS
  <2> HIDE DEF G
  <2>5. [i \in 1..m |-> G[i]] = [i \in 1..m |-> IF i = 1 THEN R[i] ELSE G[i - 1] \o R[i]]
    BY <2>3
  <2>6. Joins(G, R, m)
    BY <2>4, <2>5 DEF Joins
  <2> QED BY <1>3, <2>6
<1> QED BY <1>4, <1>5

\* The elements of q are in the order O.
InLine(O, q) == \A k, l \in 1..Len(q) : k < l => <<q[k], q[l]>> \in O

\* q is made of the first i sequences of R.
MadeOf(R, i, q) == \A k \in 1..Len(q) : \E j \in 1..i : \E l \in 1..Len(R[j]) : R[j][l] = q[k]

\* Sequences in order, each before the next, make one that is in order.
LEMMA JoinedInLine ==
    ASSUME NEW S, NEW O, NEW n, n \in Nat, NEW R,
           \A i \in 1..n : R[i] \in Seq(S) /\ InLine(O, R[i]),
           \A i, j \in 1..n : i < j =>
              \A k \in 1..Len(R[i]), l \in 1..Len(R[j]) : <<R[i][k], R[j][l]>> \in O,
           NEW F, Joins(F, R, n)
    PROVE  \A i \in 1..n : F[i] \in Seq(S) /\ InLine(O, F[i])
<1> DEFINE Good(i) == F[i] \in Seq(S) /\ InLine(O, F[i]) /\ MadeOf(R, i, F[i])
           Bad == {i \in 1..n : ~Good(i)}
<1>1. SUFFICES ASSUME Bad # {} PROVE FALSE
  OBVIOUS
<1>2. PICK i \in Bad : \A t \in Bad : i <= t
  <2>1. Bad \subseteq 0..n
    OBVIOUS
  <2> HIDE DEF Bad
  <2> QED BY <1>1, <2>1, LeastExists
<1>3. i \in 1..n /\ ~Good(i)
  OBVIOUS
<1>4. \A t \in 1..n : t < i => Good(t)
  BY <1>2
<1> HIDE DEF Bad
<1>5. CASE i = 1
  <2>1. F[i] = R[i]
    BY <1>3, <1>5 DEF Joins
  <2>2. MadeOf(R, i, R[i])
    BY <1>3 DEF MadeOf
  <2> QED BY <1>3, <2>1, <2>2
<1>6. CASE i # 1
  <2> DEFINE p == F[i - 1]
             r == R[i]
             q == F[i]
  <2>1. i - 1 \in 1..n /\ i - 1 < i
    BY <1>3, <1>6
  <2>2. p \in Seq(S) /\ InLine(O, p) /\ MadeOf(R, i - 1, p)
    BY <1>4, <2>1
  <2>3. r \in Seq(S) /\ InLine(O, r)
    BY <1>3
  <2>4. q = p \o r
    BY <1>3, <1>6 DEF Joins
  <2>5. \A k \in 1..Len(p), l \in 1..Len(r) : <<p[k], r[l]>> \in O
    <3> SUFFICES ASSUME NEW k \in 1..Len(p), NEW l \in 1..Len(r) PROVE <<p[k], r[l]>> \in O
      OBVIOUS
    <3> HIDE DEF p
    <3>1. PICK j \in 1..(i - 1) : \E m \in 1..Len(R[j]) : R[j][m] = p[k]
      BY <2>2 DEF MadeOf
    <3>2. j \in 1..n /\ j < i
      BY <1>3, <3>1
    <3> QED BY <1>3, <3>1, <3>2
  <2> HIDE DEF p, r, q
  <2>6. /\ Len(p) \in Nat /\ Len(r) \in Nat
        /\ q \in Seq(S) /\ Len(q) = Len(p) + Len(r)
        /\ \A k \in 1..Len(q) : q[k] = IF k <= Len(p) THEN p[k] ELSE r[k - Len(p)]
    BY <2>2, <2>3, <2>4
  <2>7. InLine(O, q)
    <3> SUFFICES ASSUME NEW k \in 1..Len(q), NEW l \in 1..Len(q), k < l
                 PROVE  <<q[k], q[l]>> \in O
      BY DEF InLine
    <3>1. CASE l <= Len(p)
      <4>1. k \in 1..Len(p) /\ l \in 1..Len(p) /\ k <= Len(p)
        BY <2>6, <3>1
      <4> QED BY <2>2, <2>6, <3>1, <4>1 DEF InLine
    <3>2. CASE k <= Len(p) /\ ~(l <= Len(p))
      <4>1. k \in 1..Len(p) /\ l - Len(p) \in 1..Len(r)
        BY <2>6, <3>2
      <4> QED BY <2>5, <2>6, <3>2, <4>1
    <3>3. CASE ~(k <= Len(p))
      <4>1. /\ k - Len(p) \in 1..Len(r) /\ l - Len(p) \in 1..Len(r) /\ ~(l <= Len(p))
            /\ k - Len(p) < l - Len(p)
        BY <2>6, <3>3
      <4> QED BY <2>3, <2>6, <3>3, <4>1 DEF InLine
    <3> QED BY <3>1, <3>2, <3>3
  <2>8. MadeOf(R, i, q)
    <3> SUFFICES ASSUME NEW k \in 1..Len(q)
                 PROVE  \E j \in 1..i : \E l \in 1..Len(R[j]) : R[j][l] = q[k]
      BY DEF MadeOf
    <3>1. CASE k <= Len(p)
      <4>1. k \in 1..Len(p)
        BY <2>6, <3>1
      <4>2. PICK j \in 1..(i - 1) : \E l \in 1..Len(R[j]) : R[j][l] = p[k]
        BY <2>2, <4>1 DEF MadeOf
      <4>3. j \in 1..i
        BY <1>3, <4>2
      <4> QED BY <2>6, <3>1, <4>2, <4>3
    <3>2. CASE ~(k <= Len(p))
      <4>1. k - Len(p) \in 1..Len(r) /\ q[k] = r[k - Len(p)] /\ i \in 1..i
        BY <1>3, <2>6, <3>2
      <4> QED BY <4>1 DEF r
    <3> QED BY <3>1, <3>2
  <2>9. Good(i)
    BY <2>6, <2>7, <2>8 DEF q
  <2> QED BY <1>3, <2>9
<1> QED BY <1>5, <1>6

\* FlattenSeq of sequences in order, each before the next.
LEMMA FlattenInLine ==
    ASSUME NEW S, NEW O, NEW n, n \in Nat, NEW R, Len(R) = n, R \in Seq(Seq(S)),
           \A i \in 1..n : R[i] \in Seq(S) /\ InLine(O, R[i]),
           \A i, j \in 1..n : i < j =>
              \A k \in 1..Len(R[i]), l \in 1..Len(R[j]) : <<R[i][k], R[j][l]>> \in O
    PROVE  FlattenSeq(R) \in Seq(S) /\ InLine(O, FlattenSeq(R))
<1> DEFINE chosenJoin == CHOOSE F : Joins(F, R, Len(R))
<1>1. FlattenSeq(R) = IF Len(R) = 0 THEN R ELSE chosenJoin[Len(R)]
  BY DEF FlattenSeq, Joins
<1>2. Joins(chosenJoin, R, n)
  BY JoinsExist
<1> HIDE DEF chosenJoin
<1>3. \A i \in 1..n : chosenJoin[i] \in Seq(S) /\ InLine(O, chosenJoin[i])
  BY <1>2, JoinedInLine
<1>4. CASE n = 0
  <2>1. R = <<>>
    BY <1>4
  <2> QED BY <1>1, <1>4, <2>1 DEF InLine
<1>5. CASE n # 0
  <2>1. n \in 1..n
    BY <1>5
  <2> QED BY <1>1, <1>3, <1>5, <2>1
<1> QED BY <1>4, <1>5

\* Rows of a page come before those of a later one.
LEMMA PagesInOrder ==
    ASSUME NEW ps, ps \in Seq(PageRecords), PagesFollow(ps),
           NEW i, i \in 1..Len(ps), NEW j, j \in 1..Len(ps), i < j,
           NEW k, k \in 1..Len(ps[i].rows), NEW l, l \in 1..Len(ps[j].rows)
    PROVE  Before(ps[i].rows[k], ps[j].rows[l])
<1> DEFINE c == ps[i]
           d == ps[j]
           u == c.rows[Len(c.rows)]
           r == c.rows[k]
           s == d.rows[l]
<1>1. c \in PageRecords /\ d \in PageRecords /\ PageKept(c)
  BY DEF PagesFollow
<1>2. c.next # <<>> /\ AfterCursor(c.next, s)
  BY DEF PagesFollow
<1>3. k \in 1..Len(c.rows) /\ l \in 1..Len(d.rows)
  OBVIOUS
<1> HIDE DEF c, d
<1>4. c.rows \in Seq(LedgerRows) /\ d.rows \in Seq(LedgerRows)
  BY <1>1 DEF PageRecords
<1>5. c.next = <<u>> /\ u \in LedgerRows /\ Len(c.rows) \in 1..Len(c.rows)
  BY <1>1, <1>2, <1>4 DEF PageKept
<1>6. r \in LedgerRows /\ s \in LedgerRows
  BY <1>3, <1>4
<1>7. Before(u, s)
  BY <1>2, <1>5, <1>6, BeforeIsAfter
<1>8. r = u \/ Before(r, u)
  <2>1. k = Len(c.rows) \/ k < Len(c.rows)
    BY <1>3, <1>4
  <2> QED BY <1>1, <1>3, <1>5, <2>1 DEF PageKept
<1> HIDE DEF r, s, u
<1>9. Before(r, s)
  <2>1. /\ r.at \in Int /\ r.id \in Int /\ s.at \in Int /\ s.id \in Int
        /\ u.at \in Int /\ u.id \in Int
    BY <1>5, <1>6, RowsAreTyped DEF RowsTyped
  <2> QED BY <1>7, <1>8, <2>1 DEF Before
<1> QED BY <1>9 DEF r, s, c, d

\* What is shown is in the order of the ledger.
LEMMA ShownFollows ==
    ASSUME NEW f, pages[f] \in Seq(PageRecords), PagesFollow(pages[f])
    PROVE  \A i, j \in DOMAIN Loaded(f) : i < j => Before(Loaded(f)[i], Loaded(f)[j])
<1> DEFINE ps == pages[f]
           n == Len(ps)
           R == [i \in DOMAIN ps |-> ps[i].rows]
           rows == FlattenSeq(R)
           loaded == Loaded(f)
<1>1. /\ n \in Nat /\ DOMAIN ps = 1..n
      /\ \A i \in 1..n : ps[i] \in PageRecords /\ ps[i].rows \in Seq(LedgerRows)
  <2>1. n \in Nat /\ DOMAIN ps = 1..n /\ \A i \in 1..n : ps[i] \in PageRecords
    OBVIOUS
  <2>2. \A p \in PageRecords : p.rows \in Seq(LedgerRows)
    BY DEF PageRecords
  <2> QED BY <2>1, <2>2
<1>2. R = [i \in 1..n |-> ps[i].rows]
  BY <1>1
<1>3. \A i \in 1..n : R[i] = ps[i].rows
  BY <1>2
<1>4. R \in Seq(Seq(LedgerRows)) /\ Len(R) = n
  BY <1>1, <1>2
<1>5. DOMAIN loaded \subseteq DOMAIN rows /\ \A i \in DOMAIN loaded : loaded[i] = rows[i]
  <2> DEFINE first == {k \in DOMAIN rows : \A j \in 1..(k - 1) : rows[j].id # rows[k].id}
  <2>1. loaded = [i \in first |-> rows[i]]
    BY Zenon DEF Loaded
  <2>2. first \subseteq DOMAIN rows
    OBVIOUS
  <2> HIDE DEF loaded, rows, first
  <2> QED BY <2>1, <2>2
<1> HIDE DEF loaded
<1>6. \A i \in 1..n : R[i] \in Seq(LedgerRows) /\ InLine(RowOrder, R[i])
  <2> SUFFICES ASSUME NEW i \in 1..n PROVE InLine(RowOrder, ps[i].rows)
    BY <1>1, <1>3
  <2> DEFINE q == ps[i].rows
  <2>1. PageKept(ps[i]) /\ q \in Seq(LedgerRows)
    BY <1>1 DEF PagesFollow
  <2> SUFFICES ASSUME NEW k \in 1..Len(q), NEW l \in 1..Len(q), k < l
               PROVE  <<q[k], q[l]>> \in RowOrder
    BY DEF InLine
  <2>2. Before(q[k], q[l])
    BY <2>1 DEF PageKept
  <2> HIDE DEF q
  <2>3. q[k] \in LedgerRows /\ q[l] \in LedgerRows
    BY <2>1
  <2> QED BY <2>2, <2>3 DEF RowOrder
<1>7. ASSUME NEW i \in 1..n, NEW j \in 1..n, i < j,
             NEW k \in 1..Len(R[i]), NEW l \in 1..Len(R[j])
      PROVE  <<R[i][k], R[j][l]>> \in RowOrder
  <2>1. R[i] = ps[i].rows /\ R[j] = ps[j].rows
    BY <1>3
  <2>2. Before(R[i][k], R[j][l])
    <3> HIDE DEF R
    <3> QED BY <1>7, <2>1, PagesInOrder
  <2>3. R[i] \in Seq(LedgerRows) /\ R[j] \in Seq(LedgerRows)
    BY <1>6
  <2> HIDE DEF R
  <2>4. R[i][k] \in LedgerRows /\ R[j][l] \in LedgerRows
    BY <2>3
  <2> QED BY <2>2, <2>4 DEF RowOrder
<1> HIDE DEF n, R
<1>8. rows \in Seq(LedgerRows) /\ InLine(RowOrder, rows)
  BY <1>1, <1>4, <1>6, <1>7, FlattenInLine
<1> HIDE DEF rows
<1>9. ASSUME NEW i \in DOMAIN loaded, NEW j \in DOMAIN loaded, i < j
      PROVE  Before(loaded[i], loaded[j])
  <2>1. i \in 1..Len(rows) /\ j \in 1..Len(rows)
    BY <1>5, <1>8
  <2>2. <<rows[i], rows[j]>> \in RowOrder
    BY <1>8, <1>9, <2>1 DEF InLine
  <2> QED BY <1>5, <2>2 DEF RowOrder
<1> QED BY <1>9 DEF loaded

\* What the invariant says of the ledger.
LEMMA LedgerHolds == LedgerKept => LedgerInvariant
<1> SUFFICES ASSUME LedgerKept PROVE LedgerInvariant
  OBVIOUS
<1>1. ASSUME NEW f \in Filters
      PROVE  /\ pages[f] \in Seq(PageRecords) /\ PagesFollow(pages[f])
             /\ Covers(pages[f], steady[f]) /\ steady[f] \subseteq Matching(f)
  BY DEF LedgerKept, FilterSound
<1>2. ASSUME NEW f \in Filters, NEW r, OnPages(pages[f], r)
      PROVE  \E p \in ToSet(pages[f]) : r \in ToSet(p.rows)
  <2> DEFINE ps == pages[f]
  <2>1. PICK i \in 1..Len(ps) : \E k \in 1..Len(ps[i].rows) : ps[i].rows[k] = r
    BY <1>2 DEF OnPages
  <2>2. ps \in Seq(PageRecords)
    BY <1>1
  <2> HIDE DEF ps
  <2>3. ps[i] \in PageRecords /\ i \in DOMAIN ps
    BY <2>2
  <2>4. ps[i].rows \in Seq(LedgerRows)
    BY <2>3 DEF PageRecords
  <2>5. ps[i] \in ToSet(ps) /\ r \in ToSet(ps[i].rows)
    BY <2>1, <2>3, <2>4 DEF ToSet
  <2> QED BY <2>5 DEF ps
<1>3. NothingMissed
  <2> SUFFICES ASSUME NEW f \in Filters, pages[f] # <<>>, NEW r \in steady[f],
                      ~AfterCursor(CursorOf(pages[f]), r) \/ CursorOf(pages[f]) = <<>>
               PROVE  \E p \in ToSet(pages[f]) : r \in ToSet(p.rows)
    BY DEF NothingMissed
  <2>1. OnPages(pages[f], r)
    BY <1>1 DEF Covers
  <2> QED BY <1>2, <2>1
<1>4. ShownInOrder
  BY <1>1, ShownFollows DEF ShownInOrder
<1>5. FiltersUnderstood
  <2>1. chosen \in LedgerFilters
    BY LedgerPagesAssumption DEF LedgerKept
  <2> QED BY <2>1, FiltersRead DEF FiltersUnderstood, Unanswerable
<1>6. LedgerTypeInvariant
  <2>1. ASSUME NEW f \in Filters, NEW p \in ToSet(pages[f]) PROVE Len(p.rows) <= PageSize
    <3>1. PICK i \in DOMAIN pages[f] : pages[f][i] = p
      BY DEF ToSet
    <3>2. i \in 1..Len(pages[f])
      BY <1>1, <3>1
    <3> QED BY <1>1, <3>1, <3>2 DEF PagesFollow, PageKept
  <2>2. ASSUME NEW f \in Filters PROVE steady[f] \subseteq stored
    BY <1>1 DEF Matching
  <2> QED BY <2>1, <2>2 DEF LedgerKept, LedgerTypeInvariant
<1> QED BY <1>3, <1>4, <1>5, <1>6 DEF LedgerInvariant

\* The pages of the ledger show its rows in its order, none twice and none missing that
\* was there and matched all the time, for any rows, filters, limit of a page, imports and
\* corrections: useInfiniteQuery asks for each page by the last row of the one before.
THEOREM LedgerIsComplete == LedgerSpec => []LedgerInvariant
<1>1. LedgerInit => LedgerKept
  BY LedgerAtFirst
<1>2. LedgerKept /\ [LedgerNext]_ledgerVars => LedgerKept'
  BY LedgerKeeps
<1>3. LedgerKept => LedgerInvariant
  BY LedgerHolds
<1> QED BY <1>1, <1>2, <1>3, PTL DEF LedgerSpec
=============================================================================
