----------------------------- MODULE LedgerPages -----------------------------
(* The ledger of one browser, page by page, while transactions are         *)
(* imported and corrected: GET /api/transactions with its filters and its  *)
(* cursor, and the infinite query that keeps the pages of every filter. A  *)
(* text is the set of search terms it contains. The filters by adjustment  *)
(* and compensation, which no view of the ledger sets, are left out.       *)
EXTENDS Integers, FiniteSets, Sequences, SequencesExt

CONSTANTS
    LedgerRows,     \* transactions: [id, at, account, direction, currency, code, terms]
    Filters,        \* TransactionListFilters the owner chooses among
    PageSize,       \* limit
    MaxAccountIds,  \* accountId parameters the route accepts, 20 in the code
    MaxWrites       \* bound: imports and corrections

\* What the view of the ledger reads from its URL: -1 and "any" stand for null.
LedgerFilters ==
    [accountIds : SUBSET STRING, category : STRING, name : STRING,
     dateFrom : Nat \cup {-1}, dateTo : Nat \cup {-1},
     direction : {"any", "income", "expense"}, currency : STRING,
     excluded : {"any", "true", "false"}, search : STRING]

NoCategory == "any"
NoFilter == [accountIds |-> {}, category |-> NoCategory, name |-> "any",
             dateFrom |-> -1, dateTo |-> -1, direction |-> "any", currency |-> "any",
             excluded |-> "any", search |-> "any"]

\* The key of a row is its id; the ledger is ordered by times and ids.
ASSUME LedgerPagesAssumption ==
    /\ PageSize \in Nat \ {0} /\ MaxAccountIds \in Nat /\ MaxWrites \in Nat
    /\ IsFiniteSet(LedgerRows)
    /\ \A r \in LedgerRows : r.id \in Int /\ r.at \in Int
    /\ \A r, s \in LedgerRows : r.id = s.id => r = s
    /\ Filters \subseteq LedgerFilters /\ NoFilter \in Filters

VARIABLES
    stored,         \* transactions
    excluded,       \* transaction_exclusions
    recategorized,  \* transaction_category_overrides, all to one category
    writes,         \* imports and corrections so far
    chosen,         \* the filters of the view
    pages,          \* query cache: [rows, next] pages of each filter
    fetch,          \* [kind, done, want, steady]: the fetch of each filter under way
    steady          \* history: rows that match each filter since its first page was read

ledgerVars == <<stored, excluded, recategorized, writes, chosen, pages, fetch, steady>>

NoFetch == [kind |-> "none", done |-> <<>>, want |-> 0, steady |-> {}]

\* transactionFilterParameters sets what is not null.
(* The query string. Values are text: a boolean is sent as its name.       *)
SentValue(field, value) == IF value = "any" THEN <<>> ELSE <<value>>

Query(f) ==
    [accountId |-> f.accountIds,
     dateFrom |-> IF f.dateFrom = -1 THEN <<>> ELSE <<f.dateFrom>>,
     dateTo |-> IF f.dateTo = -1 THEN <<>> ELSE <<f.dateTo>>,
     category |-> SentValue("category", f.name),
     categoryId |-> IF f.category = "uncategorized" THEN <<>>
                    ELSE SentValue("categoryId", f.category),
     uncategorized |-> IF f.category = "uncategorized" THEN <<"true">> ELSE <<>>,
     direction |-> SentValue("direction", f.direction),
     currency |-> SentValue("currency", f.currency),
     excluded |-> SentValue("excluded", f.excluded),
     search |-> SentValue("search", f.search)]

Refused == [NoFilter EXCEPT !.dateFrom = -2]    \* no filters: the answer is 400
OrAny(values) == IF values = <<>> THEN "any" ELSE values[1]
Epoch(values) == IF values = <<>> THEN -1 ELSE values[1]

\* parseFilters
Parsed(q) ==
    IF \/ Cardinality(q.accountId) > MaxAccountIds
       \/ OrAny(q.direction) \notin {"any", "income", "expense"}
       \/ q.categoryId # <<>> /\ q.uncategorized = <<"true">>
       \/ q.category # <<>> /\ (q.categoryId # <<>> \/ q.uncategorized = <<"true">>)
       \/ q.dateFrom # <<>> /\ q.dateTo # <<>> /\ q.dateFrom[1] > q.dateTo[1]
    THEN Refused
    ELSE [accountIds |-> q.accountId,
          category |-> IF q.uncategorized = <<"true">> THEN "uncategorized"
                       ELSE OrAny(q.categoryId),
          name |-> OrAny(q.category), dateFrom |-> Epoch(q.dateFrom), dateTo |-> Epoch(q.dateTo),
          direction |-> OrAny(q.direction), currency |-> OrAny(q.currency),
          excluded |-> OrAny(q.excluded), search |-> OrAny(q.search)]

(* The statement of D1TransactionsRepository.list.                         *)
\* COALESCE of the override and the original code; "none" is NULL.
CategoryOf(r) == IF r.id \in recategorized THEN "custom" ELSE r.code

\* The owner's category has the name of one of the bank's.
NameOf(category) == IF category = "custom" THEN "food" ELSE category

Matches(f, r) ==
    /\ f.accountIds # {} => r.account \in f.accountIds
    /\ f.dateFrom # -1 => r.at >= f.dateFrom
    /\ f.dateTo # -1 => r.at <= f.dateTo
    /\ f.direction # "any" => r.direction = f.direction
    /\ f.currency # "any" => r.currency = f.currency
    /\ f.category \notin {"any", "uncategorized"} => CategoryOf(r) = f.category
    /\ f.name # "any" => NameOf(CategoryOf(r)) = f.name
    /\ f.category = "uncategorized" => CategoryOf(r) = "none"
    /\ f.excluded # "any" => ((r.id \in excluded) <=> f.excluded = "true")
    /\ f.search # "any" => f.search \in r.terms

Matching(f) == {r \in stored : Matches(f, r)}

\* ORDER BY original_timestamp DESC, id DESC
Before(r, s) == r.at > s.at \/ (r.at = s.at /\ r.id > s.id)

TimeAfter(cursor, r) ==              \* mutant: the cursor is a timestamp
    cursor = <<>> \/ r.at < cursor[1].at

\* The keyset condition of a cursor.
AfterCursor(cursor, r) ==
    cursor = <<>> \/ r.at < cursor[1].at \/ (r.at = cursor[1].at /\ r.id < cursor[1].id)

Ordered(rows) ==
    [i \in 1..Cardinality(rows) |->
        CHOOSE r \in rows : Cardinality({s \in rows : Before(s, r)}) = i - 1]

\* LIMIT limit + 1: one more row tells that there is a next page.
Page(f, cursor) ==
    LET rows == Ordered({r \in Matching(f) : AfterCursor(cursor, r)})
        page == SubSeq(rows, 1, IF Len(rows) < PageSize THEN Len(rows) ELSE PageSize)
    IN [rows |-> page, next |-> IF Len(rows) > PageSize THEN <<Last(page)>> ELSE <<>>]

LedgerInit ==
    /\ stored \in {{}, {r \in LedgerRows : r.at > 1}}
    /\ excluded = {} /\ recategorized = {} /\ writes = 0
    /\ chosen = NoFilter
    /\ pages = [f \in Filters |-> <<>>]
    /\ fetch = [f \in Filters |-> NoFetch]
    /\ steady = [f \in Filters |-> {}]

Toggle(set, x) == IF x \in set THEN set \ {x} ELSE set \cup {x}

Import ==
    /\ writes < MaxWrites
    /\ \E r \in LedgerRows \ stored : stored' = stored \cup {r}
    /\ writes' = writes + 1
    /\ UNCHANGED <<excluded, recategorized, chosen, pages, fetch, steady>>

\* An exclusion or a category is set or reset, here or in another tab.
Correct ==
    /\ writes < MaxWrites
    /\ \E r \in stored :
          \/ excluded' = Toggle(excluded, r.id) /\ UNCHANGED recategorized
          \/ recategorized' = Toggle(recategorized, r.id) /\ UNCHANGED excluded
    /\ writes' = writes + 1
    /\ steady' = [f \in Filters |-> {r \in steady[f] : Matches(f, r)'}]
    /\ fetch' = [f \in Filters |-> [fetch[f] EXCEPT !.steady = {r \in @ : Matches(f, r)'}]]
    /\ UNCHANGED <<stored, chosen, pages>>

(* The infinite query of each filter. Pages are stale after 15 seconds,    *)
(* which is a choice here.                                                 *)
EveryPage(f) == [NoFetch EXCEPT !.kind = "all",
                    !.want = IF pages[f] = <<>> THEN 1 ELSE Len(pages[f])]

\* The pages after the first are dropped by the effect of useTransactionLedger; the
\* effect of useInfiniteQuery comes first and, when the pages are stale, has then
\* begun to fetch as many as there were.
ChooseFilters(f) ==
    /\ f # chosen
    /\ chosen' = f
    /\ pages' = [pages EXCEPT ![f] = SubSeq(@, 1, IF Len(@) > 1 THEN 1 ELSE Len(@))]
    /\ \/ pages[f] # <<>> /\ UNCHANGED fetch
       \/ fetch[f].kind = "none" /\ fetch' = [fetch EXCEPT ![f] = EveryPage(f)]
    /\ UNCHANGED <<stored, excluded, recategorized, writes, steady>>

\* The first fetch; later every page again, after a mutation or a synchronization,
\* which cancels a fetch under way.
FetchAll ==
    /\ fetch[chosen].kind # "all"
    /\ fetch' = [fetch EXCEPT ![chosen] = EveryPage(chosen)]
    /\ UNCHANGED <<stored, excluded, recategorized, writes, chosen, pages, steady>>

\* fetchNextPage, when the last page has a cursor.
LoadMore ==
    /\ fetch[chosen].kind = "none" /\ pages[chosen] # <<>>
    /\ Last(pages[chosen]).next # <<>>
    /\ fetch' = [fetch EXCEPT ![chosen] = [kind |-> "next", done |-> pages[chosen],
                     want |-> Len(pages[chosen]) + 1, steady |-> steady[chosen]]]
    /\ UNCHANGED <<stored, excluded, recategorized, writes, chosen, pages, steady>>

CursorOf(done) == IF done = <<>> THEN <<>> ELSE Last(done).next

\* One page is answered; a fetch of every page ends early at a page without cursor.
AnswerPage(f) ==
    /\ fetch[f].kind # "none" /\ Len(fetch[f].done) < fetch[f].want
    /\ Parsed(Query(f)) # Refused
    /\ LET page == Page(Parsed(Query(f)), CursorOf(fetch[f].done))
       IN fetch' = [fetch EXCEPT ![f].done = Append(@, page),
              ![f].want = IF page.next = <<>> THEN Len(fetch[f].done) + 1 ELSE @,
              ![f].steady = IF fetch[f].done = <<>> THEN Matching(f) ELSE @]
    /\ UNCHANGED <<stored, excluded, recategorized, writes, chosen, pages, steady>>

\* A page is answered 400 or 500, or not at all: what is cached stays.
FetchFailed(f) ==
    /\ fetch[f].kind # "none" /\ Len(fetch[f].done) < fetch[f].want
    /\ fetch' = [fetch EXCEPT ![f] = NoFetch]
    /\ UNCHANGED <<stored, excluded, recategorized, writes, chosen, pages, steady>>

FetchCompletes(f) ==
    /\ fetch[f].kind # "none" /\ Len(fetch[f].done) = fetch[f].want
    /\ pages' = [pages EXCEPT ![f] = fetch[f].done]
    /\ steady' = [steady EXCEPT ![f] = fetch[f].steady]
    /\ fetch' = [fetch EXCEPT ![f] = NoFetch]
    /\ UNCHANGED <<stored, excluded, recategorized, writes, chosen>>

LedgerNext ==
    \/ Import \/ Correct \/ FetchAll \/ LoadMore
    \/ \E f \in Filters : \/ ChooseFilters(f) \/ AnswerPage(f)
                          \/ FetchFailed(f) \/ FetchCompletes(f)

LedgerSpec == LedgerInit /\ [][LedgerNext]_ledgerVars

\* loadedTransactions: the first occurrence of each row, in the order of the pages.
Loaded(f) ==
    LET rows == FlattenSeq([i \in DOMAIN pages[f] |-> pages[f][i].rows])
        First(i) == \A j \in 1..(i - 1) : rows[j].id # rows[i].id
    IN [i \in {k \in DOMAIN rows : First(k)} |-> rows[i]]

LedgerTypeInvariant ==
    /\ stored \subseteq LedgerRows
    /\ chosen \in Filters
    /\ \A f \in Filters : /\ steady[f] \subseteq stored
                          /\ \A p \in ToSet(pages[f]) : Len(p.rows) <= PageSize

\* What the owner sees is in the order of the ledger, without a row twice: rows
\* imported or corrected between two pages, and pages fetched again, change nothing.
ShownInOrder ==
    \A f \in Filters : LET shown == Loaded(f)
                       IN \A i, j \in DOMAIN shown : i < j => Before(shown[i], shown[j])

\* A row that matched ever since the first page was read is on the pages as far as
\* they go, whatever was imported or corrected between them; a ledger without a next
\* page has all of them.
NothingMissed ==
    \A f \in Filters : pages[f] # <<>> =>
        \A r \in steady[f] :
            ~AfterCursor(CursorOf(pages[f]), r) \/ CursorOf(pages[f]) = <<>>
                => \E p \in ToSet(pages[f]) : r \in ToSet(p.rows)

\* The server answers for the filters the owner chose or refuses them: it reads no
\* other ones from the query string, and refuses only more accounts than it takes, a
\* period that ends before it begins, and a category by its name and by its id.
FiltersUnderstood ==
    Parsed(Query(chosen)) =
        IF \/ Cardinality(chosen.accountIds) > MaxAccountIds
           \/ -1 \notin {chosen.dateFrom, chosen.dateTo} /\ chosen.dateFrom > chosen.dateTo
           \/ "any" \notin {chosen.name, chosen.category}
        THEN Refused ELSE chosen

\* The pages together are the ledger the owner asked for: its rows in its order, none
\* missing, none of other filters.
LedgerInvariant == LedgerTypeInvariant /\ ShownInOrder /\ NothingMissed /\ FiltersUnderstood
=============================================================================
