------------------------------ MODULE BankTypes ------------------------------
(* "Bank transaction types" on the categories page: pages of MCC codes,    *)
(* filtered by whether a category is assigned, each a query of its own;    *)
(* rows that assign one, which come and go with the pages; and the saves,  *)
(* which the rows find again by their key. The Worker's part is module     *)
(* Categories. The text of the search is a filter like the others.         *)
EXTENDS CategoryDialogs

CONSTANTS
    Codes,          \* 1..n: MCC codes in the order of the list
    Assignable,        \* ids of the categories offered
    Filters,        \* "all", "mapped", "unmapped"
    PageSize,
    Saves,          \* slots of those under way
    MaxMappings,    \* bound: changes of the mappings
    MaxMoves        \* bound: changes of view, filter and page

ASSUME BankTypesAssumption ==
    /\ IsFiniteSet(Codes) /\ Codes # {} /\ Codes = 1..Cardinality(Codes)
    /\ 0 \notin Assignable
    /\ "all" \in Filters /\ Filters \subseteq {"all", "mapped", "unmapped"}
    /\ PageSize \in Nat \ {0} /\ MaxMappings \in Nat /\ MaxMoves \in Nat

VARIABLES
    mapped,         \* category_source_mappings: an id, or 0 for the bank's category
    mappings,       \* changes of it so far
    place,          \* [active, filter, page, moves]: what is open
    sources,        \* the queries ['category-sources', filter and page]
    saves,          \* [phase, code, id]: mutations of the key of their code
    latest,         \* [status, id] of the latest mutation of each code
    others,          \* history: codes changed by others since their latest save
    ownMapping      \* history: the latest change this tab had the answer of

bankTypesVars == <<mapped, mappings, place, sources, saves, latest, others, ownMapping>>

LastPage == 1 + (Cardinality(Codes) - 1) \div PageSize
Keys == Filters \X (1..LastPage)
NoSave == [phase |-> "idle", code |-> 0, id |-> 0]

\* findSources of the Worker: the page of the codes that pass the filter.
Passes(filter, code) ==
    \/ filter = "all"
    \/ filter = "mapped" /\ mapped[code] # 0
    \/ filter = "unmapped" /\ mapped[code] = 0
SourcePage(filter, page) ==
    LET all == {code \in Codes : Passes(filter, code)}
        OnPage(code) == 1 + (Cardinality({c \in all : c < code}) \div PageSize) = page
    IN [at |-> mappings, total |-> Cardinality(all),
        rows |-> {[code |-> code, id |-> mapped[code]] : code \in {c \in all : OnPage(c)}}]

TotalPages(data) ==
    IF data.total = 0 THEN 1 ELSE 1 + (data.total - 1) \div PageSize

\* setPage(totalPages) while the page renders, until it is on one that exists.
ExistingPage(queries, filter, page) ==
    LET settle[p \in 1..LastPage] ==
            LET q == queries[<<filter, p>>]
            IN IF Has(q) /\ p > TotalPages(q.data) THEN settle[TotalPages(q.data)] ELSE p
    IN settle[page]

KeyOf(at) == <<at.filter, at.page>>
IsShown(key) == place.active /\ key = KeyOf(place)

BankTypesInit ==
    /\ mapped = [code \in Codes |-> 0] /\ mappings = 0
    /\ \E active \in BOOLEAN :
          /\ place = [active |-> active, filter |-> "all", page |-> 1, moves |-> 0]
          /\ sources = [key \in Keys |-> IF IsShown(key) THEN Fetch(Query) ELSE Query]
    /\ saves = [s \in Saves |-> NoSave]
    /\ latest = [code \in Codes |-> [status |-> "none", id |-> 0]]
    /\ others = {} /\ ownMapping = 0

\* The page renders with these queries, and observes the one of where it ends up.
MovedTo(next, queries) ==
    LET at == [next EXCEPT !.page = ExistingPage(queries, next.filter, next.page)]
    IN /\ place' = at
       /\ IF at.active /\ ~IsShown(KeyOf(at))
          THEN \E stale \in BOOLEAN :
                  sources' = [queries EXCEPT ![KeyOf(at)] = Observed(@, stale)]
          ELSE sources' = queries
-----------------------------------------------------------------------------
\* The view is a parameter of the URL; the page, filter and rows stay mounted.
SwitchView ==
    /\ place.moves < MaxMoves
    /\ MovedTo([place EXCEPT !.active = ~@, !.moves = @ + 1], sources)
    /\ UNCHANGED <<mapped, mappings, saves, latest, others, ownMapping>>

SetFilter ==
    /\ place.active /\ place.moves < MaxMoves
    /\ \E filter \in Filters \ {place.filter} :
          MovedTo([place EXCEPT !.filter = filter, !.page = 1, !.moves = @ + 1], sources)
    /\ UNCHANGED <<mapped, mappings, saves, latest, others, ownMapping>>

\* "Previous" and "Next", not while the page is fetched.
TurnPage ==
    /\ place.active /\ place.moves < MaxMoves
    /\ LET q == sources[KeyOf(place)] IN
       /\ Has(q) /\ ~Fetching(q) /\ q.data.total > 0
       /\ \E page \in {place.page - 1, place.page + 1} :
             /\ page \in 1..TotalPages(q.data)
             /\ MovedTo([place EXCEPT !.page = page, !.moves = @ + 1], sources)
    /\ UNCHANGED <<mapped, mappings, saves, latest, others, ownMapping>>

ReadSources(key) ==
    /\ sources[key].phase = "sent"
    /\ sources' = [sources EXCEPT ![key] = ReadAt(@, SourcePage(key[1], key[2]))]
    /\ UNCHANGED <<mapped, mappings, place, saves, latest, others, ownMapping>>

\* A mapping can have removed the final row of a filtered last page.
SourcesArrive(key) ==
    /\ sources[key].phase = "read"
    /\ MovedTo(place, [sources EXCEPT ![key] = Received(@, sources[key].got)])
    /\ UNCHANGED <<mapped, mappings, saves, latest, others, ownMapping>>

SourcesFail(key) ==
    /\ Fetching(sources[key])
    /\ sources' = [sources EXCEPT ![key] = Failed(@)]
    /\ UNCHANGED <<mapped, mappings, place, saves, latest, others, ownMapping>>

RetrySources ==
    /\ place.active /\ sources[KeyOf(place)].failed
    /\ sources' = [sources EXCEPT ![KeyOf(place)] = Fetch(@)]
    /\ UNCHANGED <<mapped, mappings, place, saves, latest, others, ownMapping>>

\* save(id): isMutating tells whether a mutation of this code is pending, whichever
\* row began it.
IsMutating(code) == \E s \in Saves : saves[s].phase # "idle" /\ saves[s].code = code
Mutate(s, code, id) ==
    /\ saves[s].phase = "idle" /\ ~IsMutating(code)
    /\ saves' = [saves EXCEPT ![s] = [phase |-> "sent", code |-> code, id |-> id]]
    /\ latest' = [latest EXCEPT ![code] = [status |-> "pending", id |-> id]]
    /\ others' = others \ {code}
    /\ UNCHANGED <<mapped, mappings, place, sources, ownMapping>>

\* The picker of a row that is shown, with another category than it shows.
Pick(s) ==
    /\ place.active /\ Has(sources[KeyOf(place)])
    /\ \E row \in sources[KeyOf(place)].data.rows :
          \E id \in (Assignable \cup {0}) \ {row.id} : Mutate(s, row.code, id)

\* "Retry" of a row whose latest save failed.
RetrySave(s) ==
    /\ place.active /\ Has(sources[KeyOf(place)])
    /\ \E row \in sources[KeyOf(place)].data.rows :
          /\ latest[row.code].status = "error"
          /\ Mutate(s, row.code, latest[row.code].id)

\* PUT and DELETE of the Worker.
StoreMapping(s) ==
    /\ saves[s].phase = "sent" /\ mappings < MaxMappings
    /\ mapped' = [mapped EXCEPT ![saves[s].code] = saves[s].id]
    /\ mappings' = mappings + 1
    /\ saves' = [saves EXCEPT ![s].phase = "stored"]
    /\ UNCHANGED <<place, sources, latest, others, ownMapping>>

\* The answer: refreshCategorySourceMapping.
SaveArrives(s) ==
    /\ saves[s].phase = "stored"
    /\ saves' = [saves EXCEPT ![s] = NoSave]
    /\ latest' = [latest EXCEPT ![saves[s].code].status = "success"]
    /\ sources' = [key \in Keys |->
           IF sources[key] = Query THEN Query ELSE Invalidated(sources[key], IsShown(key))]
    /\ ownMapping' = mappings
    /\ UNCHANGED <<mapped, mappings, place, others>>

\* The category is gone, or the answer is lost; a request that failed is over.
SaveFails(s) ==
    /\ saves[s].phase # "idle"
    /\ saves' = [saves EXCEPT ![s] = NoSave]
    /\ latest' = [latest EXCEPT ![saves[s].code].status = "error"]
    /\ UNCHANGED <<mapped, mappings, place, sources, others, ownMapping>>

\* Another tab or device assigns, or deletes or merges a category.
MapElsewhere ==
    /\ mappings < MaxMappings
    /\ \E code \in Codes : \E id \in (Assignable \cup {0}) \ {mapped[code]} :
          mapped' = [mapped EXCEPT ![code] = id] /\ others' = others \cup {code}
    /\ mappings' = mappings + 1
    /\ UNCHANGED <<place, sources, saves, latest, ownMapping>>

BankTypesNext ==
    \/ SwitchView \/ SetFilter \/ TurnPage \/ RetrySources \/ MapElsewhere
    \/ \E key \in Keys : ReadSources(key) \/ SourcesArrive(key) \/ SourcesFail(key)
    \/ \E s \in Saves :
          Pick(s) \/ RetrySave(s) \/ StoreMapping(s) \/ SaveArrives(s) \/ SaveFails(s)

BankTypesSpec == BankTypesInit /\ [][BankTypesNext]_bankTypesVars

\* Both parts of the page, which share no state.
CategoryPagesSpec == DialogsSpec /\ BankTypesSpec
-----------------------------------------------------------------------------
\* "Changes saved." is true: the category of the latest save is assigned, unless it
\* was changed elsewhere meanwhile. An earlier save of a row that was left cannot
\* arrive over a later one.
SavedIsStored ==
    \A code \in Codes \ others :
       latest[code].status = "success" => mapped[code] = latest[code].id

\* The page that is open exists in what is shown of it.
PageExists ==
    LET q == sources[KeyOf(place)]
    IN place.active /\ Has(q) => place.page <= TotalPages(q.data)

\* The rows on the screen are not those of before a save this tab had the answer of,
\* unless another fetch is under way or failed, or one of before went on because
\* the page was not shown or had no rows yet.
RowsFollow ==
    LET q == sources[KeyOf(place)]
    IN place.active /\ Has(q) /\ q.data.at < ownMapping =>
          Fetching(q) \/ q.failed \/ q.overtaken

BankTypesInvariant ==
    /\ mappings \in 0..MaxMappings /\ place.page \in 1..LastPage
    /\ SavedIsStored /\ PageExists /\ RowsFollow

\* The pages that manage categories keep to what they were told.
CategoryPagesInvariant == DialogsInvariant /\ BankTypesInvariant
=============================================================================
