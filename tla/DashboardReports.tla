--------------------------- MODULE DashboardReports ---------------------------
(* One tab's queries around the reports of the dashboard: the preferred    *)
(* base currency, the report of each base, and what the settings and the   *)
(* dashboard do to them. A report is three requests at once: it is as old  *)
(* as the first of them that was read. Books are everything the reports    *)
(* are made of, numbered by their changes. What a page knows of its saves  *)
(* and refreshes under way, it forgets when it is left: they go on, and    *)
(* the page opened again starts others.                                    *)
EXTENDS QueryCache

CONSTANTS
    Codes,          \* base currencies
    Uah,            \* the one of a user without a preference
    Original,       \* the key of the report that is not converted
    Kinds,          \* of refreshes: "rates", "accounts", "transactions"
    Requests,       \* bound: saves, and refreshes of a kind, under way together
    MaxBooks,       \* bound: changes of the books
    MaxSaves,       \* bound: preferences saved
    MaxVisits       \* bound: changes of page or mode

ASSUME ReportsAssumption ==
    /\ Uah \in Codes /\ Original \notin Codes
    /\ Kinds \subseteq {"rates", "accounts", "transactions"}
    /\ MaxBooks \in Nat /\ MaxSaves \in Nat /\ MaxVisits \in Nat

VARIABLES
    saved,          \* [code, at]: user_preferences, and how many saves it is from
    books,          \* the number of the books' latest change
    page,           \* "dashboard" or "settings"
    mode,           \* "base" or "original", the dashboard's
    visits,         \* changes of page or mode so far
    currency,       \* the query ['currency-preferences']
    report,         \* the queries ['dashboard-analytics', filters], by base
    save,           \* [phase, code, at, here, alone] of each saveCurrencyPreferences:
                    \* here, while the page that sent it is open; alone is history:
                    \* no other was under way meanwhile
    refreshing,     \* [phase, here] of each request of a kind that changes the books
    own             \* history: [saves, books]: the latest this tab had answers of,
                    \* [last, overlapped]: the save that was answered last

viewVars == <<page, mode, visits>>
serverVars == <<saved, books>>
reportsVars == <<serverVars, viewVars, currency, report, save, refreshing, own>>

\* analyticsFilters: the report the dashboard shows for a preference.
KeyFor(preference, m) ==
    IF m = "original" THEN Original ELSE IF Has(preference) THEN preference.data.code ELSE Uah
ShownKey == KeyFor(currency, mode)
IsObserved(k) == page = "dashboard" /\ k = ShownKey

\* The observer of the report moves to the key the new preference gives.
Follow(reports, preference) ==
    LET next == KeyFor(preference, mode)
    IN IF page = "dashboard" /\ next # ShownKey
       THEN {[reports EXCEPT ![next] = Observed(@, stale)] : stale \in BOOLEAN}
       ELSE {reports}

\* refreshCurrencyAnalytics, refreshTransactionLedger
ReportsInvalidated == [k \in DOMAIN report |-> Invalidated(report[k], IsObserved(k))]

Told(at) == [code |-> Uah, at |-> at]

\* isPending, syncingAccounts, syncingTransactions are state of the mounted page.
NotPending == [phase |-> "idle", here |-> FALSE]
NoSave == [phase |-> "idle", code |-> Uah, at |-> 0, here |-> FALSE, alone |-> FALSE]
IsPending(requests) == \E r \in Requests : requests[r].here
Unmounted(requests) == [r \in Requests |-> [requests[r] EXCEPT !.here = FALSE]]
PageLeft ==
    /\ save' = Unmounted(save)
    /\ refreshing' = [k \in Kinds |-> Unmounted(refreshing[k])]

ReportsInit ==
    /\ saved = [code |-> Uah, at |-> 0]
    /\ books = 0
    /\ page = "settings" /\ mode = "base" /\ visits = 0
    /\ currency = Fetch(Query)
    /\ report = [k \in Codes \cup {Original} |-> Query]
    /\ save = [r \in Requests |-> NoSave]
    /\ refreshing = [k \in Kinds |-> [r \in Requests |-> NotPending]]
    /\ own = [saves |-> 0, books |-> 0, last |-> 0, overlapped |-> FALSE]
-----------------------------------------------------------------------------
\* The dashboard is opened: its two queries are observed.
OpenDashboard ==
    /\ page = "settings" /\ visits < MaxVisits
    /\ page' = "dashboard" /\ visits' = visits + 1
    /\ \E stale \in BOOLEAN : currency' = Observed(currency, stale)
    /\ \E stale \in BOOLEAN : report' = [report EXCEPT ![ShownKey] = Observed(@, stale)]
    /\ PageLeft
    /\ UNCHANGED <<serverVars, mode, own>>

\* Queries and requests under way go on.
OpenSettings ==
    /\ page = "dashboard" /\ visits < MaxVisits
    /\ page' = "settings" /\ visits' = visits + 1
    /\ \E stale \in BOOLEAN : currency' = Observed(currency, stale)
    /\ PageLeft
    /\ UNCHANGED <<serverVars, mode, report, own>>

\* The filter of currencies.
SetMode ==
    /\ page = "dashboard" /\ visits < MaxVisits
    /\ \E m \in {"base", "original"} \ {mode}, stale \in BOOLEAN :
          /\ mode' = m
          /\ report' = [report EXCEPT ![KeyFor(currency, m)] = Observed(@, stale)]
    /\ visits' = visits + 1
    /\ UNCHANGED <<serverVars, page, currency, save, refreshing, own>>

\* getCurrencyPreferences is read, and its answer arrives or is an error.
ReadCurrency ==
    /\ currency.phase = "sent"
    /\ currency' = ReadAt(currency, saved)
    /\ UNCHANGED <<serverVars, viewVars, report, save, refreshing, own>>

CurrencyArrives ==
    /\ currency.phase = "read"
    /\ currency' = Received(currency, currency.got)
    /\ report' \in Follow(report, currency')
    /\ UNCHANGED <<serverVars, viewVars, save, refreshing, own>>

CurrencyFails ==
    /\ Fetching(currency)
    /\ currency' = Failed(currency)
    /\ UNCHANGED <<serverVars, viewVars, report, save, refreshing, own>>

\* "Retry" in the settings and "Retry analytics". (A window focused again fetches
\* what a page opened again does.)
RefetchCurrency ==
    /\ page = "settings" /\ currency.failed /\ ~Fetching(currency)
    /\ currency' = Refetched(currency)
    /\ UNCHANGED <<serverVars, viewVars, report, save, refreshing, own>>

RefetchReport ==
    /\ page = "dashboard" /\ report[ShownKey].failed
    /\ report' = [report EXCEPT ![ShownKey] = Refetched(@)]
    /\ UNCHANGED <<serverVars, viewVars, currency, save, refreshing, own>>

\* The first request of a report is read.
ReadReport(k) ==
    /\ report[k].phase = "sent"
    /\ report' = [report EXCEPT ![k] = ReadAt(@, Told(books))]
    /\ UNCHANGED <<serverVars, viewVars, currency, save, refreshing, own>>

\* All three have arrived.
ReportArrives(k) ==
    /\ report[k].phase = "read"
    /\ report' = [report EXCEPT ![k] = Received(@, report[k].got)]
    /\ UNCHANGED <<serverVars, viewVars, currency, save, refreshing, own>>

\* One is refused.
ReportFails(k) ==
    /\ Fetching(report[k])
    /\ report' = [report EXCEPT ![k] = Failed(@)]
    /\ UNCHANGED <<serverVars, viewVars, currency, save, refreshing, own>>

\* The network is gone: getOfflineApiData answers with the snapshot of the latest
\* answer, or of an earlier visit, which OfflineStatus tells the user.
ReportFromSnapshot(k) ==
    /\ Fetching(report[k])
    /\ LET snapshot == IF Has(report[k]) THEN report[k].data ELSE Told(0)
       IN report' = [report EXCEPT ![k] = [Received(@, snapshot) EXCEPT !.cached = TRUE]]
    /\ UNCHANGED <<serverVars, viewVars, currency, save, refreshing, own>>
-----------------------------------------------------------------------------
\* submit: the form is there once the preference was loaded; one save at a time of
\* this page.
Submit(r) ==
    /\ page = "settings" /\ Has(currency)
    /\ ~IsPending(save) /\ save[r].phase = "idle"
    /\ \E code \in Codes :
          save' = [t \in Requests |->
                     IF t = r
                     THEN [phase |-> "sent", code |-> code, at |-> 0, here |-> TRUE,
                           alone |-> \A u \in Requests : save[u].phase = "idle"]
                     ELSE [save[t] EXCEPT !.alone = FALSE]]
    /\ UNCHANGED <<serverVars, viewVars, currency, report, refreshing, own>>

\* setBaseCurrency: the row of this user is inserted or replaced.
SaveBaseCurrency(r) ==
    /\ save[r].phase = "sent" /\ saved.at < MaxSaves
    /\ saved' = [code |-> save[r].code, at |-> saved.at + 1]
    /\ save' = [save EXCEPT ![r].phase = "stored", ![r].at = saved'.at]
    /\ UNCHANGED <<viewVars, books, currency, report, refreshing, own>>

\* The same by another tab or device.
SaveElsewhere ==
    /\ saved.at < MaxSaves
    /\ \E code \in Codes : saved' = [code |-> code, at |-> saved.at + 1]
    /\ UNCHANGED <<viewVars, books, currency, report, save, refreshing, own>>

\* What the tab has the answer of.
SaveAnswered(s) == [own EXCEPT !.saves = IF s.at > @ THEN s.at ELSE @,
                           !.last = s.at, !.overlapped = ~s.alone]

SaveSucceedsOver(r) ==               \* mutant: cancelQueries is left out
    /\ save[r].phase = "stored"
    /\ currency' = Written(currency, [code |-> save[r].code, at |-> save[r].at])
    /\ report' \in Follow(ReportsInvalidated, currency')
    /\ save' = [save EXCEPT ![r] = NoSave]
    /\ own' = SaveAnswered(save[r])
    /\ UNCHANGED <<serverVars, viewVars, refreshing>>

\* onSuccess, of a page that was left too: the GET under way is cancelled, the answer
\* is the preference, and the reports are invalid before the page renders with the
\* new key.
SaveSucceeds(r) ==
    /\ save[r].phase = "stored"
    /\ currency' = Written(Cancelled(currency), [code |-> save[r].code, at |-> save[r].at])
    /\ report' \in Follow(ReportsInvalidated, currency')
    /\ save' = [save EXCEPT ![r] = NoSave]
    /\ own' = SaveAnswered(save[r])
    /\ UNCHANGED <<serverVars, viewVars, refreshing>>

\* It is refused, or its answer is lost: the form says it could not be updated.
SaveFails(r) ==
    /\ save[r].phase # "idle"
    /\ save' = [save EXCEPT ![r] = NoSave]
    /\ UNCHANGED <<serverVars, viewVars, currency, report, refreshing, own>>

\* rates.mutate() in the settings, syncAccounts and syncTransactions on the
\* dashboard, each disabled while this page's own request is under way.
StartRefresh(kind, r) ==
    /\ ~IsPending(refreshing[kind]) /\ refreshing[kind][r].phase = "idle"
    /\ page = IF kind = "rates" THEN "settings" ELSE "dashboard"
    /\ refreshing' = [refreshing EXCEPT ![kind][r] = [phase |-> "sent", here |-> TRUE]]
    /\ UNCHANGED <<serverVars, viewVars, currency, report, save, own>>

\* The Worker stores what it fetched.
BooksChange(kind, r) ==
    /\ refreshing[kind][r].phase = "sent" /\ books < MaxBooks
    /\ books' = books + 1
    /\ refreshing' = [refreshing EXCEPT ![kind][r].phase = "stored"]
    /\ UNCHANGED <<viewVars, saved, currency, report, save, own>>

\* The answer invalidates the reports, of every base.
RefreshSucceeds(kind, r) ==
    /\ refreshing[kind][r].phase = "stored"
    /\ report' = ReportsInvalidated
    /\ own' = [own EXCEPT !.books = books]
    /\ refreshing' = [refreshing EXCEPT ![kind][r] = NotPending]
    /\ UNCHANGED <<serverVars, viewVars, currency, save>>

RefreshFails(kind, r) ==
    /\ refreshing[kind][r].phase # "idle"
    /\ refreshing' = [refreshing EXCEPT ![kind][r] = NotPending]
    /\ UNCHANGED <<serverVars, viewVars, currency, report, save, own>>

ReportsNext ==
    \/ OpenDashboard \/ OpenSettings \/ SetMode
    \/ ReadCurrency \/ CurrencyArrives \/ CurrencyFails \/ RefetchCurrency
    \/ RefetchReport \/ SaveElsewhere
    \/ \E k \in DOMAIN report :
          ReadReport(k) \/ ReportArrives(k) \/ ReportFails(k) \/ ReportFromSnapshot(k)
    \/ \E r \in Requests :
          \/ Submit(r) \/ SaveBaseCurrency(r) \/ SaveSucceeds(r) \/ SaveFails(r)
          \/ \E kind \in Kinds :
                \/ StartRefresh(kind, r) \/ BooksChange(kind, r)
                \/ RefreshSucceeds(kind, r) \/ RefreshFails(kind, r)

ReportsSpec == ReportsInit /\ [][ReportsNext]_reportsVars
-----------------------------------------------------------------------------
\* "An older GET must not overwrite": the preference shown is never from before the
\* save this tab was answered last, whatever GET was under way meanwhile; and from
\* before another it was answered only if that last save was under way together with
\* another of this tab, sent by the settings before they were left or after they were
\* opened again.
PreferenceFollows ==
    Has(currency) =>
       /\ currency.data.at >= own.last
       /\ currency.data.at < own.saves => own.overlapped

\* After rates, accounts or transactions were refreshed here, the dashboard shows a
\* report of before only while another is on its way, under an error, as a
\* snapshot the page calls one, or when the change was acknowledged to a fetch
\* under way that nobody observed or that had nothing to keep yet: its answer
\* makes the report look fresh.
ReportFollows ==
    page = "dashboard" =>
       LET q == report[ShownKey]
       IN Has(q) /\ q.data.at < own.books =>
             Fetching(q) \/ q.failed \/ q.cached \/ q.overtaken

ReportsTypeInvariant ==
    /\ saved.code \in Codes /\ saved.at \in 0..MaxSaves /\ books \in 0..MaxBooks
    /\ \A q \in {currency} \cup {report[k] : k \in DOMAIN report} :
          /\ q.phase \in {"idle", "sent", "read"}
          /\ q.data.at \in -1..(MaxBooks + MaxSaves)
    /\ refreshing \in
          [Kinds -> [Requests -> [phase : {"idle", "sent", "stored"}, here : BOOLEAN]]]
    /\ own.last <= own.saves /\ own.saves <= saved.at /\ own.books <= books

\* What the settings or the dashboard were answered last, the dashboard keeps to.
ReportsInvariant == ReportsTypeInvariant /\ PreferenceFollows /\ ReportFollows
=============================================================================
