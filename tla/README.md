# mono-finance in TLA+

Specifications of the concurrent parts of mono-finance: a single-owner finance
app whose server is a Cloudflare Worker with a D1 database, whose data comes from
the Monobank Personal API, and whose client is a React app that runs in several
browser tabs, caches encrypted snapshots and updates itself with a service worker.
TLC checks the specifications on small instances, TLAPS proves the main safety
properties for all values of the constants.

Contents: [components](#components), [modules](#modules), [runs](#runs),
[fairness](#fairness), [proofs](#proofs), [findings](#findings),
[not modelled](#what-is-not-modelled), [plan](#plan), [how to run](#how-to-run).

## Components

The Worker runs in any number of isolates at once and keeps nothing between
requests but D1 rows. A D1 statement, and a batch, is atomic; everything a handler
does *between* two statements can interleave with other requests, and an isolate
can be evicted there. In the browser one tab is single-threaded, and interleaving
happens at every `await`; tabs share IndexedDB, the session cookie, local storage,
a broadcast channel and the service worker registration.

| Component | State | Operations | Hard behaviour | What makes it correct |
| --- | --- | --- | --- | --- |
| Transaction synchronization (`worker/services/transaction-sync-*.ts`, its repository) | `sync_state` row per account, coverage windows, `transactions`, a run's memory | cron and manual `synchronizeNext`: select, claim, gate, request, import, complete or fail | two isolates on one account, eviction between statements, lost replies, deactivated accounts | one run per account; recorded windows are truly imported; the cursor and the last timestamp never run ahead of the ledger; requests are ones the bank accepts |
| Monobank request gate (`worker/monobank/rate-limit.ts`, `client.ts`, its store) | one row shared by every isolate | acquire, defer | clock readings older than the statement that uses them, concurrent 429s | requests are spaced; a Retry-After is honoured |
| Monobank data mapping (`worker/monobank/validation.ts`, mappers) | `transactions` of an account | parse, map, insert in one batch | one bad item in a statement, constraints stricter than the parser | what is accepted can be stored; a statement is stored whole or not at all, over nothing that was there |
| Accounts (`account-service.ts`, `accounts-repository.ts`) | `accounts`, `account_cards`, the list in the browser | refresh, list | known identifiers read before the batch that uses them, snapshots stored out of order | the tables are those of one snapshot; identifiers last; an older list needs an overlap |
| Server authentication (`auth-service.ts`, `auth-repository.ts`) | `users`, `sessions`, `login_rate_limits` | setup, login, logout, verify | concurrent setup, counter windows, locks, races of failed logins | one owner, whom exactly one setup was told to be; guesses of a span are bounded |
| HTTP routing (`worker/app.ts`, middleware) | sessions, what a handler changed, the log | two middlewares, routes, error answers | order of the checks, unknown paths, errors with causes | private routes need a live session; a foreign origin changes nothing; every answer is secured; SQL is not logged |
| Compensation links (`compensation-service.ts`, insert trigger) | `compensation_links` | link, unlink, details with suggestions | check-then-insert over several statements, stale offers | amounts of neither side are exceeded; links vanish only by unlinking; allocation is atomic |
| Categories (`category-service.ts`, foreign keys) | categories, overrides, source mappings | create, rename, delete, merge, assign, reset | check-then-delete, opposite merges | no dangling reference; a transaction's category changes only as somebody asked |
| Transaction corrections (`transaction-correction-service.ts`, `use-transaction-mutations.ts`) | adjustment and exclusion of a transaction; two copies in the browser | adjust, reset, exclude, restore | read before the write, answers of before another tab's write, details closed meanwhile | table, details and ledger page agree when nothing is under way |
| Transaction ledger (`transactions-repository.ts`, `use-transaction-ledger.ts`) | transactions; pages of an infinite query | filter, page, refetch, import | keyset cursors under imports, corrections that move rows between filters, filters in a URL | the pages are in order, complete, and of the filter that was chosen |
| Currency conversion (`currency-conversion.ts`, `exchange-rate*.ts`) | dated `exchange_rates` | synchronize, convert | direct, inverse and cross rates, overflow, rounding, later answers for a date | nothing is lost but half a minor unit; history is not rewritten |
| Analytics (`analytics-service.ts`) and the dashboard's figures | none of their own | overview, breakdowns, trends; charts, rankings, links | boundaries of periods, missing rates, buckets, rests | every figure stands for the same transactions, whichever report gives it |
| Client queries and mutations (React hooks over TanStack Query) | query cache, mutations, dialogs of a tab | fetch, invalidate, write, cancel, undo | answers of before a write that arrive after it, components that unmount | what a tab was told last it keeps to |
| Private session in the browser (`AuthProvider.tsx`, `session-events.ts`) | session status of each tab, stored notification, requests in flight, cookie | sign in, verify, sign out, expiry, 401, remote session end | late answers, duplicate notifications, page loads | a session end reaches every tab, once; nothing loads for ever; nothing reopens by itself |
| Encrypted offline cache (`encrypted-offline-cache.ts`, `offline-api.ts`) | IndexedDB with a key and records, connections, deletion requests | read-through fetch, key generation, open, delete | session end at any await, two tabs generating keys, blocked deletion | everything is erased; everything stored can be decrypted; nothing of an ended session is shown |
| Service worker updates (`service-worker-updates.ts`, `public/service-worker.js`) | active and waiting worker, update prompt of each tab | install, offer, consent, activate, claim, reload, timeout | editing, saving and connectivity change between consent and reload; workers replaced | no reload at a bad moment or without consent; the prompt is not lost and not busy for ever |
| System status, local preferences, user interface, reference data, scripts | see `PROJECT.json` | | single values, static tables, rendering | not modelled |

How they interact: a synchronization run calls the gate before each provider
request; an account refresh uses the same gate and changes which accounts
synchronization selects (`ReplaceAccounts` in `TransactionSync`); both write the
transactions that compensations, corrections and categories refer to (their original
amounts, currencies and source codes never change afterwards), and that the ledger
and the reports read. Rates are written by their own synchronization and read by
the reports. Every request passes the router; the client's hooks read and invalidate
one query cache per tab. In the browser `AuthProvider` drives the private session; its end
starts the cleanup of the offline cache and cancels calls in flight; every private
request passes the guard of `private-api-client.ts`.

`PROJECT.json` lists the components with their sources and, under `hazards`, the
lines where something can go wrong that a test would hardly reach, with the
properties that are about each.

## Modules

| Module | Models | Main correspondence |
| --- | --- | --- |
| `RateLimitStore` | the two D1 statements on the rate-limit row | `Free`, `Reserved`: conditional upsert; `Deferred`: MAX upsert |
| `TransactionSync` | runs of several isolates, statement by statement | `NextCandidate` SELECT, `ClaimNext`/`ClaimLost` conditional UPDATE with three tries, `AcquireGate`, `StatementReceived`, `ImportTransactions`, `CompleteWindow` batch, `FailWindow` catch clause, `Lost` eviction; `NextWindow` is `nextTransactionSyncWindow`. Uses `RateLimitStore` with an undelayed clock |
| `ImportedHistory` | what synchronization promises: whole statements, coverage only of what is stored, nothing given up | implemented by `TransactionSync` under the mapping `Imports`: the clock, the table of transactions and that of windows |
| `Freshness` | what the pages say of the imported history; extends `TransactionSync` | coverage of a period from the recorded windows, `Gap` and `Tone` of `DataFreshness` |
| `MonobankGate` | the gate alone, with delays between clock reading, statement and request | `Acquire` reads the clock, `Reserve`/`Refused` run the statement, `Send`, `TooManyRequests`, `Defer` |
| `MonobankData` | one answer of the bank, from JSON to the tables | the field checks of the parser, the mappers, the constraints of migration files; one action per answer because parsing does not await and the insert is one batch |
| `Accounts` | refreshes in their three awaits, and the list of one browser | client info, two SELECTs with the batch, the list of the answer; the GET, its cancellation and the mutation of the query cache |
| `Compensation` | link, unlink and details requests, statement by statement | `BeginLink` .. `CreateLink`/`CreateAborted` (the trigger is `Accepts`), `BeginUnlink` .. `DeleteLink`, `ReadLinks`, `Suggest` |
| `Allocation` | what links promise: atomic allocation between expenses and incomes | implemented by `Compensation` under the mapping `Allocates`, and by `CompensationClient` for one expense, under `Shared` |
| `Corrections` | one corrected transaction from the button to the row and back | read, write and answer of a request; `onSuccess` writes to details and ledger page; requests of other tabs |
| `Categories` | create, rename, delete, merge, assign and reset requests | the `Begin...`, `Count...` and `Find...` actions are reads, `...Aborted` a foreign key or missing row |
| `RateMath`, `CurrencyConversion` | conversion as operators; synchronization of rates | the direct, inverse and cross choice and the rounding are the code's; the checks compare with exact fractions |
| `Analytics`, `DashboardData` | the three reports over a ledger in which corrections are made, and what the page draws of them | selection, conversion, grouping, recurrence and projection of `analytics-service.ts`; buckets, rankings and links of the widgets |
| `Authentication` | setup and login, await by await, with their clocks | `InsertOwner`, `RecordFailedLogin`, `CreateSession` are statements; hashing and clock readings are steps between them |
| `ApiRouter` | requests through the router of `app.ts` | `publicApiPaths`, the mounted routes, origin check, `requireSession`, not found and error answers |
| `LedgerPages` | keyset pages of an infinite query under imports and corrections | `AfterCursor` is the WHERE of the cursor; `FetchAll`, `LoadMore` the query; `Query`, `Parsed` the URL |
| `QueryCache` | one query of TanStack Query as the code relies on it (external) | fetch, join, invalidate, cancel, `setQueryData` |
| `DashboardReports` | base currency, reports, and the settings page | `CurrencyPreferences`, `useDashboardQueries`, the preference's service and repository |
| `SyncStates` | states of synchronization in one tab | `useDashboardSync`, `SettingsSyncStatus`, `DataFreshness` |
| `CompensationClient` | dropping an income with "Undo", and the sheet of links | `useCompensationDrop`, `useTransactionMutations`, `useTransactionDetails` |
| `CategoryDialogs`, `BankTypes` | the modal dialogs and the paged table of the categories page | `CategoryManagement`, `CategorySourceManagement` and their mutations |
| `PrivateSession` | the signed-in state of tabs, their requests in flight, notifications | `EndPrivateSession`, `AcceptSession`, `Verify` (`retrySession`), `Serve...` the Worker's side, `Receive...` the answers, `Receive` a notification |
| `OfflineCache` | cache calls at the grain of awaits, IndexedDB open and delete requests | `Fetched` .. `StoreRecord`/`Decrypt` follow `getOfflineApiData`, `getDatabase`, `getEncryptionKey`; `Cleanup`, `Deletion...` follow `clearOfflineCache` |
| `ServiceWorkerUpdates` | worker life cycle and the prompt of each tab | `Advanced` is `advance()`, `Offered` `updateAvailable`, `Claimed` `controllerChanged`, `TimedOut` `activationFailed` |
| `MCTransactionSync`, `MCCategories`, `MCPrivateSession` | values of constants, symmetry, and the properties that a run refutes | |
| `MCWorker`, `MCMonobank`, `MCCompensation`, `MCOfflineCache` | several components side by side for TLC | an initial choice says which one a behaviour is of, because components that share no state have nothing to interleave; every component keeps its own `Init` and `Next` |
| `DataTheorems` | sums over finite sets, by a function or by the folds of the community modules; greatest common divisors; ranks in finite strict orders; folds over sequences; quotients; largest and smallest numbers | lemmas only |
| `WorkerProofs`, `MonobankProofs`, `CompensationProofs`, and the other `...Proofs` | theorems and their proofs; the first three are about several components each | |

Times are small naturals; an amount, a transaction, a category is a model value or
a small number. Operators marked `mutant` are plausible bugs: each replaces one
definition of the code and makes the property named with it in `PROJECT.json` fail.

Conventions worth knowing when comparing with the code:

* A request is a record with the statement it runs next (`pc`) and what it
  remembers of the statements before; a guard is the `if` or the `WHERE` of that
  step. Reads that belong to one `Promise.all` or batch are one step only if
  nothing in between could be told apart.
* Display timestamps, error codes and log lines are left out. A 401, a 429, an
  aborted statement or a failed batch are not.
* Requests of other tabs and devices are actions of the environment
  (`SaveElsewhere`, `ChangeElsewhere`, `MapElsewhere`): they change a table and bring
  no answer.
* What the client was answered carries `at`, the number of the change of the table
  that the answer shows; "older" is a smaller number.
* *History variables* (`lastReserved`, `lastSent`, `deferredTo`, `locked`,
  `accepted`, `guesses`, `toldRound`, `own`, `changedBy`, `logged`, `overlap`,
  and `since` and `alone` of a request) exist for properties only; no guard reads them.

## Runs

Each takes a few minutes at most with two workers.

| Run | Instance | Shows |
| --- | --- | --- |
| `sync` | Worker: one account, two isolates, history of 4 time units, windows of 2, overlap and gate interval 1, 9 units of time, transactions at 1, 3, 6; or two logins and two setups; or two requests of any of eight routes; or a ledger of four rows, pages of two, one write, four filters | `LeaseExclusion`, `SyncInvariant`, `ImportsWhatItCovers`, `FreshnessTruthful`, `AuthenticationInvariant`, `RouterInvariant`, `LedgerInvariant` |
| `backfill_restarts` | synchronization, one isolate | violation of `StaysIncremental` |
| `quiet_account` | synchronization, one isolate, no transactions | violation of `SkipsOnlyWhenCurrent` |
| `monobank` | three callers of the gate, interval 3, delays up to 2, Retry-After 0, 1, 5, time to 9; or two accounts with a card, two refreshes, one change of the bank; or every answer of up to two items of eight kinds; or two base currencies, two kinds of refreshes and two requests of each, once with two saves and two changes of page, once with two refreshes and three, once with one refresh of rates and one save, once with one refresh and a change of the filter of currencies; or two dashboards and two rounds of synchronization | `ReservationsSpaced`, `DeferralHonoured`, `RequestsSpaced`, `AccountsInvariant`, `AccountsFollow`, `DataInvariant`, `StatementKept`, `ReportsInvariant`, `SyncStatesInvariant` |
| `compensation` | two requests, two expenses, two incomes of one currency and one of another, three links; or two corrections at once of one expense; or two quotes of three kinds on two dates and conversions of four amounts; or reports over four transactions in six periods after two corrections, with one row in the list of merchants | `LinksInvariant`, `OnlyUnlinkRemoves`, `AbortsOnlyOnRace`, `OfferStands`, `AllocatesAtomically`, `CorrectionsInvariant`, `ConversionInvariant`, `HistoryStands`, `DashboardInvariant` |
| `categories` | three requests, three categories, two transactions of one source | `ReferencesExist`, `EffectiveStable` |
| `delete_conflict` | two requests | violation of `ReferencedAnswers409` |
| `opposite_merges` | two requests | violation of `MergeKeepsTarget` |
| `sw_updates` | two tabs, three versions, one editor per tab | `PromptStays`, `ReloadsSafely`, `OnlyWithConsent`, `BusyEnds` |
| `offline_cache` | two tabs, two calls, two keys, three generations; or two incomes that are linked to an expense, three changes of links and two edits in a sheet; or two edits of categories in dialogs; or two codes on pages of one with two saves at once | `Erased`, `Decryptable`, `ShownIsLive`, `LockedWhileDeleting`, `CompensationClientInvariant`, `CategoryPagesInvariant` |
| `private_session` | two tabs with one request each in flight, one sign-in, two session ends, both media | `EndsReachEveryTab`, `EndsOnce`, `LoadingEnds` |
| `session_reopening` | the same | violation of `StaysLocked` |

A property whose name ends in `Invariant`, and `FreshnessTruthful`, `AccountsFollow`,
`StatementKept` and `HistoryStands`, is a conjunction of the properties of one
component, each with its own name and comment in the module; the type invariant of the
component is one of them. What the conjuncts say:

* `SyncInvariant`: `CoverageTruthful` (a recorded window has all its transactions imported),
  `CursorCoverage` (what lies above the backfill cursor is covered),
  `RequestAcceptable` (a request is one the bank accepts), `PositionImported` (the last
  timestamp is that of an imported transaction).
* `FreshnessTruthful`: what is said of a period's coverage is what its windows cover,
  however they overlap; a period with a transaction that is not imported is never called
  verified; an account that is shown as successful has no run under way.
* `AuthenticationInvariant`: one owner, whom exactly one setup was told to be, and at
  most `2 * (LoginMax - 1) + 2 * requests` guesses in a window, which is what two windows and
  the requests between the reading of the counter and its update allow.
* `RouterInvariant`: a private request whose session was over when it arrived is refused,
  on unknown paths too; a foreign origin changes nothing, and no message of the database
  reaches the log, however deep in the causes of an error.
* `LedgerInvariant`: the pages shown are in order and without repetition, miss no row
  that was stored and unchanged throughout, and a URL that was made from a filter is read
  as that filter, or refused: for too many accounts, a period that ends before it begins, or a
  category by name and id, and for nothing else.
* `AccountsInvariant`, `AccountsFollow`: the active accounts are those of the snapshot that
  was stored last and every account can be synchronized; an identifier lasts; a refresh that
  began after another ended does not take its snapshot back; an older list replaces a newer one
  only if a GET overlapped the change.
* `DataInvariant`, `StatementKept`: what the parser accepts, the tables accept; a statement with
  one bad item stores nothing; a stored original is not overwritten.
* `ReportsInvariant`, `SyncStatesInvariant`: the dashboard keeps to the newest preference,
  report and synchronization states this tab was told of, however often its pages are left and
  opened again with requests under way, and each exception (saves that overlapped, an answer that was
  overtaken, a first load that was under way, a failure) is named in the property.
* `LinksInvariant`: links join what may be linked, within the amounts of both sides.
* `CorrectionsInvariant`: an adjustment keeps the direction; details and ledger page show the
  row when the tab has nothing under way and nobody else wrote.
* `ConversionInvariant`, `HistoryStands`: a stored rate is the bank's quote reduced, a conversion is
  within half a minor unit of the exact product, the way back is the inverse; a synchronization
  leaves past totals and stored rates alone. `WayBackInverts` leaves out a currency the bank quotes both to
  and from hryvnia: the two quotes are used for the two ways, and with three quotes TLC finds
  that they need not be inverse.
* `DashboardInvariant`: the three reports agree, the list of merchants as the first rows that it is
  (it adds up to the total only while it is not cut, and no merchant outside it outranks one inside), compensations stay within their expense, a
  comparison covers equal spans, listed rates suffice for the total, recurrences are seen, the
  projection covers what was spent, bars and rankings add up to the totals, and the link of a
  figure leads to the transactions that make it.
* `CompensationClientInvariant`: "Undo" is offered for the link that was announced, the details are
  not those of before a link this tab made or removed, and no amount is chosen or sent that the
  income has not, however old the details were that offered it.
* `CategoryPagesInvariant`: a dialog closes only when the list shows its change; a saved mapping is the
  stored one, the page exists, the rows follow.

Deadlock checking is off because every system here may stop: owners go idle and
bounds end.

Why the bounds are enough for what the runs look for:

* Synchronization: the history holds two backfill windows, then incremental windows
  follow; the clock goes on for more than a lease, so takeovers after a lost run
  happen; two isolates are what one lease is about. `MaxRun = 1 < Lease = 2`: a run
  ends before its lease does, as a 120-second lease over a few statements intends.
  Runs that outlive their lease, and lost replies, are covered only by the proofs of
  `CoverageTruthful` and `ImportsWhatItCovers`; `LeaseExclusion`, what `SyncInvariant` says of
  cursors, and `FreshnessTruthful` are claimed without them.
* Authentication: the clock passes a window and a lock of three, two logins overlap in every
  way, two failures lock.
* Router: two requests at once let one revoke the session the other was verified with; chains of
  causes are up to one longer than the depth that is looked at.
* Ledger: two of the four rows have one timestamp and fall on both sides of a page; one row is
  imported or corrected between any two pages.
* Gate: three callers give two old readings around a new one; the Retry-After
  values are below, near and above the interval.
* Accounts: two refreshes at once and a third after them, with a change of the bank between, show every order of
  reading and storing two snapshots.
* Compensations: amounts 2 and 1 on both sides make links that fill, nearly fill
  and overfill either side. Three links allow one to be deleted and re-created.
* Rates: two dates and quotes of different precision make direct, inverse and cross
  conversions, and an unusable quote. `MaxSafe` is near enough to be exceeded.
* Reports: a day has two seconds and months two or three days, so periods begin and end inside of days and months;
  the previous period, the history and the projection all lie within the data.
* Categories: three requests allow a merge, its opposite and an assignment, or
  a deletion between two readings of another request.
* Offline cache: three generations are a session, its end and the next session in
  one page; two keys let two calls disagree.
* Client queries: two writes, or a write here and one elsewhere, with a fetch that is read before, between
  or after them, are what an order of answers is about; two mounts of a page let the answer
  of the first meet the second.
* `private_session`: one session and one request per tab suffice for every race
  between a session end and an answer; several sessions and requests are covered
  by the proofs of `EndsReachEveryTab` and `EndsOnce`. There is no symmetry in this
  run because it checks liveness.
* `sw_updates`: three versions let a worker be replaced while it is asked. One
  editor is open or not; the count matters to a mutant only, and the proofs hold for
  any number.

What is relied on of TanStack Query v5 (`QueryCache`): a fetch under way is joined;
`invalidateQueries` cancels and repeats it only if the query is observed and has data, so
that a first load goes on and its answer counts as fresh; `setQueryData` leaves the fetch alone;
`cancelQueries` drops it; a retry is the same fetch, read later; a component that unmounted loses
the callbacks given to `mutate` but not those of the mutation.

## Fairness

Safety runs use `Init /\ [][Next]_vars`. Two specifications state fairness, always
weak and always of single steps that the platform takes by itself:

* `ServiceWorkerUpdates`: the 15-second timer fires, `reload()` that was called
  loads the page, queued `statechange` and `controllerchange` events are
  delivered. Activation is *not* fair: a browser may delay it for ever, which is what
  the timeout is for. `BusyEnds` then holds unless something blocks the tab
  (editor, save, offline), which the owner can end.
* `PrivateSession`: the effect that verifies after a page load runs, requests end (in
  an answer or an error) and their answers are processed. `LoadingEnds` excepts a
  page that is reloaded again and again.

## Proofs

All obligations are discharged by SMT, Zenon and LS4 with the assumptions that the
modules name (natural numbers, subsets, `Null` not a number). Isolates, requests and tabs may
be any number, finite or not, with two exceptions where sums range over them:
`ServiceAllocates` takes finitely many transactions and `GuessesStayBounded` finitely
many logins.

Each invariant below was strengthened until it was inductive and then checked by TLC on
small instances before it was proved; "Argument" names the strengthening. Sums need
induction over a set. The induction theorems of the library take an operator as
parameter, so `DataTheorems` argues by a smallest counterexample instead: among the
subsets for which a claim fails there is one none of whose proper subsets fails
(`MinimalSubset`, from well-foundedness of strict inclusion on finite sets), and taking one
element out of it gives the contradiction. `SumsExist` shows in this way that the
recursive function behind a fold exists at all, `SumByKey` that a sum over a set is the sum of the sums
over its parts. In the same way `InOrder` puts a finite set in order, `FoldsExist`
unrolls the fold over a sequence from its end, and `GcdIsGreatest` follows Euclid's steps.

| Theorem | Says | Argument |
| --- | --- | --- |
| `WorkerProofs!TypeCorrect` | `[]TypeInvariant` | `Typing` adds that clock readings, cursors and starts lie in the past, and that a run past its claim has a window |
| `WorkerProofs!CoverageIsTruthful` | `[]CoverageTruthful` for any durations, lost runs and lost replies | `Evidence`: what a run fetched holds all the bank has in its window, and after the import the ledger does. The lease is not needed: a run that was overtaken still records only what it imported |
| `WorkerProofs!IsolatesImportAsOne` | `ImportsWhatItCovers`: synchronization implements `ImportedHistory`, for any durations, lost runs and lost replies | an import maps to `Store`, a completion to `Cover`, the clock to itself, all other steps to a stutter. `Statements`: what a run is about to import is of one account, of the past and without a hole (`StatementIsWhole`); `Evidence` gives the guard of `Cover` |
| `WorkerProofs!LeaseExcludes` | `[]LeaseExclusion` if `MaxRun < Lease` and no reply is lost | `LeaseHeld`: a run that holds an account is young and the row's lease is its own |
| `WorkerProofs!PositionsAreImported` | `[]PositionImported`, without conditions | `Positions`: a row, and a run that has read it, knows a last time at which a transaction of the account is in the ledger; a run completes what it imported |
| `WorkerProofs!SyncIsSound` | `[]SyncInvariant` if no reply is lost and a run is shorter than its lease, the interval and the history | `Cursors`: an account without a cursor has no window, with one everything from it to each window's end is imported; `Snapshots`: the cursor a run read is still the row's when the run reaches the bank, because a run that was overtaken before its claim finds the gate reserved; `Starts`: a backfill begins in the past. See below for the conditions |
| `WorkerProofs!OneOwnerEver` | `[](AuthTypeInvariant /\ OneOwner)`, and the stored password verifies | `AuthSound`: nobody is the owner and no setup was told so, or one is and one was; a setup's hash is its own; a login whose password was right found the owner |
| `WorkerProofs!GuessesStayBounded` | `[]AuthenticationInvariant` under `LoginTiming` | `GuessSound`: `HistoryKept` (the history has the guesses of the last window); `StragglersCounted` (a guess after a window's end came from a request under way at that end, one each); `SpansCounted` (the guesses since the row's window began, and those before it, against the row's count); `WavesCounted` (past the lock every request that passed the check is good for one guess more, and may pass it once again only if an early request set a shorter lock). The sums are those of `DataTheorems` |
| `WorkerProofs!FreshnessIsTruthful` | `[]FreshnessTruthful` if no reply is lost and a run is shorter than its lease and the history | `WindowsKept`: the recorded coverage windows begin before they end, and everything in them is imported; `StatusHeld`: who shows success has no run under way. The page merges windows in one loop over the windows in their order: `LoopUnrolls` turns it into one scan after another, and `Knows` is what holds between them: the period is covered up to `next`, no window that was seen reaches further, and an answer that was given is right |
| `WorkerProofs!RouterKeepsPromises` | `[]RouterInvariant` for any paths, origins and sessions | `RequestSound`: what a request knows of its cookie, what admitted it where it is in the chain, and what an answer then may be |
| `MonobankProofs!ReservationsAreSpaced`, `DeferralIsHonoured`, `RequestsAreSpaced` | the three gate properties for any interval and delays | `RowCurrent`, `ReadingsApart`, `SendsApart`: the row is never behind a reservation or deferral, and the readings of callers about to send are pairwise an interval apart |
| `MonobankProofs!TablesOfOneSnapshot`, `AccountsNeverGoBack` | `[]AccountsInvariant`, `AccountsFollow` | `AccountsSound`: `RefreshSound`, the snapshot of a refresh is no older than what was stored when it began; `BrowserSound`, a GET that no mutation overlaps was sent after the list on the screen was stored |
| `MonobankProofs!WellFormedIsStorable`, `StatementsAreKept` | `[]DataInvariant`, `StatementKept` | `DataSound`: every stored currency came from a three-digit code, every row is one the CHECKs admit, and what was answered "stored" parses |
| `MonobankProofs!ReportsKeepUp` | `[]ReportsInvariant` for any number of requests, visits, saves and refreshes | `ReportsSound`: `CurrencySound`, `ReportSound`: an answer on its way to a query was read after this tab's last save or refresh, or the query knows that it was overtaken; `OwnSound`, `SavesSound`: a save that was alone throughout is later than every one answered before, so only overlapping ones leave an older preference |
| `CompensationProofs!TriggerAgrees`, `UnlinkOnly` | `AbortsOnlyOnRace`, `OnlyUnlinkRemoves` for any amounts | `Checked`: a request at its insert passed the service's checks on what it read; sums stay uninterpreted |
| `CompensationProofs!LinksStayWithin`, `OffersStand` | `[]LinksInvariant`, `OfferStands` for any amounts | `LinksSound`: `LinksKept`, finitely many links, one for a pair and an id; every total is within its amount, which the trigger's comparison keeps for one link more (`SumAdd`), and one less can only lower (`SumOfPart`) |
| `CompensationProofs!ServiceAllocates` | `AllocatesAtomically`: the service implements `Allocation` | every insert maps to `Allocate`, every delete to `Release`, all other steps to a stutter; `SumByKey` turns the sums over links into sums over transactions |
| `CompensationProofs!CorrectionsAgree` | `[]CorrectionsInvariant`: agreement where no other correction overlapped the details' own and nothing unseen was written since the page was read | `CorrectionsSound`: `CopyFollows`, `PageFollows`: unless a correction of this tab has written and is not answered, the copy or page on the screen, or the one about to replace it, is the row |
| `CompensationProofs!ConversionIsExact`, `PastConversionsStand` | `[]ConversionInvariant`, `HistoryStands` for any quotes, dates and amounts | `RatesSound`: every stored rate is one that the parser made of a quote, reduced, with positive terms; two of one kind and date are one. The products are nonlinear: lemmas name each product and cancel, round and compare by themselves; that a reduced rate equals its quote follows from `GcdIsGreatest` |
| `CompensationProofs!DashboardAddsUp` | `[]DashboardInvariant` for any ledger, rates, months, periods, currencies and numbers of bars, rows and listed merchants | `AnalyticsKept`, inductive: a request is empty or valid, figures are those of corrections. Everything else follows in each such state. `Shown` is one set of items that all reports count, because the rates listed for a larger group convert a transaction as the whole table does (`RatesSuffice`, `IncludedIsShown`). Breakdowns, weekdays, series and buckets are each rows of that set by a key, so they add up (`RowsAddUp`, from `SumByKey`); the list of merchants exists (`TopExists`) and is a part of such rows (`PartOfRows`); points in order are dealt to few buckets that do not overlap (`BucketsApart`, by counting the points before each); the months cover every time (`MonthExists`), which bounds the elapsed days and so the projection; shares of a total are compared in products (`SumScaled`); without conversion an item is its transaction (`OwnIsOne`), so that a link's rows add up to the figure |
| `LedgerProofs!ReferencesAlwaysExist`, `EffectiveIsStable` | `[]ReferencesExist`, `EffectiveStable` | foreign keys keep `ReferencesExist`; `Sound`: a merge has two different ids |
| `LedgerProofs!LedgerIsComplete` | `[]LedgerInvariant` for any rows, filters, page size, imports and corrections | `LedgerKept`: `PagesFollow`, the last row of each page is where the next begins, on the screen and in every fetch; `Covers`, as far as the pages go they hold what matched throughout; `AsksOn`, a page is asked for only after one with a cursor; what matched throughout matches. An answer is the first rows after the cursor (`PageAnswers`, by the ranks of `DataTheorems`), so it extends what is covered (`CoverGrows`); the recursive function behind `FlattenSeq` exists (`JoinsExist`), and joining pages that follow one another keeps their order |
| `ServiceWorkerUpdatesProofs!ReloadIsSafe`, `ConsentIsNeeded`, `PromptIsKept` | `ReloadsSafely`, `OnlyWithConsent`, `[]PromptStays` | `Good`: an accepted prompt is busy or reloading. `Allowed` states what any handler may do to a tab; `Prompts`, what `PromptStays` says of one tab, is kept by every handler and by `advance()` after it |
| `ClientProofs!SnapshotsDecryptable`, `SnapshotsErased`, `ScreensAreLive`, `DeletionLocks` | `[]Decryptable`, `[]Erased`, `[]ShownIsLive`, `[]LockedWhileDeleting` | `Handled`: a usable handle is connected, so the key a call holds is the stored one; for `Erased`, as long as something is stored, some tab has an open session or an unfinished cleanup; `LockedWhileDeleting` is inductive with the types (`CloseLocks`, `CallLocks`) |
| `ClientProofs!CategoryPagesKeep` | `[]CategoryPagesInvariant` for any number of categories, codes, changes and saves | `DialogsSound`: the dialog of a request under way is the one that sent it, and the list it waits for, when it comes, has its change; `BankTypesSound`: two saves under way are of two codes, what is stored is the latest sent unless another tab wrote, and moving to the page that exists (`ExistingPage`, a recursive function that settles because it only goes down: `SettlingExists`) fetches it if it is old |
| `ClientProofs!LinksAreFollowed` | `[]CompensationClientInvariant` for any number of incomes, requests and changes elsewhere | `ClientSound`: `LinksKept`, links are finitely many, numbered by the changes and within the expense; `DropSound`, the link a drop made has the amount that was sent, in the Worker's links, then in the answer, then in what is announced; `DetailSound`, by `Caught`: what a query keeps, and what its fetch brings, is not from before the tab's own change, or it is marked, overtaken or failed. Each operation of `QueryCache` has its lemma. `OffersFit` is proved beside it, action by action |
| `ClientProofs!ClientsImplementAllocation` | `ClientsAllocate`: drops, undos, sheets and other tabs implement `Allocation` for one expense, for any finite number of incomes. No run has this property: with it the client's run takes longer than is practical, and TLC was used on two incomes and one sheet | `LinksMove`: a step makes one link, of an amount the income has (`OffersFit`), or removes one, or leaves them. `LinksFit`: an income has one link and a name is one link's, so a share is its link's amount (`ShareIs`); `SumByKey` turns the sum of the links into the sum of the shares. A link made is `Allocate`, one removed `Release` |
| `PrivateSessionProofs!EveryTabHears`, `CopiesEndOnce` | `[]EndsReachEveryTab`, `EndsOnce` | `IInv`: a tab that waits for a current answer has every later end to come (`CurrentHears`), copies are sent together and the first to arrive is noted (`FirstIsNoted`) |
| `MonobankProofs!StatesAreKept` | `[]SyncStatesInvariant` for any number of dashboards and rounds | `UpdatesInOrder`: what a refresh is told comes after what it made; `FirstIsLate`: a first GET that outlives a refresh was under way when it ended; `AnswerIsCurrent`: an answer on its way to the query was read after the latest write to it, or the query knows that it was overtaken |

The conditions of `SyncIsSound` are those of the code: a run asks the provider with a timeout of 10 s
(`client.ts:14`), the interval is 60 s, the lease 120 s, the history 365 days. They are needed: with
runs longer than the interval, a lease of four, an interval of one, a window of two and a
history of four, TLC finds a run that takes the account over a run that was cut
off and moves the cursor past a window nobody stored. The configuration of the run has
runs exactly as long as the interval and is model-checked only; instances with
a longer interval were checked while the invariant was developed.
`LoginTiming` says: more than one attempt, a lock no shorter than the window, and a request
delayed by at most half a window. `auth-service.ts` has five attempts and 15 minutes for both.

Assumptions of `DashboardAddsUp` on the data: times, amounts and bounds of periods are natural
numbers, ids are unique, a direction is expense or income, rates are positive
(`AnalyticsAssumption`: the tables' constraints and the checks of the services), no category has
the name that stands for none in a filter, and there are months for every time that is asked
about (`MonthsAssumption`: calendar months do not end). TLC evaluates both on its instance.

Model-checked only are the liveness properties `BusyEnds` and `LoadingEnds` (fairness is out of
the prover's reach) and all violations. Every invariant and every action property of a
passing run is stated by a theorem.

## Findings

* `backfill_restarts`: `completeWindow` stores the window's start as the backfill
  cursor after incremental windows too. The cursor then lies above the backfill
  start again, and the account repeats its year of backfill before the next
  incremental window. Nothing is lost (`CoverageTruthful`, `CursorCoverage`), but new
  transactions wait for about twelve windows.
* `quiet_account`: an account whose first year is empty keeps
  `last_synced_transaction_at` NULL and is never requested again.
* `delete_conflict`: a category that gains a reference between the two counts and the
  DELETE answers 500, not the documented 409.
* `opposite_merges`: a merge that lost its target after finding it can still answer
  200; its source is deleted as well when nothing refers to it. References themselves
  stay sound (`ReferencesExist`).
* `session_reopening`: a verification that was answered before another tab's
  session end and is accepted after it removes the stored notification of that
  end; a page loaded afterwards opens without a sign-in.

Beside these, properties had to name exceptions, because the code does not keep
the stronger form a reader might expect. None contradicts a document; each is the
reason for a disjunct or a premise:

* README says "Five failed logins", and a count of failed logins is right per window. Requests that
  read the counter before it locks allow `LoginMax - 1 + 2 * requests` guesses on one row of the
  counter, and two rows that meet twice that in the length of a window (`GuessesBounded`).
  One window's worth for the second row would not do: with three logins, two attempts, window and lock of
  three and a delay of two, TLC counts more.
* `worker/routes/system-status.ts` is not mounted in `app.ts`: `GET /api/system/status` answers 404.
* A GET of the accounts that began before a refresh can replace its newer list
  (`OlderListNeedsOverlap`).
* The first load of a query is not cancelled by an invalidation, and its answer counts as fresh;
  an unobserved fetch likewise (`ReportFollows`, `RowsFollow`: "overtaken").
* The GET that a dashboard sends when it mounts can arrive after the states of its own
  "Refresh transactions" and show older ones (`DashboardStatesFollow`: "late").
* Two saves of one preference from two tabs are answered in any order: a tab keeps the answer of its
  own until it fetches again (`PreferenceFollows`).
* `save.isPending` is state of the mounted settings (`CurrencyPreferences.tsx:31`, `:47`): after they were
  left and opened again a second save can be sent while the first is under way, and the answer that
  arrives last is shown, be it of the older one, until the preference is fetched again
  (`PreferenceFollows`: "overlapped"). Refreshes of a page that was left overlap likewise; each answer
  invalidates the reports, so their order does not matter.
* The merchants of a report are the first ten rows of all its currencies together
  (`analytics-service.ts:489`): in the original currencies the list of one currency may be cut by
  another's larger amounts (`MerchantsAgree`).
* A correction is answered with what the row was before the write: a change of another tab in
  between shows only after a refetch (`DetailsShowTable`, `LedgerShowsTable`).
* Reports of a period of 366 days have a recurrence history of 365 days (`RepeatsAreSeen`), and
  conversion does not use the minor units of a currency.

## What is not modelled

* One owner. User ids are in every WHERE clause and never differ.
* Resources of the offline cache are not told apart, so a record is its key.
  Encryption is the identity of the key; a wrong key fails. A page that is
  reloaded takes its unfinished deletion request with it.
* In `PrivateSession` the server's cookie takes effect when it answers; server and tabs
  share one clock for expiry; a sign-in that waits for the cleanup is in `OfflineCache`,
  as are the cleanups themselves. The answers of the Worker to private requests carry no
  data.
* Numbers have no width: `convertCurrencyAmount` throws a RangeError for a result beyond the safe integers
  (`currency-conversion.ts:189`), which amounts of a household do not reach.
* A tab remembers the last 100 session ends it was told of (`session-events.ts:27`); `PrivateSession` remembers
  all. A copy that comes after a hundred others is not in the model.
* In `BankTypes` a code is free again at the answer of its save; in the code it stays pending until the
  refetches the mutation awaits have ended (`use-category-source-mapping.ts:21`). The model has more
  behaviours.
* The security headers of the API are one constant set that a middleware puts on every answer
  (`app.ts:129`).
* Suggestions of compensations are a set: score and order are text for the owner, and
  no candidate falls below the threshold.
* The text of a search is a filter or a set of terms; notes, reasons, names, icons and colours
  are not state that a property is about.
* Service worker fetch handling and its shell cache keep nothing the prompt uses.
* A second account in synchronization: the order between accounts is an ORDER BY
  of one statement. The gate in `TransactionSync` has no delay between clock reading and
  statement; `MonobankGate` has.
* Hashing and random tokens are identities, the tables of MCC and currency codes are data.
  Time zones: days and months are lengths in seconds, without daylight saving.
* The dialogs that assign a category to one transaction use the same mutation scheme as
  corrections; only the Worker's part of them is modelled (`Categories`).
* Local preferences are one validated value each in local storage. Rendering, layout, translated
  text and charts' geometry keep no state.
* Migrations that add columns or static rows, generated types (`worker-configuration.d.ts`),
  scripts, and the material under `.agents` are not part of the running system.

## Plan

Done, in this order: `TransactionSync` with `RateLimitStore` (the system's core),
`MonobankGate`, `Compensation` refining `Allocation`, `Categories`,
`ServiceWorkerUpdates`, `OfflineCache`, `PrivateSession`, and a proof module for each; then
`Accounts`, `MonobankData`, `Authentication`, `ApiRouter`, `Corrections`, `LedgerPages`,
`RateMath` with `CurrencyConversion`, `Analytics` with `DashboardData`, `Freshness`, and the
client on `QueryCache`: `DashboardReports`, `SyncStates`, `CompensationClient`,
`CategoryDialogs`, `BankTypes`, with the first proof about the client.

Then the proofs beyond one component's first theorem: the whole of `SyncInvariant`, synchronization
refining `ImportedHistory`, the tables of accounts, links and their totals with the refinement of `Allocation` by the service and by its clients, corrections, reports,
the router, setup and login, conversion, freshness, the pages of the ledger, and at last the reports and the
charts, rankings and links drawn of them.

Left, in order of worth:

1. Composition of `PrivateSession` and `OfflineCache` over the session end, so that
   erasing and locking are stated of one system.
2. The history of finance views in the URL and the category of one transaction in the client.

## How to run

In this directory: `tlc -workers 2 -config TransactionSync.cfg MCWorker`
(the module of each run is in `PROJECT.json`), `tlapm WorkerProofs.tla`.
