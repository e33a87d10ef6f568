-------------------------- MODULE TransactionSync --------------------------
(* Transaction synchronization. Each Worker isolate runs synchronizeNext,  *)
(* for the cron trigger or for a manual request. A run is a sequence of D1 *)
(* statements and one provider request; every statement is one atomic step *)
(* here, so runs of different isolates interleave between statements, and  *)
(* a run may be lost at any of them.                                       *)
EXTENDS Integers, FiniteSets, RateLimitStore

CONSTANTS
    Accounts,        \* the accounts, numbered in (created_at, id) order
    Workers,         \* isolates that may run a synchronization
    Provider,        \* the bank's statement: records [id, account, at]
    Null,            \* SQL NULL
    HistorySpan,     \* DEFAULT_HISTORICAL_BACKFILL_DAYS, in clock units
    MaxWindow,       \* MAXIMUM_STATEMENT_WINDOW_SECONDS
    Overlap,         \* INCREMENTAL_SYNC_OVERLAP_SECONDS
    Lease,           \* SYNC_LEASE_SECONDS
    LostReplies,     \* may D1 commit a batch and lose the reply?
    Interval,        \* MONOBANK_MINIMUM_REQUEST_INTERVAL_SECONDS
    MaxRun,          \* bound: the longest a run may take
    MaxTime          \* bound: the last clock value explored

ASSUME NullAssumption == Null \notin Int
ASSUME AccountsAssumption == Accounts \subseteq Nat
ASSUME TimingAssumption ==
    /\ {HistorySpan, MaxWindow, Lease, Interval} \subseteq Nat \ {0}
    /\ {Overlap, MaxRun, MaxTime} \subseteq Nat
ASSUME ProviderAssumption ==
    /\ Provider \subseteq [id : Nat, account : Accounts, at : Nat]
    /\ \A s, t \in Provider : s.id = t.id => s = t
ASSUME LostRepliesAssumption == LostReplies \in BOOLEAN

VARIABLES
    clock,           \* unix time
    active,          \* accounts with is_active = 1
    syncState,       \* sync_state, one row per account
    windows,         \* transaction_sync_windows, per account
    ledger,          \* transactions imported into D1
    nextAllowedAt,   \* the shared request gate
    run              \* what each isolate holds in memory

vars == <<clock, active, syncState, windows, ledger, nextAllowedAt, run>>
database == <<active, syncState, windows, ledger, nextAllowedAt>>

Larger(x, y) == IF x >= y THEN x ELSE y

-----------------------------------------------------------------------------
(* The request window *)

HistoricalWindow(start, to) ==
    IF to <= start THEN Null
    ELSE [from |-> Larger(start, to - MaxWindow), to |-> to]

IncrementalWindow(start, last, now) ==
    IF last = Null \/ now <= last THEN Null
    ELSE [from |-> Larger(start, Larger(last - Overlap, now - MaxWindow)),
          to |-> now]

NextWindow(cursor, start, last, now) ==
    IF cursor = Null THEN HistoricalWindow(start, now)
    ELSE IF cursor > start THEN HistoricalWindow(start, cursor)
    ELSE IncrementalWindow(start, last, now)

Within(t, window) == window.from <= t.at /\ t.at <= window.to

\* What the provider answers at time `now`: the account's transactions of the
\* window that have happened by then.
Statement(account, window, now) ==
    {t \in Provider : t.account = account /\ Within(t, window) /\ t.at <= now}

Times(current, transactions) ==
    {t.at : t \in transactions} \cup ({current} \ {Null})

\* The values maximumTimestamp may return: the one latest time, or Null when
\* there is none.
MaximumTimestamp(current, transactions) ==
    LET times == Times(current, transactions)
    IN  IF times = {} THEN {Null}
        ELSE {m \in times : \A n \in times : n <= m}

-----------------------------------------------------------------------------
(* Rows and runs *)

FreshRow == [status |-> "idle", cursor |-> Null, start |-> Null,
             last |-> Null, attempt |-> 0, lease |-> Null]

\* A run that has not read a row yet.
BlankRun(pc, now, tries) ==
    [pc |-> pc, now |-> now, tries |-> tries, account |-> Null,
     cursor |-> Null, start |-> Null, last |-> Null, fetched |-> {}]

IdleRun == BlankRun("idle", 0, 0)

MaxTries == 3        \* the bound of claimNext's loop

RunWindow(w) == NextWindow(run[w].cursor, run[w].start, run[w].last, run[w].now)

\* Steps at which a run believes it holds the lease of its account.
Holding == {"empty", "acquire", "request", "import", "complete", "fail"}

\* lease_expires_at IS NULL OR lease_expires_at <= now, negated.
Leased(a, now) == syncState[a].lease # Null /\ syncState[a].lease > now

ClaimAlways(a, now) == TRUE                 \* mutant: no WHERE on the lease

\* The WHERE clause of the claiming UPDATE.
ClaimGuard(a, now) == ~Leased(a, now)

\* ORDER BY COALESCE(last_attempt_at, 0), created_at, id
AttemptedBefore(a, b) ==
    \/ syncState[a].attempt < syncState[b].attempt
    \/ syncState[a].attempt = syncState[b].attempt /\ a <= b

Candidates(now) == {a \in active : ~Leased(a, now)}

-----------------------------------------------------------------------------
Init ==
    /\ clock = HistorySpan
    /\ active \in SUBSET Accounts
    /\ syncState = [a \in Accounts |-> FreshRow]
    /\ windows = [a \in Accounts |-> {}]
    /\ ledger = {}
    /\ nextAllowedAt = 0
    /\ run = [w \in Workers |-> IdleRun]

\* A cron tick or a manual request starts a run and samples the clock once.
SynchronizeNext(w) ==
    /\ run[w].pc = "idle"
    /\ run' = [run EXCEPT ![w] = BlankRun("select", clock, 0)]
    /\ UNCHANGED <<clock, database>>

\* SELECT the least recently attempted active account without a live lease.
NextCandidate(w) ==
    /\ run[w].pc = "select"
    /\ \/ /\ Candidates(run[w].now) = {}
          /\ run' = [run EXCEPT ![w] = IdleRun]
       \/ \E a \in Candidates(run[w].now) :
            /\ \A b \in Candidates(run[w].now) : AttemptedBefore(a, b)
            /\ run' = [run EXCEPT ![w] =
                         [@ EXCEPT !.pc = "claim", !.account = a,
                                   !.cursor = syncState[a].cursor,
                                   !.start = syncState[a].start,
                                   !.last = syncState[a].last]]
    /\ UNCHANGED <<clock, database>>

\* COALESCE(backfill_start_at, historicalStartAt)
StartOr(start, now) == IF start = Null THEN now - HistorySpan ELSE start

\* UPDATE ... WHERE the lease is free. The run goes on with the row as the
\* SELECT saw it.
ClaimNext(w) ==
    LET a == run[w].account
        now == run[w].now
        start == StartOr(run[w].start, now)
        window == NextWindow(run[w].cursor, start, run[w].last, now)
    IN  /\ run[w].pc = "claim"
        /\ ClaimGuard(a, now)
        /\ syncState' = [syncState EXCEPT ![a] =
                           [@ EXCEPT !.status = "running", !.attempt = now,
                                     !.start = StartOr(syncState[a].start, now),
                                     !.lease = now + Lease]]
        /\ run' = [run EXCEPT ![w] =
                     [@ EXCEPT !.pc = IF window = Null THEN "empty" ELSE "acquire",
                               !.start = start]]
        /\ UNCHANGED <<clock, active, windows, ledger, nextAllowedAt>>

Exhausted(tries) == tries + 1 = MaxTries

\* The UPDATE changed no row: select again, three times at most.
ClaimLost(w) ==
    /\ run[w].pc = "claim"
    /\ ~ClaimGuard(run[w].account, run[w].now)
    /\ run' = [run EXCEPT ![w] =
                 IF Exhausted(run[w].tries) THEN IdleRun
                 ELSE BlankRun("select", run[w].now, run[w].tries + 1)]
    /\ UNCHANGED <<clock, database>>

\* The UPDATE of completeEmptyWindow: no provider read, no freshness.
CompleteEmptyWindow(w) ==
    /\ run[w].pc = "empty"
    /\ syncState' = [syncState EXCEPT ![run[w].account] =
                       [@ EXCEPT !.status = "idle", !.lease = Null]]
    /\ run' = [run EXCEPT ![w] = IdleRun]
    /\ UNCHANGED <<clock, active, windows, ledger, nextAllowedAt>>

\* PersistentMonobankRequestGate.acquire: one atomic upsert at the present time.
AcquireGate(w) ==
    /\ run[w].pc = "acquire"
    /\ \/ /\ Free(nextAllowedAt, clock)
          /\ nextAllowedAt' = Reserved(clock, Interval)
          /\ run' = [run EXCEPT ![w].pc = "request"]
       \/ /\ ~Free(nextAllowedAt, clock)
          /\ run' = [run EXCEPT ![w].pc = "fail"]
          /\ UNCHANGED nextAllowedAt
    /\ UNCHANGED <<clock, active, syncState, windows, ledger>>

\* The provider answers with the statement of the window.
StatementReceived(w) ==
    /\ run[w].pc = "request"
    /\ run' = [run EXCEPT ![w] =
                 [@ EXCEPT !.pc = "import",
                           !.fetched = Statement(run[w].account, RunWindow(w), clock)]]
    /\ UNCHANGED <<clock, database>>

\* Timeout, rejected token, unreachable provider or malformed body.
RequestFailed(w) ==
    /\ run[w].pc = "request"
    /\ run' = [run EXCEPT ![w].pc = "fail"]
    /\ UNCHANGED <<clock, database>>

\* Status 429: the gate is deferred by Retry-After before the run fails.
TooManyRequests(w) ==
    /\ run[w].pc = "request"
    /\ \E retryAfter \in {0, Interval, Interval + 1} :
         nextAllowedAt' = Deferred(nextAllowedAt, clock + retryAfter)
    /\ run' = [run EXCEPT ![w].pc = "fail"]
    /\ UNCHANGED <<clock, active, syncState, windows, ledger>>

\* INSERT ... ON CONFLICT(monobank_transaction_id) DO NOTHING, in one batch.
ImportTransactions(w) ==
    /\ run[w].pc = "import"
    /\ ledger' = ledger \cup run[w].fetched
    /\ run' = [run EXCEPT ![w].pc = "complete"]
    /\ UNCHANGED <<clock, active, syncState, windows, nextAllowedAt>>

\* The batch of completeWindow: coverage evidence and progress, atomically. If
\* its reply is lost the run goes to its catch clause all the same.
CompleteWindow(w) ==
    LET a == run[w].account
    IN  /\ run[w].pc = "complete"
        /\ windows' = [windows EXCEPT ![a] = @ \cup {RunWindow(w)}]
        /\ \E last \in MaximumTimestamp(run[w].last, run[w].fetched) :
             syncState' = [syncState EXCEPT ![a] =
                           [@ EXCEPT !.status = "idle", !.lease = Null,
                                     !.cursor = RunWindow(w).from,
                                     !.last = last]]
        /\ \/ run' = [run EXCEPT ![w] = IdleRun]
           \/ LostReplies /\ run' = [run EXCEPT ![w].pc = "fail"]
        /\ UNCHANGED <<clock, active, ledger, nextAllowedAt>>

BatchFailureIgnored(w) ==                   \* mutant: the failure is swallowed
    /\ run[w].pc \in {"import", "complete"}
    /\ run' = [run EXCEPT ![w].pc = "complete"]
    /\ UNCHANGED <<clock, database>>

\* A batch that D1 rejects rolls back and sends the run to its catch clause.
BatchFailed(w) ==
    /\ run[w].pc \in {"import", "complete"}
    /\ run' = [run EXCEPT ![w].pc = "fail"]
    /\ UNCHANGED <<clock, database>>

FailWindowAdvances(w) ==                    \* mutant: failure moves the cursor
    /\ run[w].pc = "fail"
    /\ syncState' = [syncState EXCEPT ![run[w].account] =
                       [@ EXCEPT !.status = "failed", !.lease = Null,
                                 !.cursor = RunWindow(w).from]]
    /\ run' = [run EXCEPT ![w] = IdleRun]
    /\ UNCHANGED <<clock, active, windows, ledger, nextAllowedAt>>

\* The UPDATE of failWindow: cursor and coverage stay as they were.
FailWindow(w) ==
    /\ run[w].pc = "fail"
    /\ syncState' = [syncState EXCEPT ![run[w].account] =
                       [@ EXCEPT !.status = "failed", !.lease = Null]]
    /\ run' = [run EXCEPT ![w] = IdleRun]
    /\ UNCHANGED <<clock, active, windows, ledger, nextAllowedAt>>

\* The isolate is evicted, or a statement outside the try clause throws: what
\* the run held in memory is gone and its lease stays behind.
Lost(w) ==
    /\ run[w].pc # "idle"
    /\ run' = [run EXCEPT ![w] = IdleRun]
    /\ UNCHANGED <<clock, database>>

-----------------------------------------------------------------------------
(* Environment *)

\* Account synchronization deactivates every account and reactivates the ones
\* the provider still lists, in one batch. sync_state rows are kept.
ReplaceAccounts ==
    /\ \E listed \in SUBSET Accounts : active' = listed
    /\ UNCHANGED <<clock, syncState, windows, ledger, nextAllowedAt, run>>

\* Time passes, but no further than the longest run allows.
Tick ==
    /\ clock < MaxTime
    /\ \A w \in Workers : run[w].pc # "idle" => clock < run[w].now + MaxRun
    /\ clock' = clock + 1
    /\ UNCHANGED <<database, run>>

Step(w) ==
    \/ SynchronizeNext(w) \/ NextCandidate(w) \/ ClaimNext(w) \/ ClaimLost(w)
    \/ CompleteEmptyWindow(w) \/ AcquireGate(w)
    \/ StatementReceived(w) \/ RequestFailed(w) \/ TooManyRequests(w)
    \/ ImportTransactions(w) \/ CompleteWindow(w) \/ BatchFailed(w)
    \/ FailWindow(w) \/ Lost(w)

Next == Tick \/ ReplaceAccounts \/ \E w \in Workers : Step(w)

Spec == Init /\ [][Next]_vars

-----------------------------------------------------------------------------
(* Properties *)

Time == Nat
TimeOrNull == Nat \cup {Null}
Window == [from : Int, to : Int]

Row == [status : {"idle", "running", "failed"}, cursor : TimeOrNull,
        start : TimeOrNull, last : TimeOrNull, attempt : Time,
        lease : TimeOrNull]

Run == [pc : {"idle", "select", "claim"} \cup Holding, now : Time,
        tries : 0..(MaxTries - 1), account : Accounts \cup {Null},
        cursor : TimeOrNull, start : TimeOrNull, last : TimeOrNull,
        fetched : SUBSET Provider]

\* The rows keep the types their migrations declare, and every run holds a
\* snapshot of that shape.
TypeInvariant ==
    /\ clock \in Time
    /\ active \subseteq Accounts
    /\ syncState \in [Accounts -> Row]
    /\ windows \in [Accounts -> SUBSET Window]
    /\ ledger \subseteq Provider
    /\ nextAllowedAt \in Time
    /\ run \in [Workers -> Run]

\* README, "A short D1 lease prevents concurrent cron/manual imports": two runs
\* never work on the same account, as long as a run ends before its lease does.
LeaseExclusion ==
    \A v, w \in Workers :
        v # w /\ run[v].pc \in Holding /\ run[w].pc \in Holding
            => run[v].account # run[w].account

\* A recorded window is evidence: whatever the order of imports, failures and
\* lost runs, every transaction the bank has in it is in the ledger.
CoverageTruthful ==
    \A a \in Accounts : \A window \in windows[a] :
        \A t \in Provider : t.account = a /\ Within(t, window) => t \in ledger

\* The persisted cursor tells the truth as well: nothing is missing between it
\* and the newest instant a completed window has reached.
CursorCoverage ==
    \A a \in Accounts : syncState[a].cursor # Null =>
        \A window \in windows[a], t \in Provider :
            t.account = a /\ syncState[a].cursor <= t.at /\ t.at <= window.to
                => t \in ledger

\* Every request is one validateStatementRequest accepts, and ends in the past:
\* a window of the future would be recorded as covered before it happened.
RequestAcceptable ==
    \A w \in Workers : run[w].pc = "request" =>
        LET window == RunWindow(w)
        IN  /\ 0 <= window.from
            /\ window.from <= window.to
            /\ window.to - window.from <= MaxWindow
            /\ window.to <= clock

\* The incremental position never runs ahead of the ledger: a crash or failed
\* import between request and completion leaves nothing skipped.
PositionImported ==
    \A a \in Accounts : syncState[a].last # Null =>
        \E t \in ledger : t.account = a /\ t.at = syncState[a].last

\* README, "then switches to incremental synchronization": an account whose
\* backfill has reached its start never goes back to backfilling.
BackfillComplete(a) ==
    syncState[a].cursor # Null /\ syncState[a].cursor <= syncState[a].start

StaysIncremental ==
    [][\A a \in Accounts : BackfillComplete(a) => BackfillComplete(a)']_vars

\* README, same sentence: a run of a backfilled account leaves the provider
\* alone only if a completed window already reaches the present.
SkipsOnlyWhenCurrent ==
    \A w \in Workers : run[w].pc = "empty" =>
        \E window \in windows[run[w].account] : run[w].now <= window.to

\* Isolates that interleave, fail and vanish between statements import a history as
\* one careful importer would: whole statements, and coverage only of what is stored.
Imports ==
    INSTANCE ImportedHistory WITH
        Transactions <- Provider, now <- clock, stored <- ledger, covered <- windows
ImportsWhatItCovers == Imports!Spec

\* What the rows say of the past and what the runs ask of the bank agrees with the
\* ledger, whatever run crashed, failed or took over in between.
SyncInvariant ==
    TypeInvariant /\ CoverageTruthful /\ CursorCoverage /\ RequestAcceptable /\ PositionImported
=============================================================================
