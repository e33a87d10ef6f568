---------------------------- MODULE WorkerProofs ----------------------------
(* What holds of the Worker for any number of isolates, requests, sessions *)
(* and accounts: synchronization and what the pages say of it, setup and   *)
(* login, and the router.                                                  *)
EXTENDS Freshness, Authentication, ApiRouter, FiniteSetTheorems, DataTheorems, TLAPS

\* The window a run r works on.
WindowOf(r) == NextWindow(r.cursor, r.start, r.last, r.now)

\* Cursors and backfill starts lie in the past.
RowSound(row) ==
    /\ row.cursor # Null => row.cursor <= clock
    /\ row.start # Null => row.start <= clock

\* Every clock reading was taken in the past, and late enough to have a year of
\* history behind it. From the SELECT on a run has an account, from the claim on
\* the start of its backfill, and a window before it calls the provider.
RunSound(r) ==
    /\ r.pc # "idle" => HistorySpan <= r.now /\ r.now <= clock
    /\ r.pc # "idle" /\ r.cursor # Null => r.cursor <= clock
    /\ r.pc # "idle" /\ r.start # Null => r.start <= clock
    /\ r.pc = "claim" \/ r.pc \in Holding => r.account \in Accounts
    /\ r.pc \in Holding => r.start # Null
    /\ r.pc \in {"acquire", "request", "import", "complete"} => WindowOf(r) # Null

Typing ==
    /\ TypeInvariant
    /\ HistorySpan <= clock
    /\ \A a \in Accounts : RowSound(syncState[a])
    /\ \A w \in Workers : RunSound(run[w])

\* A fetched statement holds all the bank has in its window, and after the
\* import the stored rows do.
RunEvidence(r, rows) ==
    r.pc \in {"import", "complete"} =>
        \A t \in Provider : t.account = r.account /\ Within(t, WindowOf(r)) =>
            /\ r.pc = "import" => t \in r.fetched
            /\ r.pc = "complete" => t \in rows

Evidence ==
    /\ \A w \in Workers : RunEvidence(run[w], ledger)
    /\ CoverageTruthful

\* A run that holds an account is the one its lease was given to, and is young.
LeaseHeld ==
    \A w \in Workers : run[w].pc # "idle" =>
        /\ clock <= run[w].now + MaxRun
        /\ run[w].pc \in Holding =>
             syncState[run[w].account].lease = run[w].now + Lease

\* Later reservations than the run lives to see: a claim that comes too late.
Overtaken(w) == run[w].now + MaxRun < nextAllowedAt

\* The cursor a run read is still the row's when it reaches the bank. A run that
\* was overtaken between its SELECT and its claim does not reach it, for the run
\* that overtook it has reserved the gate.
Snapshots ==
    \A w \in Workers :
        /\ run[w].pc \in {"claim", "acquire"} =>
             \/ run[w].cursor = syncState[run[w].account].cursor
             \/ Overtaken(w)
        /\ run[w].pc \in {"request", "import", "complete"} =>
             run[w].cursor = syncState[run[w].account].cursor
        /\ run[w].pc = "claim" => \A v \in Workers :
             run[v].pc \in {"request", "import", "complete"}
               /\ run[v].account = run[w].account => Overtaken(w)

\* What CursorCoverage says of one account.
CoveredFromCursor(a) ==
    syncState[a].cursor # Null =>
        \A window \in windows[a], t \in Provider :
            t.account = a /\ syncState[a].cursor <= t.at /\ t.at <= window.to
                => t \in ledger

\* An account without a cursor has no window yet.
Cursors ==
    \A a \in Accounts :
        /\ syncState[a].cursor = Null => windows[a] = {}
        /\ CoveredFromCursor(a)

\* A backfill starts in the past of every run that knows its start.
RunStarts(r) == r.pc # "idle" /\ r.start # Null => r.start <= r.now

Starts ==
    /\ \A a \in Accounts :
         syncState[a].start # Null => syncState[a].start + HistorySpan <= clock
    /\ \A w \in Workers : RunStarts(run[w])

\* The account has an imported transaction at this time.
Stored(a, time, rows) ==
    time # Null => \E t \in rows : t.account = a /\ t.at = time

\* Rows and runs know the positions of imported transactions only, and a run
\* completes what it has imported.
RunPositions(r, rows) ==
    /\ r.pc = "claim" \/ r.pc \in Holding => Stored(r.account, r.last, rows)
    /\ r.pc \in {"import", "complete"} => \A t \in r.fetched : t.account = r.account
    /\ r.pc = "complete" => r.fetched \subseteq rows

Positions ==
    /\ \A a \in Accounts : Stored(a, syncState[a].last, ledger)
    /\ \A w \in Workers : RunPositions(run[w], ledger)

USE NullAssumption, AccountsAssumption, TimingAssumption, ProviderAssumption,
    LostRepliesAssumption

\* Windows are intervals of integers that end at the clock reading or cursor
\* they start from.
LEMMA NextWindowType ==
    ASSUME NEW cursor \in TimeOrNull, NEW start \in Nat,
           NEW last \in TimeOrNull, NEW now \in Nat
    PROVE  /\ NextWindow(cursor, start, last, now) \in Window \cup {Null}
           /\ NextWindow(cursor, start, last, now) # Null =>
                /\ NextWindow(cursor, start, last, now) \in Window
                /\ NextWindow(cursor, start, last, now).to \in {cursor, now} \ {Null}
                /\ NextWindow(cursor, start, last, now).from >= start
                /\ \/ NextWindow(cursor, start, last, now).from = start
                   \/ NextWindow(cursor, start, last, now).from
                        <= NextWindow(cursor, start, last, now).to
<1>1. CASE cursor = Null
  BY <1>1 DEF NextWindow, HistoricalWindow, Larger, Window, TimeOrNull
<1>2. CASE cursor # Null /\ cursor > start
  BY <1>2 DEF NextWindow, HistoricalWindow, Larger, Window, TimeOrNull
<1>3. CASE cursor # Null /\ ~(cursor > start)
  BY <1>3 DEF NextWindow, IncrementalWindow, Larger, Window, TimeOrNull
<1> QED BY <1>1, <1>2, <1>3

-----------------------------------------------------------------------------
(* Types, clock readings and the shape of a run *)

LEMMA TypingInit == Init => Typing
<1> SUFFICES ASSUME Init PROVE Typing
  OBVIOUS
<1> USE DEF Init, Time, TimeOrNull
<1>1. FreshRow \in Row /\ RowSound(FreshRow)
  BY DEF FreshRow, Row, RowSound
<1>2. IdleRun \in Run /\ RunSound(IdleRun)
  BY DEF IdleRun, BlankRun, Run, RunSound, MaxTries, Holding
<1>3. HistorySpan \in Nat
  OBVIOUS
<1> QED BY <1>1, <1>2, <1>3 DEF Typing, TypeInvariant

\* The window of a run that has one.
LEMMA RunWindowType ==
    ASSUME Typing, NEW w \in Workers,
           run[w].pc \in {"acquire", "request", "import", "complete"}
    PROVE  /\ RunWindow(w) \in Window
           /\ RunWindow(w).from \in Nat
           /\ RunWindow(w).from <= clock
           /\ RunWindow(w).to <= clock
<1>1. run[w] \in Run /\ run[w].start \in Nat /\ RunWindow(w) # Null
  BY DEF Typing, TypeInvariant, RunSound, Run, Holding, TimeOrNull, WindowOf, RunWindow
<1>2. /\ RunWindow(w) \in Window
      /\ RunWindow(w).to \in {run[w].cursor, run[w].now} \ {Null}
      /\ RunWindow(w).from >= run[w].start
      /\ RunWindow(w).from = run[w].start \/ RunWindow(w).from <= RunWindow(w).to
  BY <1>1, NextWindowType DEF RunWindow, Run, Time
<1>3. /\ run[w].now <= clock /\ run[w].start <= clock
      /\ run[w].cursor # Null => run[w].cursor <= clock
  BY <1>1 DEF Typing, RunSound
<1>4. run[w].now \in Nat /\ clock \in Nat /\ run[w].cursor \in Nat \cup {Null}
  BY <1>1 DEF Typing, TypeInvariant, Run, Time, TimeOrNull
<1> QED BY <1>1, <1>2, <1>3, <1>4 DEF Window

\* A step that gives one isolate a sound run and leaves the rows alone.
LEMMA RunStep ==
    ASSUME Typing, NEW w \in Workers, NEW r \in Run, RunSound(r),
           run' = [run EXCEPT ![w] = r],
           UNCHANGED <<clock, active, syncState, windows>>,
           ledger' \subseteq Provider, nextAllowedAt' \in Nat
    PROVE  Typing'
BY DEF Typing, TypeInvariant, RunSound, RowSound, Time

\* A step that gives one isolate a sound run and writes one sound row.
LEMMA RowStep ==
    ASSUME Typing, NEW w \in Workers, NEW r \in Run, RunSound(r),
           run' = [run EXCEPT ![w] = r],
           NEW a \in Accounts, NEW row \in Row, RowSound(row),
           syncState' = [syncState EXCEPT ![a] = row],
           windows' \in [Accounts -> SUBSET Window],
           UNCHANGED <<clock, active, ledger, nextAllowedAt>>
    PROVE  Typing'
BY DEF Typing, TypeInvariant, RunSound, RowSound, Time

\* A run moved to another step, nothing else in it changed.
LEMMA RunAt ==
    ASSUME Typing, NEW w \in Workers, run[w].pc # "idle",
           NEW pc \in {"fail", "request", "complete"},
           /\ pc = "fail" => run[w].pc \in Holding
           /\ pc = "request" => run[w].pc = "acquire"
           /\ pc = "complete" => run[w].pc = "import"
    PROVE  LET r == [run[w] EXCEPT !.pc = pc]
           IN  r \in Run /\ RunSound(r)
BY DEF Typing, TypeInvariant, Run, RunSound, Holding, WindowOf

LEMMA IdleRunSound == IdleRun \in Run /\ RunSound(IdleRun)
BY DEF IdleRun, BlankRun, Run, RunSound, MaxTries, Holding, Time, TimeOrNull

LEMMA TypingStep == Typing /\ [Next]_vars => Typing'
<1> SUFFICES ASSUME Typing, [Next]_vars PROVE Typing'
  OBVIOUS
<1>1. CASE UNCHANGED vars
  BY <1>1 DEF Typing, TypeInvariant, RowSound, RunSound, vars
<1>2. CASE Tick
  BY <1>2 DEF Tick, database, Typing, TypeInvariant, RowSound, RunSound, Row, Run,
              Time, TimeOrNull
<1>3. CASE ReplaceAccounts
  BY <1>3 DEF ReplaceAccounts, Typing, TypeInvariant, RowSound, RunSound
<1>4. ASSUME NEW w \in Workers, Step(w) PROVE Typing'
  <2>1. /\ run[w] \in Run /\ RunSound(run[w])
        /\ clock \in Nat /\ nextAllowedAt \in Nat /\ ledger \subseteq Provider
        /\ windows \in [Accounts -> SUBSET Window]
        /\ HistorySpan <= clock
    BY DEF Typing, TypeInvariant, Time
  <2>2. IdleRun \in Run /\ RunSound(IdleRun)
    BY IdleRunSound
  <2>3. ASSUME run[w].pc \in Holding
        PROVE  run[w].account \in Accounts /\ syncState[run[w].account] \in Row
                 /\ RowSound(syncState[run[w].account])
    BY <2>1, <2>3 DEF RunSound, Typing, TypeInvariant
  <2>4. CASE SynchronizeNext(w)
    <3> DEFINE r == BlankRun("select", clock, 0)
    <3>1. r \in Run /\ RunSound(r)
      BY <2>1 DEF BlankRun, Run, RunSound, MaxTries, Holding, Time, TimeOrNull
    <3>2. run' = [run EXCEPT ![w] = r]
      BY <2>4 DEF SynchronizeNext
    <3> HIDE DEF r
    <3> QED BY <2>1, <2>4, <3>1, <3>2, RunStep DEF SynchronizeNext, database
  <2>5. CASE NextCandidate(w)
    <3>1. CASE run' = [run EXCEPT ![w] = IdleRun]
      BY <2>1, <2>2, <2>5, <3>1, RunStep DEF NextCandidate, database
    <3>2. ASSUME NEW a \in Candidates(run[w].now),
                 run' = [run EXCEPT ![w] =
                           [@ EXCEPT !.pc = "claim", !.account = a,
                                     !.cursor = syncState[a].cursor,
                                     !.start = syncState[a].start,
                                     !.last = syncState[a].last]]
          PROVE  Typing'
      <4> DEFINE r == [run[w] EXCEPT !.pc = "claim", !.account = a,
                                     !.cursor = syncState[a].cursor,
                                     !.start = syncState[a].start,
                                     !.last = syncState[a].last]
      <4>1. a \in Accounts /\ syncState[a] \in Row /\ RowSound(syncState[a])
        BY DEF Candidates, Typing, TypeInvariant
      <4>2. r \in Run /\ RunSound(r)
        BY <2>1, <2>5, <4>1 DEF NextCandidate, Row, Run, RowSound, RunSound, Holding
      <4>3. run' = [run EXCEPT ![w] = r]
        BY <3>2
      <4> HIDE DEF r
      <4> QED BY <2>1, <2>5, <4>2, <4>3, RunStep DEF NextCandidate, database
    <3> QED BY <2>5, <3>1, <3>2 DEF NextCandidate
  <2>6. CASE ClaimNext(w)
    <3> DEFINE a == run[w].account
               now == run[w].now
               start == StartOr(run[w].start, now)
               stored == StartOr(syncState[a].start, now)
               next == IF NextWindow(run[w].cursor, start, run[w].last, now) = Null
                       THEN "empty" ELSE "acquire"
               until == now + Lease
               r == [run[w] EXCEPT !.pc = next, !.start = start]
               row == [syncState[a] EXCEPT !.status = "running", !.attempt = now,
                                           !.start = stored, !.lease = until]
    <3>1. a \in Accounts /\ now \in Nat /\ HistorySpan <= now /\ now <= clock
          /\ run[w].pc = "claim"
      BY <2>1, <2>6 DEF ClaimNext, RunSound, Run, Time
    <3>2. syncState[a] \in Row /\ RowSound(syncState[a])
      BY <3>1 DEF Typing, TypeInvariant
    <3>3. start \in Nat /\ start <= clock /\ stored \in Nat /\ stored <= clock
      BY <2>1, <3>1, <3>2 DEF StartOr, TimeOrNull, Run, Row, RunSound, RowSound
    <3>4. until \in Nat
      BY <3>1
    <3>5. next \in {"empty", "acquire"}
      OBVIOUS
    <3>6. row \in Row /\ RowSound(row)
      <4> HIDE DEF a, now, stored, until
      <4> QED BY <3>1, <3>2, <3>3, <3>4 DEF Row, RowSound, Time, TimeOrNull
    <3>7. r \in Run /\ RunSound(r)
      <4>1. next = "acquire" => WindowOf(r) # Null
        BY <2>1 DEF WindowOf, Run
      <4> HIDE DEF next, start
      <4>2. r \in Run /\ r.pc = next /\ r.start = start /\ r.now = run[w].now
              /\ r.account = run[w].account /\ r.cursor = run[w].cursor
        BY <2>1, <3>3, <3>5 DEF Run, Holding, TimeOrNull
      <4> HIDE DEF r
      <4> QED BY <2>1, <3>1, <3>3, <3>5, <4>1, <4>2 DEF RunSound, Holding
    <3>8. syncState' = [syncState EXCEPT ![a] = row]
      BY <2>6 DEF ClaimNext
    <3>9. run' = [run EXCEPT ![w] = r]
      BY <2>6 DEF ClaimNext
    <3>10. UNCHANGED <<clock, active, windows, ledger, nextAllowedAt>>
      BY <2>6 DEF ClaimNext
    <3> HIDE DEF a, row, r
    <3> QED BY <2>1, <3>1, <3>6, <3>7, <3>8, <3>9, <3>10, RowStep
  <2>7. CASE ClaimLost(w)
    <3>1. CASE Exhausted(run[w].tries)
      BY <2>1, <2>2, <2>7, <3>1, RunStep DEF ClaimLost, database
    <3>2. CASE ~Exhausted(run[w].tries)
      <4> DEFINE r == BlankRun("select", run[w].now, run[w].tries + 1)
      <4>1. r \in Run /\ RunSound(r)
        BY <2>1, <2>7, <3>2 DEF ClaimLost, Exhausted, BlankRun, Run, RunSound,
                                MaxTries, Holding, Time, TimeOrNull
      <4>2. run' = [run EXCEPT ![w] = r]
        BY <2>7, <3>2 DEF ClaimLost
      <4> HIDE DEF r
      <4> QED BY <2>1, <2>7, <4>1, <4>2, RunStep DEF ClaimLost, database
    <3> QED BY <3>1, <3>2
  <2>8. CASE CompleteEmptyWindow(w)
    <3> DEFINE a == run[w].account
               row == [syncState[a] EXCEPT !.status = "idle", !.lease = Null]
    <3>1. a \in Accounts /\ row \in Row /\ RowSound(row)
      BY <2>3, <2>8 DEF CompleteEmptyWindow, Holding, Row, RowSound, TimeOrNull
    <3>2. /\ syncState' = [syncState EXCEPT ![a] = row]
          /\ run' = [run EXCEPT ![w] = IdleRun]
          /\ UNCHANGED <<clock, active, windows, ledger, nextAllowedAt>>
      BY <2>8 DEF CompleteEmptyWindow
    <3> HIDE DEF a, row
    <3> QED BY <2>1, <2>2, <3>1, <3>2, RowStep
  <2>9. CASE AcquireGate(w)
    <3>1. PICK pc \in {"request", "fail"} : run' = [run EXCEPT ![w].pc = pc]
      BY <2>9 DEF AcquireGate
    <3>2. nextAllowedAt' \in Nat
      BY <2>1, <2>9 DEF AcquireGate, Reserved
    <3> DEFINE r == [run[w] EXCEPT !.pc = pc]
    <3>3. r \in Run /\ RunSound(r)
      BY <2>9, RunAt DEF AcquireGate, Holding
    <3>4. run' = [run EXCEPT ![w] = r]
      BY <3>1
    <3> HIDE DEF r
    <3> QED BY <2>1, <2>9, <3>2, <3>3, <3>4, RunStep DEF AcquireGate
  <2>10. CASE StatementReceived(w)
    <3> DEFINE found == Statement(run[w].account, RunWindow(w), clock)
               r == [run[w] EXCEPT !.pc = "import", !.fetched = found]
    <3>1. found \in SUBSET Provider
      BY DEF Statement
    <3>2. r \in Run /\ RunSound(r)
      <4> HIDE DEF found
      <4> QED BY <2>1, <2>10, <3>1
              DEF StatementReceived, Run, RunSound, Holding, WindowOf
    <3>3. run' = [run EXCEPT ![w] = r]
      BY <2>10 DEF StatementReceived
    <3> HIDE DEF r
    <3> QED BY <2>1, <2>10, <3>2, <3>3, RunStep DEF StatementReceived, database
  <2>11. CASE RequestFailed(w)
    <3> DEFINE r == [run[w] EXCEPT !.pc = "fail"]
    <3>1. r \in Run /\ RunSound(r)
      BY <2>11, RunAt DEF RequestFailed, Holding
    <3>2. run' = [run EXCEPT ![w] = r]
      BY <2>11 DEF RequestFailed
    <3>3. nextAllowedAt' \in Nat
      BY <2>1, <2>11 DEF RequestFailed, database
    <3> HIDE DEF r
    <3> QED BY <2>1, <2>11, <3>1, <3>2, <3>3, RunStep DEF RequestFailed, database
  <2>12. CASE TooManyRequests(w)
    <3> DEFINE r == [run[w] EXCEPT !.pc = "fail"]
    <3>1. r \in Run /\ RunSound(r)
      BY <2>12, RunAt DEF TooManyRequests, Holding
    <3>2. run' = [run EXCEPT ![w] = r]
      BY <2>12 DEF TooManyRequests
    <3>3. nextAllowedAt' \in Nat
      BY <2>1, <2>12 DEF TooManyRequests, Deferred
    <3> HIDE DEF r
    <3> QED BY <2>1, <2>12, <3>1, <3>2, <3>3, RunStep DEF TooManyRequests, database
  <2>13. CASE ImportTransactions(w)
    <3> DEFINE r == [run[w] EXCEPT !.pc = "complete"]
    <3>1. r \in Run /\ RunSound(r)
      BY <2>13, RunAt DEF ImportTransactions
    <3>2. run' = [run EXCEPT ![w] = r]
      BY <2>13 DEF ImportTransactions
    <3>3. ledger' \subseteq Provider
      BY <2>1, <2>13 DEF ImportTransactions, Run
    <3> HIDE DEF r
    <3> QED BY <2>1, <2>13, <3>1, <3>2, <3>3, RunStep DEF ImportTransactions
  <2>14. CASE CompleteWindow(w)
    <3> DEFINE a == run[w].account
    <3>1. run[w].pc = "complete" /\ a \in Accounts /\ syncState[a] \in Row
          /\ RowSound(syncState[a])
      BY <2>3, <2>14 DEF CompleteWindow, Holding
    <3>2. /\ RunWindow(w) \in Window
          /\ RunWindow(w).from \in Nat /\ RunWindow(w).from <= clock
      BY <3>1, RunWindowType
    <3>3. PICK last \in MaximumTimestamp(run[w].last, run[w].fetched) :
            syncState' = [syncState EXCEPT ![a] =
                            [@ EXCEPT !.status = "idle", !.lease = Null,
                                      !.cursor = RunWindow(w).from,
                                      !.last = last]]
      BY <2>14 DEF CompleteWindow
    <3>4. last \in TimeOrNull
      BY <2>1 DEF MaximumTimestamp, Times, Run, TimeOrNull
    <3> DEFINE from == RunWindow(w).from
    <3> DEFINE row == [syncState[a] EXCEPT !.status = "idle", !.lease = Null,
                                           !.cursor = from, !.last = last]
    <3>5. row \in Row /\ RowSound(row)
      <4>1. from \in Nat /\ from <= clock
        BY <3>2
      <4> HIDE DEF a, from
      <4> QED BY <3>1, <3>4, <4>1 DEF Row, RowSound, TimeOrNull
    <3>6. PICK r \in {IdleRun, [run[w] EXCEPT !.pc = "fail"]} :
            run' = [run EXCEPT ![w] = r]
      BY <2>14 DEF CompleteWindow
    <3>7. r \in Run /\ RunSound(r)
      BY <2>2, <3>1, RunAt DEF Holding
    <3>8. windows' \in [Accounts -> SUBSET Window]
      BY <2>1, <2>14, <3>1, <3>2 DEF CompleteWindow
    <3>9. /\ syncState' = [syncState EXCEPT ![a] = row]
          /\ UNCHANGED <<clock, active, ledger, nextAllowedAt>>
      BY <2>14, <3>3 DEF CompleteWindow
    <3> HIDE DEF a, row
    <3> QED BY <3>1, <3>5, <3>6, <3>7, <3>8, <3>9, RowStep
  <2>15. CASE BatchFailed(w)
    <3> DEFINE r == [run[w] EXCEPT !.pc = "fail"]
    <3>1. r \in Run /\ RunSound(r)
      BY <2>15, RunAt DEF BatchFailed, Holding
    <3>2. run' = [run EXCEPT ![w] = r]
      BY <2>15 DEF BatchFailed
    <3>3. nextAllowedAt' \in Nat
      BY <2>1, <2>15 DEF BatchFailed, database
    <3> HIDE DEF r
    <3> QED BY <2>1, <2>15, <3>1, <3>2, <3>3, RunStep DEF BatchFailed, database
  <2>16. CASE FailWindow(w)
    <3> DEFINE a == run[w].account
               row == [syncState[a] EXCEPT !.status = "failed", !.lease = Null]
    <3>1. a \in Accounts /\ row \in Row /\ RowSound(row)
      BY <2>3, <2>16 DEF FailWindow, Holding, Row, RowSound, TimeOrNull
    <3>2. /\ syncState' = [syncState EXCEPT ![a] = row]
          /\ run' = [run EXCEPT ![w] = IdleRun]
          /\ UNCHANGED <<clock, active, windows, ledger, nextAllowedAt>>
      BY <2>16 DEF FailWindow
    <3> HIDE DEF a, row
    <3> QED BY <2>1, <2>2, <3>1, <3>2, RowStep
  <2>17. CASE Lost(w)
    BY <2>1, <2>2, <2>17, RunStep DEF Lost, database
  <2> QED BY <1>4, <2>4, <2>5, <2>6, <2>7, <2>8, <2>9, <2>10, <2>11, <2>12,
             <2>13, <2>14, <2>15, <2>16, <2>17 DEF Step
<1> QED BY <1>1, <1>2, <1>3, <1>4 DEF Next

-----------------------------------------------------------------------------
(* Coverage evidence *)

LEMMA EvidenceInit == Init => Evidence
BY DEF Init, Evidence, CoverageTruthful, RunEvidence, IdleRun, BlankRun

\* A step of one isolate that removes no transaction and records no window.
LEMMA EvidenceKept ==
    ASSUME TypeInvariant, Evidence, NEW w \in Workers, NEW r,
           RunEvidence(r, ledger'), run' = [run EXCEPT ![w] = r],
           ledger \subseteq ledger', windows' = windows
    PROVE  Evidence'
BY DEF TypeInvariant, Evidence, RunEvidence, CoverageTruthful, WindowOf, Within

LEMMA EvidenceStep == Typing /\ Evidence /\ [Next]_vars => Evidence'
<1> SUFFICES ASSUME Typing, Evidence, [Next]_vars PROVE Evidence'
  OBVIOUS
<1>0. TypeInvariant
  BY DEF Typing
<1>1. CASE UNCHANGED <<windows, ledger, run>>
  BY <1>1 DEF Evidence, RunEvidence, CoverageTruthful, WindowOf, Within
<1>2. ASSUME NEW w \in Workers, Step(w) PROVE Evidence'
  <2> DEFINE r == run'[w]
  <2>1. run[w] \in Run /\ RunEvidence(run[w], ledger)
    BY <1>0 DEF TypeInvariant, Evidence
  <2>2. ~(IdleRun.pc \in {"import", "complete"})
    BY DEF IdleRun, BlankRun
  \* Steps that neither import nor complete: the run reaches no such step.
  <2>3. ASSUME UNCHANGED <<windows, ledger>>, run' = [run EXCEPT ![w] = r],
               ~(r.pc \in {"import", "complete"})
        PROVE  Evidence'
    <3>1. RunEvidence(r, ledger')
      BY <2>3 DEF RunEvidence
    <3> HIDE DEF r
    <3> QED BY <1>0, <2>3, <3>1, EvidenceKept
  <2>4. CASE \/ SynchronizeNext(w) \/ NextCandidate(w) \/ ClaimNext(w) \/ ClaimLost(w)
             \/ CompleteEmptyWindow(w) \/ AcquireGate(w) \/ RequestFailed(w)
             \/ TooManyRequests(w) \/ BatchFailed(w) \/ FailWindow(w) \/ Lost(w)
    <3>1. CASE SynchronizeNext(w)
      BY <1>0, <2>1, <2>2, <2>3, <3>1 DEF SynchronizeNext, database, TypeInvariant, BlankRun
    <3>2. CASE NextCandidate(w)
      <4>1. UNCHANGED <<windows, ledger>>
        BY <3>2 DEF NextCandidate, database
      <4>2. CASE run' = [run EXCEPT ![w] = IdleRun]
        BY <1>0, <2>2, <2>3, <4>1, <4>2 DEF TypeInvariant
      <4>3. ASSUME NEW a \in Accounts,
                   run' = [run EXCEPT ![w] =
                             [@ EXCEPT !.pc = "claim", !.account = a,
                                       !.cursor = syncState[a].cursor,
                                       !.start = syncState[a].start,
                                       !.last = syncState[a].last]]
            PROVE  Evidence'
        BY <1>0, <2>1, <2>3, <4>1, <4>3 DEF TypeInvariant, Run
      <4> QED BY <1>0, <3>2, <4>2, <4>3 DEF NextCandidate, Candidates, TypeInvariant
    <3>3. CASE ClaimNext(w)
      BY <1>0, <2>1, <2>2, <2>3, <3>3 DEF ClaimNext, TypeInvariant, Run
    <3>4. CASE ClaimLost(w)
      BY <1>0, <2>1, <2>2, <2>3, <3>4 DEF ClaimLost, database, TypeInvariant, BlankRun
    <3>5. CASE CompleteEmptyWindow(w)
      BY <1>0, <2>1, <2>2, <2>3, <3>5 DEF CompleteEmptyWindow, TypeInvariant
    <3>6. CASE AcquireGate(w)
      BY <1>0, <2>1, <2>2, <2>3, <3>6 DEF AcquireGate, TypeInvariant, Run
    <3>7. CASE RequestFailed(w)
      BY <1>0, <2>1, <2>2, <2>3, <3>7 DEF RequestFailed, database, TypeInvariant, Run
    <3>8. CASE TooManyRequests(w)
      BY <1>0, <2>1, <2>2, <2>3, <3>8 DEF TooManyRequests, TypeInvariant, Run
    <3>9. CASE BatchFailed(w)
      BY <1>0, <2>1, <2>2, <2>3, <3>9 DEF BatchFailed, database, TypeInvariant, Run
    <3>10. CASE FailWindow(w)
      BY <1>0, <2>1, <2>2, <2>3, <3>10 DEF FailWindow, TypeInvariant
    <3>11. CASE Lost(w)
      BY <1>0, <2>1, <2>2, <2>3, <3>11 DEF Lost, database, TypeInvariant
    <3> QED BY <2>4, <3>1, <3>2, <3>3, <3>4, <3>5, <3>6,
               <3>7, <3>8, <3>9, <3>10, <3>11
  <2>5. CASE StatementReceived(w)
    <3> DEFINE found == Statement(run[w].account, RunWindow(w), clock)
               s == [run[w] EXCEPT !.pc = "import", !.fetched = found]
    <3>1. run[w].pc = "request" /\ run' = [run EXCEPT ![w] = s]
          /\ UNCHANGED <<windows, ledger>>
      BY <2>5 DEF StatementReceived, database
    <3>2. RunWindow(w).to <= clock /\ RunWindow(w) \in Window /\ clock \in Int
      BY <1>0, <3>1, RunWindowType DEF TypeInvariant, Time
    <3>3. WindowOf(s) = RunWindow(w)
      BY <2>1 DEF WindowOf, RunWindow, Run
    <3>4. \A t \in Provider :
            t.account = run[w].account /\ Within(t, RunWindow(w)) => t \in found
      BY <3>2 DEF Statement, Within, Window
    <3>5. s.pc = "import" /\ s.account = run[w].account /\ s.fetched = found
      <4> HIDE DEF found
      <4> QED BY <2>1 DEF Run
    <3> HIDE DEF found, s
    <3>6. RunEvidence(s, ledger')
      BY <3>3, <3>4, <3>5 DEF RunEvidence
    <3> QED BY <1>0, <3>1, <3>6, EvidenceKept
  <2>6. CASE ImportTransactions(w)
    <3> DEFINE s == [run[w] EXCEPT !.pc = "complete"]
    <3>1. /\ run[w].pc = "import" /\ run' = [run EXCEPT ![w] = s]
          /\ windows' = windows /\ ledger' = ledger \cup run[w].fetched
      BY <2>6 DEF ImportTransactions
    <3>2. WindowOf(s) = WindowOf(run[w]) /\ s.account = run[w].account
          /\ s.pc = "complete"
      BY <2>1 DEF WindowOf, Run
    <3> HIDE DEF s
    <3>3. RunEvidence(s, ledger')
      BY <2>1, <3>1, <3>2 DEF RunEvidence
    <3> QED BY <1>0, <3>1, <3>3, EvidenceKept
  <2>7. CASE CompleteWindow(w)
    <3> DEFINE a == run[w].account
    <3>1. /\ run[w].pc = "complete" /\ ledger' = ledger
          /\ windows' = [windows EXCEPT ![a] = @ \cup {RunWindow(w)}]
      BY <2>7 DEF CompleteWindow
    <3>2. PICK s \in {IdleRun, [run[w] EXCEPT !.pc = "fail"]} :
            run' = [run EXCEPT ![w] = s]
      BY <2>7 DEF CompleteWindow
    <3>3. RunEvidence(s, ledger)
      BY <2>1, <2>2, <3>2 DEF RunEvidence, Run
    <3>4. \A v \in Workers : RunEvidence(run'[v], ledger')
      BY <1>0, <3>1, <3>2, <3>3 DEF TypeInvariant, Evidence
    <3>5. \A t \in Provider : t.account = a /\ Within(t, RunWindow(w)) => t \in ledger
      BY <2>1, <3>1 DEF RunEvidence, RunWindow, WindowOf
    <3>6. ASSUME NEW b \in Accounts, NEW window \in windows'[b], NEW t \in Provider,
                 t.account = b, Within(t, window)
          PROVE  t \in ledger'
      <4>1. window \in windows[b] \/ (b = a /\ window = RunWindow(w))
        BY <1>0, <3>1, <3>6 DEF TypeInvariant
      <4> QED BY <3>1, <3>5, <3>6, <4>1 DEF Evidence, CoverageTruthful
    <3> HIDE DEF a
    <3>7. CoverageTruthful'
      BY <3>6 DEF CoverageTruthful, Within
    <3> QED BY <3>4, <3>7 DEF Evidence
  <2> QED BY <1>2, <2>4, <2>5, <2>6, <2>7 DEF Step
<1> QED BY <1>1, <1>2 DEF Next, Tick, ReplaceAccounts, vars, database

-----------------------------------------------------------------------------
(* The lease *)

\* Under these two conditions a lease outlives the run it was given to.
RunsEndInTime == MaxRun < Lease /\ ~LostReplies

LEMMA LeaseInit == Init => LeaseHeld /\ LeaseExclusion
BY DEF Init, LeaseHeld, LeaseExclusion, IdleRun, BlankRun, Holding

LEMMA LeaseStep ==
    RunsEndInTime /\ Typing /\ LeaseHeld /\ LeaseExclusion /\ [Next]_vars
      => LeaseHeld' /\ LeaseExclusion'
<1> SUFFICES ASSUME RunsEndInTime, Typing, LeaseHeld, LeaseExclusion, [Next]_vars
             PROVE  LeaseHeld' /\ LeaseExclusion'
  OBVIOUS
<1>0. TypeInvariant
  BY DEF Typing
<1>1. CASE UNCHANGED <<clock, syncState, run>>
  BY <1>1 DEF LeaseHeld, LeaseExclusion
<1>2. CASE Tick
  BY <1>0, <1>2 DEF Tick, database, LeaseHeld, LeaseExclusion, TypeInvariant, Run, Time
\* A step that keeps what the isolate holds, or ends the run.
<1>3. ASSUME NEW w \in Workers, NEW r \in Run, run' = [run EXCEPT ![w] = r],
             UNCHANGED <<clock, syncState>>,
             \/ r.pc = "idle"
             \/ r.pc \in {"select", "claim"} /\ run[w].pc # "idle" /\ r.now = run[w].now
             \/ r.pc = "select" /\ r.now = clock
             \/ /\ run[w].pc \in Holding /\ r.now = run[w].now
                /\ r.account = run[w].account
      PROVE  LeaseHeld' /\ LeaseExclusion'
  BY <1>0, <1>3 DEF TypeInvariant, LeaseHeld, LeaseExclusion, Holding, Time, Run
\* A step that gives up the lease together with the run.
<1>4. ASSUME NEW w \in Workers, NEW r \in Run, run' = [run EXCEPT ![w] = r],
             run[w].pc \in Holding, r.pc = "idle", clock' = clock,
             NEW row, syncState' = [syncState EXCEPT ![run[w].account] = row]
      PROVE  LeaseHeld' /\ LeaseExclusion'
  <2>1. ASSUME NEW v \in Workers, run'[v].pc \in Holding
        PROVE  v # w /\ run'[v] = run[v] /\ run[v].account # run[w].account
    BY <1>0, <1>4, <2>1 DEF TypeInvariant, LeaseExclusion, Holding
  <2> QED BY <1>0, <1>4, <2>1 DEF TypeInvariant, LeaseHeld, LeaseExclusion
<1>5. ASSUME NEW w \in Workers, ClaimNext(w) PROVE LeaseHeld' /\ LeaseExclusion'
  <2> DEFINE a == run[w].account
             now == run[w].now
  <2>1. /\ run[w].pc = "claim" /\ run[w] \in Run
        /\ a \in Accounts /\ now \in Nat /\ now <= clock
        /\ syncState[a] \in Row /\ clock \in Nat /\ clock' = clock
    BY <1>0, <1>5 DEF ClaimNext, Typing, RunSound, TypeInvariant, Run, Time
  <2>2. syncState[a].lease = Null \/ syncState[a].lease <= now
    BY <1>5, <2>1 DEF ClaimNext, ClaimGuard, Leased, Row, TimeOrNull
  \* A run that still held the account would be older than its lease.
  <2>3. ASSUME NEW v \in Workers, run[v].pc \in Holding PROVE run[v].account # a
    <3>1. run[v].pc # "idle" /\ run[v].now \in Nat
      BY <1>0, <2>3 DEF TypeInvariant, Run, Holding, Time
    <3>2. /\ clock <= run[v].now + MaxRun
          /\ syncState[run[v].account].lease = run[v].now + Lease
      BY <2>3, <3>1 DEF LeaseHeld
    <3>3. run[v].now + Lease > clock /\ run[v].now + Lease \in Nat
      BY <2>1, <3>1, <3>2 DEF RunsEndInTime
    <3> QED BY <2>1, <2>2, <3>2, <3>3
  <2>4. /\ syncState'[a].lease = now + Lease
        /\ \A b \in Accounts : b # a => syncState'[b] = syncState[b]
    BY <1>0, <1>5, <2>1 DEF ClaimNext, TypeInvariant, Row
  <2>5. /\ run'[w].account = a /\ run'[w].now = now /\ run'[w].pc # "idle"
        /\ \A v \in Workers : v # w => run'[v] = run[v]
    BY <1>0, <1>5, <2>1 DEF ClaimNext, TypeInvariant, Run
  <2>6. clock <= now + MaxRun
    BY <2>1 DEF LeaseHeld
  <2>7. \A v \in Workers : v # w /\ run[v].pc \in Holding => run[v].account \in Accounts
    BY DEF Typing, RunSound
  <2> HIDE DEF a, now
  <2>8. LeaseExclusion'
    BY <2>3, <2>5 DEF LeaseExclusion
  <2>9. ASSUME NEW v \in Workers, run'[v].pc # "idle"
        PROVE  /\ clock' <= run'[v].now + MaxRun
               /\ run'[v].pc \in Holding =>
                    syncState'[run'[v].account].lease = run'[v].now + Lease
    <3>1. CASE v = w
      BY <2>1, <2>4, <2>5, <2>6, <3>1
    <3>2. CASE v # w
      <4>1. run'[v] = run[v] /\ clock' = clock /\ run[v].pc # "idle"
        BY <2>1, <2>5, <2>9, <3>2
      <4>2. clock <= run[v].now + MaxRun
        BY <4>1 DEF LeaseHeld
      <4>3. ASSUME run[v].pc \in Holding
            PROVE  syncState'[run[v].account].lease = run[v].now + Lease
        <5>1. run[v].account \in Accounts /\ run[v].account # a
          BY <2>3, <2>7, <3>2, <4>3
        <5>2. syncState'[run[v].account] = syncState[run[v].account]
          BY <2>4, <5>1
        <5> QED BY <4>1, <4>3, <5>2 DEF LeaseHeld
      <4> QED BY <4>1, <4>2, <4>3
    <3> QED BY <3>1, <3>2
  <2> QED BY <2>8, <2>9 DEF LeaseHeld
<1>6. ASSUME NEW w \in Workers, Step(w), ~ClaimNext(w)
      PROVE  LeaseHeld' /\ LeaseExclusion'
  <2>1. run[w] \in Run /\ clock \in Nat
    BY <1>0 DEF TypeInvariant, Time
  <2>2. IdleRun \in Run /\ IdleRun.pc = "idle"
    BY IdleRunSound DEF IdleRun, BlankRun
  <2>3. CASE SynchronizeNext(w)
    <3>1. BlankRun("select", clock, 0) \in Run
      BY <2>1 DEF BlankRun, Run, MaxTries, Time, TimeOrNull
    <3> QED BY <1>3, <2>3, <3>1 DEF SynchronizeNext, database, BlankRun
  <2>4. CASE NextCandidate(w)
    <3>1. CASE run' = [run EXCEPT ![w] = IdleRun]
      BY <1>3, <2>2, <2>4, <3>1 DEF NextCandidate, database
    <3>2. ASSUME NEW a \in Accounts,
                 run' = [run EXCEPT ![w] =
                           [@ EXCEPT !.pc = "claim", !.account = a,
                                     !.cursor = syncState[a].cursor,
                                     !.start = syncState[a].start,
                                     !.last = syncState[a].last]]
          PROVE  LeaseHeld' /\ LeaseExclusion'
      <4> DEFINE r == [run[w] EXCEPT !.pc = "claim", !.account = a,
                                     !.cursor = syncState[a].cursor,
                                     !.start = syncState[a].start,
                                     !.last = syncState[a].last]
      <4>1. syncState[a] \in Row
        BY <1>0 DEF TypeInvariant
      <4>2. r \in Run /\ r.pc = "claim" /\ r.now = run[w].now
        BY <2>1, <4>1 DEF Run, Row
      <4>3. run' = [run EXCEPT ![w] = r] /\ run[w].pc # "idle"
            /\ UNCHANGED <<clock, syncState>>
        BY <2>4, <3>2 DEF NextCandidate, database
      <4> HIDE DEF r
      <4> QED BY <1>3, <4>2, <4>3
    <3> QED BY <1>0, <2>4, <3>1, <3>2 DEF NextCandidate, Candidates, TypeInvariant
  <2>5. CASE ClaimLost(w)
    <3>1. CASE Exhausted(run[w].tries)
      BY <1>3, <2>2, <2>5, <3>1 DEF ClaimLost, database
    <3>2. CASE ~Exhausted(run[w].tries)
      <4> DEFINE r == BlankRun("select", run[w].now, run[w].tries + 1)
      <4>1. r \in Run /\ r.pc = "select" /\ r.now = run[w].now
        BY <2>1, <3>2 DEF Exhausted, BlankRun, Run, MaxTries, Time, TimeOrNull
      <4>2. run' = [run EXCEPT ![w] = r] /\ run[w].pc # "idle"
            /\ UNCHANGED <<clock, syncState>>
        BY <2>5, <3>2 DEF ClaimLost, database
      <4> HIDE DEF r
      <4> QED BY <1>3, <4>1, <4>2
    <3> QED BY <3>1, <3>2
  <2>6. CASE AcquireGate(w)
    <3>1. PICK pc \in {"request", "fail"} : run' = [run EXCEPT ![w].pc = pc]
      BY <2>6 DEF AcquireGate
    <3> DEFINE r == [run[w] EXCEPT !.pc = pc]
    <3>2. r \in Run /\ r.now = run[w].now /\ r.account = run[w].account
      BY <2>1 DEF Run, Holding
    <3>3. run' = [run EXCEPT ![w] = r] /\ run[w].pc \in Holding
          /\ UNCHANGED <<clock, syncState>>
      BY <2>6, <3>1 DEF AcquireGate, Holding
    <3> HIDE DEF r
    <3> QED BY <1>3, <3>2, <3>3
  <2>7. CASE RequestFailed(w)
    <3>1. PICK pc \in {"fail"} : run' = [run EXCEPT ![w].pc = pc]
      BY <2>7 DEF RequestFailed
    <3> DEFINE r == [run[w] EXCEPT !.pc = pc]
    <3>2. r \in Run /\ r.now = run[w].now /\ r.account = run[w].account
      BY <2>1 DEF Run, Holding
    <3>3. run' = [run EXCEPT ![w] = r] /\ run[w].pc \in Holding
          /\ UNCHANGED <<clock, syncState>>
      BY <2>7, <3>1 DEF RequestFailed, Holding, database
    <3> HIDE DEF r
    <3> QED BY <1>3, <3>2, <3>3
  <2>8. CASE TooManyRequests(w)
    <3>1. PICK pc \in {"fail"} : run' = [run EXCEPT ![w].pc = pc]
      BY <2>8 DEF TooManyRequests
    <3> DEFINE r == [run[w] EXCEPT !.pc = pc]
    <3>2. r \in Run /\ r.now = run[w].now /\ r.account = run[w].account
      BY <2>1 DEF Run, Holding
    <3>3. run' = [run EXCEPT ![w] = r] /\ run[w].pc \in Holding
          /\ UNCHANGED <<clock, syncState>>
      BY <2>8, <3>1 DEF TooManyRequests, Holding
    <3> HIDE DEF r
    <3> QED BY <1>3, <3>2, <3>3
  <2>9. CASE ImportTransactions(w)
    <3>1. PICK pc \in {"complete"} : run' = [run EXCEPT ![w].pc = pc]
      BY <2>9 DEF ImportTransactions
    <3> DEFINE r == [run[w] EXCEPT !.pc = pc]
    <3>2. r \in Run /\ r.now = run[w].now /\ r.account = run[w].account
      BY <2>1 DEF Run, Holding
    <3>3. run' = [run EXCEPT ![w] = r] /\ run[w].pc \in Holding
          /\ UNCHANGED <<clock, syncState>>
      BY <2>9, <3>1 DEF ImportTransactions, Holding
    <3> HIDE DEF r
    <3> QED BY <1>3, <3>2, <3>3
  <2>10. CASE BatchFailed(w)
    <3>1. PICK pc \in {"fail"} : run' = [run EXCEPT ![w].pc = pc]
      BY <2>10 DEF BatchFailed
    <3> DEFINE r == [run[w] EXCEPT !.pc = pc]
    <3>2. r \in Run /\ r.now = run[w].now /\ r.account = run[w].account
      BY <2>1 DEF Run, Holding
    <3>3. run' = [run EXCEPT ![w] = r] /\ run[w].pc \in Holding
          /\ UNCHANGED <<clock, syncState>>
      BY <2>10, <3>1 DEF BatchFailed, Holding, database
    <3> HIDE DEF r
    <3> QED BY <1>3, <3>2, <3>3
  <2>11. CASE StatementReceived(w)
    <3> DEFINE found == Statement(run[w].account, RunWindow(w), clock)
               r == [run[w] EXCEPT !.pc = "import", !.fetched = found]
    <3>1. found \in SUBSET Provider
      BY DEF Statement
    <3>2. r \in Run /\ r.now = run[w].now /\ r.account = run[w].account
      <4> HIDE DEF found
      <4> QED BY <2>1, <3>1 DEF Run, Holding
    <3>3. run' = [run EXCEPT ![w] = r] /\ run[w].pc \in Holding
          /\ UNCHANGED <<clock, syncState>>
      BY <2>11 DEF StatementReceived, Holding, database
    <3> HIDE DEF r
    <3> QED BY <1>3, <3>2, <3>3
  <2>12. CASE CompleteEmptyWindow(w)
    BY <1>4, <2>2, <2>12 DEF CompleteEmptyWindow, Holding
  <2>13. CASE FailWindow(w)
    BY <1>4, <2>2, <2>13 DEF FailWindow, Holding
  <2>14. CASE CompleteWindow(w)
    BY <1>4, <2>2, <2>14 DEF CompleteWindow, Holding, RunsEndInTime
  <2>15. CASE Lost(w)
    BY <1>3, <2>2, <2>15 DEF Lost, database
  <2> QED BY <1>6, <2>3, <2>4, <2>5, <2>6, <2>7, <2>8,
             <2>9, <2>10, <2>11, <2>12, <2>13, <2>14, <2>15 DEF Step
<1> QED BY <1>1, <1>2, <1>5, <1>6 DEF Next, ReplaceAccounts, vars

-----------------------------------------------------------------------------
(* The kinds of step an isolate takes *)

\* No row gets another cursor, start or position, and the gate stays reserved.
DataKept ==
    /\ UNCHANGED <<clock, windows>>
    /\ ledger \subseteq ledger'
    /\ nextAllowedAt <= nextAllowedAt'
    /\ \A a \in Accounts : /\ syncState'[a].cursor = syncState[a].cursor
                          /\ syncState'[a].start = syncState[a].start
                          /\ syncState'[a].last = syncState[a].last

\* The run is over, or starts again.
Leaves(w) ==
    /\ DataKept
    /\ \E r \in Run : /\ run' = [run EXCEPT ![w] = r]
                      /\ r.pc \in {"idle", "select"} /\ r.start = Null

SameData(r, s) ==
    /\ r.now = s.now /\ r.account = s.account
    /\ r.cursor = s.cursor /\ r.start = s.start /\ r.last = s.last

\* The run goes on with what it holds.
Carries(w) ==
    /\ DataKept
    /\ run[w].pc \in Holding
    /\ \E r \in Run :
         /\ run' = [run EXCEPT ![w] = r]
         /\ SameData(r, run[w])
         /\ r.pc \in {"request", "import", "complete", "fail"}
         /\ r.pc = "request" => /\ run[w].pc = "acquire"
                                /\ Free(nextAllowedAt, clock)
                                /\ nextAllowedAt' = Reserved(clock, Interval)
         /\ r.pc = "import" =>
              /\ run[w].pc = "request"
              /\ r.fetched = Statement(run[w].account, RunWindow(w), clock)
         /\ r.pc = "complete" => /\ run[w].pc = "import"
                                 /\ r.fetched = run[w].fetched
                                 /\ ledger' = ledger \cup run[w].fetched

\* The run takes a snapshot of the row it is going to claim.
Reads(w) ==
    /\ DataKept
    /\ run[w].pc = "select"
    /\ \E r \in Run, a \in Candidates(run[w].now) :
         /\ run' = [run EXCEPT ![w] = r]
         /\ r.pc = "claim" /\ r.now = run[w].now /\ r.account = a
         /\ r.cursor = syncState[a].cursor
         /\ r.start = syncState[a].start
         /\ r.last = syncState[a].last

LEMMA StepKinds ==
    ASSUME Typing, NEW w \in Workers, Step(w)
    PROVE  Leaves(w) \/ Carries(w) \/ Reads(w) \/ ClaimNext(w) \/ CompleteWindow(w)
<1>1. run[w] \in Run /\ clock \in Nat /\ nextAllowedAt \in Nat
      /\ syncState \in [Accounts -> Row]
  BY DEF Typing, TypeInvariant, Time
<1>2. IdleRun \in Run /\ IdleRun.pc = "idle" /\ IdleRun.start = Null
  BY IdleRunSound DEF IdleRun, BlankRun
<1>3. ASSUME UNCHANGED <<clock, database>> PROVE DataKept
  BY <1>1, <1>3 DEF DataKept, database
<1>4. CASE SynchronizeNext(w)
  <2>1. BlankRun("select", clock, 0) \in Run
    BY <1>1 DEF BlankRun, Run, MaxTries, Time, TimeOrNull
  <2> QED BY <1>3, <1>4, <2>1 DEF SynchronizeNext, BlankRun, Leaves
<1>5. CASE NextCandidate(w)
  <2>1. CASE run' = [run EXCEPT ![w] = IdleRun]
    BY <1>2, <1>3, <1>5, <2>1 DEF NextCandidate, Leaves
  <2>2. ASSUME NEW a \in Candidates(run[w].now),
               run' = [run EXCEPT ![w] =
                         [@ EXCEPT !.pc = "claim", !.account = a,
                                   !.cursor = syncState[a].cursor,
                                   !.start = syncState[a].start,
                                   !.last = syncState[a].last]]
        PROVE  Reads(w)
    <3> DEFINE r == [run[w] EXCEPT !.pc = "claim", !.account = a,
                                   !.cursor = syncState[a].cursor,
                                   !.start = syncState[a].start,
                                   !.last = syncState[a].last]
    <3>1. a \in Accounts /\ syncState[a] \in Row
      BY <1>1 DEF Candidates, Typing, TypeInvariant
    <3>2. r \in Run /\ r.pc = "claim" /\ r.now = run[w].now /\ r.account = a
          /\ r.cursor = syncState[a].cursor
          /\ r.start = syncState[a].start
          /\ r.last = syncState[a].last
      BY <1>1, <3>1 DEF Run, Row
    <3>3. run' = [run EXCEPT ![w] = r]
      BY <2>2
    <3>4. DataKept /\ run[w].pc = "select"
      BY <1>3, <1>5 DEF NextCandidate
    <3> HIDE DEF r
    <3> QED BY <3>2, <3>3, <3>4 DEF Reads
  <2> QED BY <1>5, <2>1, <2>2 DEF NextCandidate
<1>6. CASE ClaimLost(w)
  <2>1. CASE Exhausted(run[w].tries)
    BY <1>2, <1>3, <1>6, <2>1 DEF ClaimLost, Leaves
  <2>2. CASE ~Exhausted(run[w].tries)
    <3>1. BlankRun("select", run[w].now, run[w].tries + 1) \in Run
      BY <1>1, <2>2 DEF Exhausted, BlankRun, Run, MaxTries, Time, TimeOrNull
    <3> QED BY <1>3, <1>6, <2>2, <3>1 DEF ClaimLost, BlankRun, Leaves
  <2> QED BY <2>1, <2>2
<1>7. CASE CompleteEmptyWindow(w)
  <2>1. DataKept
    BY <1>1, <1>7 DEF CompleteEmptyWindow, DataKept, Row
  <2> QED BY <1>2, <1>7, <2>1 DEF CompleteEmptyWindow, Leaves
<1>8. CASE FailWindow(w)
  <2>1. DataKept
    BY <1>1, <1>8 DEF FailWindow, DataKept, Row
  <2> QED BY <1>2, <1>8, <2>1 DEF FailWindow, Leaves
<1>9. CASE Lost(w)
  BY <1>2, <1>3, <1>9 DEF Lost, Leaves
\* A run that moves to another step, with the same data.
<1>10. ASSUME NEW pc \in {"request", "fail", "complete"}
       PROVE  LET r == [run[w] EXCEPT !.pc = pc]
              IN  r \in Run /\ r.pc = pc /\ SameData(r, run[w])
                    /\ r.fetched = run[w].fetched
  BY <1>1 DEF Run, Holding, SameData
<1>11. CASE AcquireGate(w)
  <2>1. DataKept /\ run[w].pc \in Holding
    BY <1>1, <1>11 DEF AcquireGate, DataKept, Free, Reserved, Holding
  <2>2. CASE Free(nextAllowedAt, clock)
    <3> DEFINE r == [run[w] EXCEPT !.pc = "request"]
    <3>1. run' = [run EXCEPT ![w] = r] /\ nextAllowedAt' = Reserved(clock, Interval)
          /\ run[w].pc = "acquire"
      BY <1>11, <2>2 DEF AcquireGate
    <3>2. r \in Run /\ r.pc = "request" /\ SameData(r, run[w])
      BY <1>10
    <3> HIDE DEF r
    <3> QED BY <2>1, <2>2, <3>1, <3>2 DEF Carries
  <2>3. CASE ~Free(nextAllowedAt, clock)
    <3> DEFINE r == [run[w] EXCEPT !.pc = "fail"]
    <3>1. run' = [run EXCEPT ![w] = r]
      BY <1>11, <2>3 DEF AcquireGate
    <3>2. r \in Run /\ r.pc = "fail" /\ SameData(r, run[w])
      BY <1>10
    <3> HIDE DEF r
    <3> QED BY <2>1, <3>1, <3>2 DEF Carries
  <2> QED BY <2>2, <2>3
<1>12. CASE RequestFailed(w) \/ TooManyRequests(w) \/ BatchFailed(w)
  <2> DEFINE r == [run[w] EXCEPT !.pc = "fail"]
  <2>1. run' = [run EXCEPT ![w] = r] /\ run[w].pc \in Holding
    BY <1>12 DEF RequestFailed, TooManyRequests, BatchFailed, Holding
  <2>2. DataKept
    <3>1. CASE TooManyRequests(w)
      BY <1>1, <3>1 DEF TooManyRequests, DataKept, Deferred
    <3> QED BY <1>3, <1>12, <3>1 DEF RequestFailed, BatchFailed
  <2>3. r \in Run /\ r.pc = "fail" /\ SameData(r, run[w])
    BY <1>10
  <2> HIDE DEF r
  <2> QED BY <2>1, <2>2, <2>3 DEF Carries
<1>13. CASE StatementReceived(w)
  <2> DEFINE found == Statement(run[w].account, RunWindow(w), clock)
             r == [run[w] EXCEPT !.pc = "import", !.fetched = found]
  <2>1. found \in SUBSET Provider
    BY DEF Statement
  <2>2. r \in Run /\ r.pc = "import" /\ SameData(r, run[w]) /\ r.fetched = found
    <3> HIDE DEF found
    <3> QED BY <1>1, <2>1 DEF Run, Holding, SameData
  <2>3. /\ run' = [run EXCEPT ![w] = r] /\ run[w].pc = "request"
        /\ run[w].pc \in Holding
    BY <1>13 DEF StatementReceived, Holding
  <2>4. DataKept
    BY <1>3, <1>13 DEF StatementReceived
  <2> HIDE DEF r
  <2> QED BY <2>2, <2>3, <2>4 DEF Carries
<1>14. CASE ImportTransactions(w)
  <2> DEFINE r == [run[w] EXCEPT !.pc = "complete"]
  <2>1. /\ run' = [run EXCEPT ![w] = r] /\ run[w].pc = "import"
        /\ run[w].pc \in Holding /\ ledger' = ledger \cup run[w].fetched
    BY <1>14 DEF ImportTransactions, Holding
  <2>2. DataKept
    BY <1>1, <1>14 DEF ImportTransactions, DataKept
  <2>3. r \in Run /\ r.pc = "complete" /\ SameData(r, run[w])
        /\ r.fetched = run[w].fetched
    BY <1>10
  <2> HIDE DEF r
  <2> QED BY <2>1, <2>2, <2>3 DEF Carries
<1> QED BY <1>4, <1>5, <1>6, <1>7, <1>8, <1>9, <1>11, <1>12, <1>13, <1>14 DEF Step

-----------------------------------------------------------------------------
(* Positions *)

LEMMA PositionsInit == Init => Positions
BY DEF Init, Positions, Stored, RunPositions, FreshRow, IdleRun, BlankRun, Holding

\* A step that forgets no transaction keeps what the other runs and rows know.
LEMMA PositionsKept ==
    ASSUME TypeInvariant, Positions, NEW w \in Workers, NEW r \in Run,
           run' = [run EXCEPT ![w] = r], RunPositions(r, ledger'),
           ledger \subseteq ledger',
           \A a \in Accounts : \/ syncState'[a].last = syncState[a].last
                               \/ Stored(a, syncState'[a].last, ledger')
    PROVE  Positions'
<1>1. ASSUME NEW a, NEW time, Stored(a, time, ledger) PROVE Stored(a, time, ledger')
  BY <1>1 DEF Stored
<1>2. \A a \in Accounts : Stored(a, syncState'[a].last, ledger')
  BY <1>1 DEF Positions
<1>3. ASSUME NEW v \in Workers PROVE RunPositions(run'[v], ledger')
  <2>1. CASE v = w
    BY <2>1 DEF TypeInvariant
  <2>2. CASE v # w
    <3>1. run'[v] = run[v] /\ RunPositions(run[v], ledger)
      BY <2>2 DEF TypeInvariant, Positions
    <3> QED BY <1>1, <3>1 DEF RunPositions
  <2> QED BY <2>1, <2>2
<1> QED BY <1>2, <1>3 DEF Positions

LEMMA PositionsStep == Typing /\ Positions /\ [Next]_vars => Positions'
<1> SUFFICES ASSUME Typing, Positions, [Next]_vars PROVE Positions'
  OBVIOUS
<1>0. TypeInvariant
  BY DEF Typing
<1>1. CASE UNCHANGED <<syncState, ledger, run>>
  BY <1>1 DEF Positions, RunPositions, Stored
<1>2. ASSUME NEW w \in Workers, Step(w) PROVE Positions'
  <2>1. run[w] \in Run /\ RunPositions(run[w], ledger) /\ RunSound(run[w])
    BY <1>0 DEF TypeInvariant, Positions, Typing
  <2>2. ASSUME NEW a, NEW time, NEW rows, rows \subseteq ledger',
               Stored(a, time, rows)
        PROVE  Stored(a, time, ledger')
    BY <2>2 DEF Stored
  <2>3. CASE Leaves(w)
    <3>1. PICK r \in Run : /\ run' = [run EXCEPT ![w] = r]
                           /\ r.pc \in {"idle", "select"}
      BY <2>3 DEF Leaves
    <3>2. RunPositions(r, ledger')
      BY <3>1 DEF RunPositions, Holding
    <3> QED BY <1>0, <2>3, <3>1, <3>2, PositionsKept DEF Leaves, DataKept
  <2>4. CASE Carries(w)
    <3>1. PICK r \in Run :
            /\ run' = [run EXCEPT ![w] = r]
            /\ SameData(r, run[w])
            /\ r.pc \in {"request", "import", "complete", "fail"}
            /\ r.pc = "import" =>
                 r.fetched = Statement(run[w].account, RunWindow(w), clock)
            /\ r.pc = "complete" => /\ run[w].pc = "import"
                                    /\ r.fetched = run[w].fetched
                                    /\ ledger' = ledger \cup run[w].fetched
      BY <2>4 DEF Carries
    <3>2. DataKept /\ run[w].pc \in Holding
      BY <2>4 DEF Carries
    <3>3. Stored(r.account, r.last, ledger')
      BY <2>1, <2>2, <3>1, <3>2 DEF RunPositions, SameData, DataKept
    <3>4. r.pc = "import" => \A t \in r.fetched : t.account = r.account
      BY <3>1 DEF Statement, SameData
    <3>5. r.pc = "complete" => /\ \A t \in r.fetched : t.account = r.account
                               /\ r.fetched \subseteq ledger'
      BY <2>1, <3>1 DEF RunPositions, SameData
    <3>6. RunPositions(r, ledger')
      BY <3>3, <3>4, <3>5 DEF RunPositions
    <3> QED BY <1>0, <3>1, <3>2, <3>6, PositionsKept DEF DataKept
  <2>5. CASE Reads(w)
    <3>1. PICK r \in Run, a \in Candidates(run[w].now) :
            /\ run' = [run EXCEPT ![w] = r]
            /\ r.pc = "claim" /\ r.account = a
            /\ r.last = syncState[a].last
      BY <2>5 DEF Reads
    <3>2. a \in Accounts
      BY <1>0 DEF Candidates, TypeInvariant
    <3>3. RunPositions(r, ledger')
      BY <2>2, <2>5, <3>1, <3>2 DEF Reads, DataKept, Positions, RunPositions
    <3> QED BY <1>0, <2>5, <3>1, <3>3, PositionsKept DEF Reads, DataKept
  <2>6. CASE ClaimNext(w)
    <3>1. run'[w] \in Run /\ run' = [run EXCEPT ![w] = run'[w]]
      <4>1. Typing'
        BY TypingStep, <1>2 DEF Next
      <4> QED BY <1>0, <2>6, <4>1 DEF Typing, TypeInvariant, ClaimNext
    <3>2. /\ run'[w].account = run[w].account /\ run'[w].last = run[w].last
          /\ run'[w].pc \in {"empty", "acquire"} /\ run[w].pc = "claim"
      BY <1>0, <2>1, <2>6 DEF ClaimNext, TypeInvariant, Run
    <3>3. ledger' = ledger
      BY <2>6 DEF ClaimNext
    <3>4. RunPositions(run'[w], ledger')
      BY <2>1, <3>2, <3>3 DEF RunPositions
    <3>5. \A a \in Accounts : syncState'[a].last = syncState[a].last
      BY <1>0, <2>6 DEF ClaimNext, TypeInvariant, Row
    <3> QED BY <1>0, <3>1, <3>3, <3>4, <3>5, PositionsKept
  <2>7. CASE CompleteWindow(w)
    <3> DEFINE a == run[w].account
    <3>1. /\ run[w].pc = "complete" /\ ledger' = ledger
          /\ run[w].fetched \subseteq ledger
          /\ \A t \in run[w].fetched : t.account = a
          /\ Stored(a, run[w].last, ledger)
      BY <2>1, <2>7 DEF CompleteWindow, RunPositions, Holding
    <3>2. PICK s \in {IdleRun, [run[w] EXCEPT !.pc = "fail"]} :
            run' = [run EXCEPT ![w] = s]
      BY <2>7 DEF CompleteWindow
    <3>3. s \in Run /\ RunPositions(s, ledger')
      <4>1. CASE s = IdleRun
        BY <4>1, IdleRunSound DEF RunPositions, IdleRun, BlankRun, Holding
      <4>2. CASE s = [run[w] EXCEPT !.pc = "fail"]
        <5>1. s \in Run
          BY <3>1, <4>2, RunAt DEF Holding
        <5>2. s.pc = "fail" /\ s.account = a /\ s.last = run[w].last
          BY <2>1, <4>2 DEF Run
        <5> QED BY <3>1, <5>1, <5>2 DEF RunPositions
      <4> QED BY <3>2, <4>1, <4>2
    <3>4. PICK last \in MaximumTimestamp(run[w].last, run[w].fetched) :
            syncState' = [syncState EXCEPT ![a] =
                            [@ EXCEPT !.status = "idle", !.lease = Null,
                                      !.cursor = RunWindow(w).from,
                                      !.last = last]]
      BY <2>7 DEF CompleteWindow
    <3>5. Stored(a, last, ledger)
      BY <3>1 DEF MaximumTimestamp, Times, Stored
    <3>6. a \in Accounts
      BY <2>1, <3>1 DEF RunSound, Holding
    <3>7. ASSUME NEW b \in Accounts
          PROVE  \/ syncState'[b].last = syncState[b].last
                 \/ Stored(b, syncState'[b].last, ledger')
      <4>1. CASE b # a
        BY <1>0, <3>4, <4>1 DEF TypeInvariant
      <4>2. CASE b = a
        <5>1. syncState'[b].last = last
          BY <1>0, <3>4, <3>6, <4>2 DEF TypeInvariant, Row
        <5> QED BY <3>1, <3>5, <4>2, <5>1
      <4> QED BY <4>1, <4>2
    <3> QED BY <1>0, <3>1, <3>2, <3>3, <3>7, PositionsKept
  <2> QED BY <1>2, <2>3, <2>4, <2>5, <2>6, <2>7, StepKinds
<1> QED BY <1>1, <1>2 DEF Next, Tick, ReplaceAccounts, vars, database

-----------------------------------------------------------------------------
(* What is asked of the bank *)

LEMMA StartsInit == Init => Starts
BY DEF Init, Starts, RunStarts, FreshRow, IdleRun, BlankRun

\* No run lives long enough to read a start of its own future.
LEMMA StartsStep ==
    MaxRun <= HistorySpan /\ Typing /\ LeaseHeld /\ Starts /\ [Next]_vars => Starts'
<1> SUFFICES ASSUME MaxRun <= HistorySpan, Typing, LeaseHeld, Starts, [Next]_vars
             PROVE  Starts'
  OBVIOUS
<1>0. TypeInvariant /\ clock \in Nat
  BY DEF Typing, TypeInvariant, Time
<1>1. CASE UNCHANGED <<clock, syncState, run>>
  BY <1>1 DEF Starts, RunStarts
<1>2. CASE Tick
  BY <1>0, <1>2 DEF Tick, database, Starts, RunStarts, TypeInvariant, Row, TimeOrNull
\* A step that gives one isolate such a run and no row a later start.
<1>3. ASSUME NEW w \in Workers, NEW r, run' = [run EXCEPT ![w] = r], RunStarts(r),
             clock' = clock,
             \A a \in Accounts : \/ syncState'[a].start = syncState[a].start
                                 \/ syncState'[a].start + HistorySpan <= clock
      PROVE  Starts'
  BY <1>0, <1>3 DEF TypeInvariant, Starts, RunStarts
<1>4. ASSUME NEW w \in Workers, Step(w) PROVE Starts'
  <2>1. run[w] \in Run /\ RunStarts(run[w])
    BY <1>0 DEF TypeInvariant, Starts
  <2>2. CASE Leaves(w)
    <3>1. PICK r \in Run : run' = [run EXCEPT ![w] = r] /\ r.start = Null
      BY <2>2 DEF Leaves
    <3> QED BY <1>3, <2>2, <3>1 DEF Leaves, DataKept, RunStarts
  <2>3. CASE Carries(w)
    <3>1. PICK r \in Run : run' = [run EXCEPT ![w] = r] /\ SameData(r, run[w])
      BY <2>3 DEF Carries
    <3>2. RunStarts(r)
      BY <2>1, <2>3, <3>1 DEF Carries, SameData, RunStarts, Holding
    <3> QED BY <1>3, <2>3, <3>1, <3>2 DEF Carries, DataKept
  <2>4. CASE Reads(w)
    <3>1. PICK r \in Run, a \in Candidates(run[w].now) :
            /\ run' = [run EXCEPT ![w] = r]
            /\ r.now = run[w].now /\ r.start = syncState[a].start
      BY <2>4 DEF Reads
    <3>2. a \in Accounts /\ syncState[a] \in Row
      BY <1>0 DEF Candidates, TypeInvariant
    <3>3. syncState[a].start # Null => syncState[a].start + HistorySpan <= clock
      BY <3>2 DEF Starts
    <3>4. clock <= run[w].now + MaxRun
      BY <2>4 DEF Reads, LeaseHeld
    <3>5. RunStarts(r)
      BY <1>0, <2>1, <3>1, <3>2, <3>3, <3>4
      DEF RunStarts, Row, Run, Time, TimeOrNull
    <3> QED BY <1>3, <2>4, <3>1, <3>5 DEF Reads, DataKept
  <2>5. CASE ClaimNext(w)
    <3> DEFINE a == run[w].account
               now == run[w].now
               start == StartOr(run[w].start, now)
               stored == StartOr(syncState[a].start, now)
    <3>1. /\ a \in Accounts /\ syncState[a] \in Row /\ run[w].pc = "claim"
          /\ now \in Nat /\ HistorySpan <= now /\ now <= clock
      BY <1>0, <2>1, <2>5 DEF ClaimNext, Typing, TypeInvariant, RunSound, Run, Time
    <3>2. start <= now
      BY <2>1, <3>1 DEF StartOr, RunStarts
    <3>3. stored + HistorySpan <= clock
      <4>1. syncState[a].start # Null => syncState[a].start + HistorySpan <= clock
        BY <3>1 DEF Starts
      <4>2. now - HistorySpan + HistorySpan <= clock
        BY <1>0, <3>1
      <4> QED BY <4>1, <4>2 DEF StartOr
    <3> HIDE DEF start, stored
    <3>4. \A b \in Accounts : \/ syncState'[b].start = syncState[b].start
                              \/ syncState'[b].start = stored
      BY <1>0, <2>5, <3>1 DEF ClaimNext, TypeInvariant, Row, start, stored
    <3> DEFINE next == IF NextWindow(run[w].cursor, start, run[w].last, now) = Null
                       THEN "empty" ELSE "acquire"
               r == [run[w] EXCEPT !.pc = next, !.start = start]
    <3>5. run' = [run EXCEPT ![w] = r] /\ r.now = now /\ r.start = start
      <4>1. run' = [run EXCEPT ![w] = r]
        BY <2>5 DEF ClaimNext, start
      <4> HIDE DEF next
      <4> QED BY <2>1, <4>1 DEF Run
    <3> HIDE DEF r
    <3>6. RunStarts(r) /\ clock' = clock
      BY <2>5, <3>2, <3>5 DEF RunStarts, ClaimNext
    <3> QED BY <1>3, <3>3, <3>4, <3>5, <3>6
  <2>6. CASE CompleteWindow(w)
    <3>1. PICK s \in {IdleRun, [run[w] EXCEPT !.pc = "fail"]} :
            run' = [run EXCEPT ![w] = s]
      BY <2>6 DEF CompleteWindow
    <3>2. RunStarts(s)
      BY <2>1, <2>6, <3>1 DEF CompleteWindow, RunStarts, IdleRun, BlankRun, Run
    <3>3. \A b \in Accounts : syncState'[b].start = syncState[b].start
      BY <1>0, <2>6 DEF CompleteWindow, TypeInvariant, Row
    <3>4. clock' = clock
      BY <2>6 DEF CompleteWindow
    <3> QED BY <1>3, <3>1, <3>2, <3>3, <3>4
  <2> QED BY <1>4, <2>2, <2>3, <2>4, <2>5, <2>6, StepKinds DEF Typing
<1> QED BY <1>1, <1>2, <1>4 DEF Next, ReplaceAccounts, vars

\* A window is no longer than the bank allows, and it is in order when the run
\* was started after the backfill's start.
LEMMA NextWindowBounds ==
    ASSUME NEW cursor \in TimeOrNull, NEW start \in Nat, NEW last \in TimeOrNull,
           NEW now \in Nat, start <= now,
           NextWindow(cursor, start, last, now) # Null
    PROVE  LET window == NextWindow(cursor, start, last, now)
           IN  0 <= window.from /\ window.from <= window.to
                 /\ window.to - window.from <= MaxWindow
<1>1. CASE cursor = Null
  BY <1>1 DEF NextWindow, HistoricalWindow, Larger, TimeOrNull
<1>2. CASE cursor # Null /\ cursor > start
  BY <1>2 DEF NextWindow, HistoricalWindow, Larger, TimeOrNull
<1>3. CASE cursor # Null /\ ~(cursor > start)
  BY <1>3 DEF NextWindow, IncrementalWindow, Larger, TimeOrNull
<1> QED BY <1>1, <1>2, <1>3

LEMMA StartsAccept == Typing /\ Starts => RequestAcceptable
<1> SUFFICES ASSUME Typing, Starts, NEW w \in Workers, run[w].pc = "request"
             PROVE  /\ 0 <= RunWindow(w).from
                    /\ RunWindow(w).from <= RunWindow(w).to
                    /\ RunWindow(w).to - RunWindow(w).from <= MaxWindow
                    /\ RunWindow(w).to <= clock
  BY DEF RequestAcceptable
<1>1. run[w] \in Run /\ run[w].start \in Nat /\ RunWindow(w) # Null
  BY DEF Typing, TypeInvariant, RunSound, Run, Holding, TimeOrNull, WindowOf, RunWindow
<1>2. run[w].start <= run[w].now
  BY <1>1 DEF Starts, RunStarts
<1>3. RunWindow(w).to <= clock
  BY RunWindowType
<1> QED BY <1>1, <1>2, <1>3, NextWindowBounds DEF RunWindow, Run, Time

-----------------------------------------------------------------------------
(* The cursor *)

\* A run is over before the bank takes the next request.
RunsAreShort == MaxRun < Interval

LEMMA SnapshotsInit == Init => Snapshots
BY DEF Init, Snapshots, IdleRun, BlankRun

LEMMA SnapshotsStep ==
    RunsEndInTime /\ RunsAreShort /\ Typing /\ LeaseHeld /\ LeaseExclusion /\ Snapshots
      /\ [Next]_vars => Snapshots'
<1> SUFFICES ASSUME RunsEndInTime, RunsAreShort, Typing, LeaseHeld, LeaseExclusion,
                    Snapshots, [Next]_vars
             PROVE  Snapshots'
  OBVIOUS
<1>0. /\ TypeInvariant /\ clock \in Nat /\ nextAllowedAt \in Nat
      /\ \A w \in Workers : run[w] \in Run /\ run[w].now \in Nat
  BY DEF Typing, TypeInvariant, Run, Time
<1>1. CASE UNCHANGED <<syncState, nextAllowedAt, run>>
  BY <1>1 DEF Snapshots, Overtaken
<1>2. ASSUME NEW w \in Workers, Step(w) PROVE Snapshots'
  <2>0. nextAllowedAt <= nextAllowedAt' /\ nextAllowedAt' \in Nat
    <3>1. Typing'
      BY TypingStep, <1>2 DEF Next
    <3>2. nextAllowedAt' \in Nat
      BY <3>1 DEF Typing, TypeInvariant, Time
    <3>3. nextAllowedAt <= nextAllowedAt'
      <4>1. CASE ClaimNext(w) \/ CompleteWindow(w)
        <5>1. nextAllowedAt' = nextAllowedAt
          BY <4>1 DEF ClaimNext, CompleteWindow
        <5> QED BY <1>0, <5>1
      <4>2. CASE Leaves(w) \/ Carries(w) \/ Reads(w)
        BY <4>2 DEF Leaves, Carries, Reads, DataKept
      <4> QED BY <1>2, <4>1, <4>2, StepKinds
    <3> QED BY <3>2, <3>3
  \* What each kind of step has to show of the run it is a step of, and of the
  \* others.
  <2>1. ASSUME NEW r, run' = [run EXCEPT ![w] = r],
               \A v \in Workers : v # w /\ run[v].pc = "claim" =>
                 \/ syncState'[run[v].account].cursor = syncState[run[v].account].cursor
                 \/ Overtaken(v),
               \A v \in Workers :
                 v # w /\ run[v].pc \in {"acquire", "request", "import", "complete"} =>
                   syncState'[run[v].account].cursor = syncState[run[v].account].cursor,
               r.pc \in {"claim", "acquire"} =>
                 \/ r.cursor = syncState'[r.account].cursor
                 \/ r.now + MaxRun < nextAllowedAt',
               r.pc \in {"request", "import", "complete"} =>
                 r.cursor = syncState'[r.account].cursor,
               r.pc = "claim" => \A v \in Workers :
                 v # w /\ run[v].pc \in {"request", "import", "complete"}
                   => run[v].account # r.account,
               r.pc \in {"request", "import", "complete"} => \A v \in Workers :
                 v # w /\ run[v].pc = "claim" /\ run[v].account = r.account =>
                   run[v].now + MaxRun < nextAllowedAt'
        PROVE  Snapshots'
    <3>1. run'[w] = r /\ \A v \in Workers : v # w => run'[v] = run[v]
      BY <1>0, <2>1 DEF TypeInvariant
    <3>2. \A v \in Workers : v # w /\ Overtaken(v) => Overtaken(v)'
      BY <1>0, <2>0, <3>1 DEF Overtaken
    <3>3. ASSUME NEW v \in Workers, run'[v].pc \in {"claim", "acquire"}
          PROVE  \/ run'[v].cursor = syncState'[run'[v].account].cursor
                 \/ Overtaken(v)'
      <4>1. CASE v = w
        BY <2>1, <3>1, <3>3, <4>1 DEF Overtaken
      <4>2. CASE v # w
        BY <2>1, <3>1, <3>2, <3>3, <4>2 DEF Snapshots
      <4> QED BY <4>1, <4>2
    <3>4. ASSUME NEW v \in Workers, run'[v].pc \in {"request", "import", "complete"}
          PROVE  run'[v].cursor = syncState'[run'[v].account].cursor
      <4>1. CASE v = w
        BY <2>1, <3>1, <3>4, <4>1
      <4>2. CASE v # w
        BY <2>1, <3>1, <3>4, <4>2 DEF Snapshots
      <4> QED BY <4>1, <4>2
    <3>5. ASSUME NEW v \in Workers, NEW u \in Workers, run'[v].pc = "claim",
                 run'[u].pc \in {"request", "import", "complete"},
                 run'[u].account = run'[v].account
          PROVE  Overtaken(v)'
      <4>1. CASE v = w
        BY <2>1, <3>1, <3>5, <4>1
      <4>2. CASE v # w /\ u = w
        BY <2>1, <3>1, <3>5, <4>2 DEF Overtaken
      <4>3. CASE v # w /\ u # w
        BY <3>1, <3>2, <3>5, <4>3 DEF Snapshots
      <4> QED BY <4>1, <4>2, <4>3
    <3> QED BY <3>3, <3>4, <3>5 DEF Snapshots
  <2>2. run[w] \in Run /\ RunSound(run[w])
    BY <1>0 DEF Typing
  <2>3. \A v \in Workers : run[v].pc = "claim" \/ run[v].pc \in Holding
                             => run[v].account \in Accounts
    BY DEF Typing, RunSound
  <2>4. ASSUME \A a \in Accounts : syncState'[a].cursor = syncState[a].cursor,
               NEW r, run' = [run EXCEPT ![w] = r],
               ~(r.pc \in {"claim", "acquire", "request", "import", "complete"})
        PROVE  Snapshots'
    BY <2>1, <2>3, <2>4 DEF Holding
  <2>5. CASE Leaves(w)
    BY <2>4, <2>5 DEF Leaves, DataKept
  <2>6. CASE Carries(w)
    <3>1. PICK r \in Run :
            /\ run' = [run EXCEPT ![w] = r]
            /\ SameData(r, run[w])
            /\ r.pc \in {"request", "import", "complete", "fail"}
            /\ r.pc = "request" => /\ run[w].pc = "acquire"
                                   /\ Free(nextAllowedAt, clock)
                                   /\ nextAllowedAt' = Reserved(clock, Interval)
            /\ r.pc = "import" => run[w].pc = "request"
            /\ r.pc = "complete" => run[w].pc = "import"
      BY <2>6 DEF Carries
    <3>2. /\ run[w].pc \in Holding /\ clock <= run[w].now + MaxRun
          /\ run[w].account \in Accounts
          /\ \A a \in Accounts : syncState'[a].cursor = syncState[a].cursor
      BY <2>3, <2>6 DEF Carries, DataKept, LeaseHeld, Holding
    <3>3. r.cursor = run[w].cursor /\ r.account = run[w].account
      BY <3>1 DEF SameData
    <3>4. r.pc \in {"request", "import", "complete"} =>
            r.cursor = syncState'[r.account].cursor
      <4>1. CASE r.pc = "request"
        <5>1. ~Overtaken(w)
          BY <1>0, <3>1, <3>2, <4>1 DEF Free, Overtaken
        <5>2. run[w].cursor = syncState[run[w].account].cursor
          BY <3>1, <4>1, <5>1 DEF Snapshots
        <5> QED BY <3>2, <3>3, <5>2
      <4>2. CASE r.pc \in {"import", "complete"}
        BY <3>1, <3>2, <3>3, <4>2 DEF Snapshots
      <4> QED BY <4>1, <4>2
    <3>5. ASSUME r.pc \in {"request", "import", "complete"}, NEW v \in Workers,
                 v # w, run[v].pc = "claim", run[v].account = r.account
          PROVE  run[v].now + MaxRun < nextAllowedAt'
      <4>1. CASE r.pc = "request"
        <5>1. run[v].now <= clock
          BY <3>5 DEF Typing, RunSound
        <5> QED BY <1>0, <3>1, <4>1, <5>1 DEF Reserved, RunsAreShort
      <4>2. CASE r.pc \in {"import", "complete"}
        <5>1. Overtaken(v)
          BY <3>1, <3>3, <3>5, <4>2 DEF Snapshots
        <5> QED BY <1>0, <2>0, <5>1 DEF Overtaken
      <4> QED BY <3>5, <4>1, <4>2
    <3> QED BY <2>1, <2>3, <3>1, <3>2, <3>4, <3>5 DEF Holding
  <2>7. CASE Reads(w)
    <3>1. PICK r \in Run, a \in Candidates(run[w].now) :
            /\ run' = [run EXCEPT ![w] = r]
            /\ r.pc = "claim" /\ r.now = run[w].now /\ r.account = a
            /\ r.cursor = syncState[a].cursor
      BY <2>7 DEF Reads
    <3>2. /\ a \in Accounts /\ ~Leased(a, run[w].now) /\ run[w].pc = "select"
          /\ \A b \in Accounts : syncState'[b].cursor = syncState[b].cursor
      BY <1>0, <2>7 DEF Candidates, TypeInvariant, Reads, DataKept
    <3>3. run[w].now <= clock
      BY <2>2, <3>2 DEF RunSound
    <3>4. ASSUME NEW v \in Workers, run[v].pc \in Holding PROVE run[v].account # a
      <4>1. /\ clock <= run[v].now + MaxRun
            /\ syncState[run[v].account].lease = run[v].now + Lease
        BY <3>4 DEF LeaseHeld, Holding
      <4>2. run[v].now + Lease > run[w].now /\ run[v].now + Lease \in Int
        BY <1>0, <3>3, <4>1 DEF RunsEndInTime
      <4> QED BY <3>2, <4>1, <4>2 DEF Leased
    <3> QED BY <2>1, <2>3, <3>1, <3>2, <3>4 DEF Holding
  <2>8. CASE ClaimNext(w)
    <3>1. \A b \in Accounts : syncState'[b].cursor = syncState[b].cursor
      BY <1>0, <2>8 DEF ClaimNext, TypeInvariant, Row
    <3>2. /\ run[w].pc = "claim" /\ run[w].account \in Accounts
          /\ nextAllowedAt' = nextAllowedAt
      BY <2>3, <2>8 DEF ClaimNext
    <3>3. PICK r : /\ run' = [run EXCEPT ![w] = r] /\ r.pc \in {"empty", "acquire"}
                   /\ r.cursor = run[w].cursor /\ r.account = run[w].account
                   /\ r.now = run[w].now
      <4> DEFINE start == StartOr(run[w].start, run[w].now)
                 next == IF NextWindow(run[w].cursor, start, run[w].last, run[w].now) = Null
                         THEN "empty" ELSE "acquire"
                 r == [run[w] EXCEPT !.pc = next, !.start = start]
      <4>1. run' = [run EXCEPT ![w] = r]
        BY <2>8 DEF ClaimNext
      <4>2. next \in {"empty", "acquire"}
        OBVIOUS
      <4> HIDE DEF next, start
      <4>3. r.pc \in {"empty", "acquire"} /\ r.cursor = run[w].cursor
            /\ r.account = run[w].account /\ r.now = run[w].now
        BY <2>2, <4>2 DEF Run
      <4> HIDE DEF r
      <4> QED BY <4>1, <4>3
    <3>4. run[w].cursor = syncState[run[w].account].cursor \/ Overtaken(w)
      BY <3>2 DEF Snapshots
    <3>5. r.pc = "acquire" => \/ r.cursor = syncState'[r.account].cursor
                              \/ r.now + MaxRun < nextAllowedAt'
      BY <3>1, <3>2, <3>3, <3>4 DEF Overtaken
    <3> QED BY <2>1, <2>3, <3>1, <3>3, <3>5 DEF Holding
  <2>9. CASE CompleteWindow(w)
    <3> DEFINE a == run[w].account
    <3>1. run[w].pc = "complete" /\ a \in Accounts
      BY <2>3, <2>9 DEF CompleteWindow, Holding
    <3>2. PICK r : run' = [run EXCEPT ![w] = r] /\ r.pc \in {"idle", "fail"}
      <4>1. IdleRun.pc = "idle" /\ [run[w] EXCEPT !.pc = "fail"].pc = "fail"
        BY <2>2 DEF IdleRun, BlankRun, Run
      <4>2. \E r \in {IdleRun, [run[w] EXCEPT !.pc = "fail"]} :
              run' = [run EXCEPT ![w] = r]
        BY <2>9 DEF CompleteWindow
      <4> QED BY <4>1, <4>2
    <3>3. \A b \in Accounts : b # a => syncState'[b] = syncState[b]
      BY <1>0, <2>9 DEF CompleteWindow, TypeInvariant
    <3>4. \A v \in Workers : v # w /\ run[v].pc \in Holding => run[v].account # a
      BY <3>1 DEF LeaseExclusion, Holding
    <3>5. \A v \in Workers : run[v].pc = "claim" /\ run[v].account = a => Overtaken(v)
      BY <3>1 DEF Snapshots
    <3> HIDE DEF a
    <3> QED BY <2>1, <2>3, <3>2, <3>3, <3>4, <3>5 DEF Holding
  <2> QED BY <1>2, <2>5, <2>6, <2>7, <2>8, <2>9, StepKinds DEF Typing
<1> QED BY <1>1, <1>2 DEF Next, Tick, ReplaceAccounts, vars, database

LEMMA CursorsInit == Init => Cursors
BY DEF Init, Cursors, CoveredFromCursor, FreshRow

\* A window ends at the cursor it starts from, or begins after it.
LEMMA NextWindowMeets ==
    ASSUME NEW cursor \in Nat, NEW start \in Nat,
           NEW last \in TimeOrNull, NEW now \in Nat,
           NextWindow(cursor, start, last, now) # Null
    PROVE  \/ NextWindow(cursor, start, last, now).to = cursor
           \/ cursor <= NextWindow(cursor, start, last, now).from
<1>1. CASE cursor > start
  BY <1>1 DEF NextWindow, HistoricalWindow
<1>2. CASE ~(cursor > start)
  <2>1. NextWindow(cursor, start, last, now).from >= start
    BY NextWindowType DEF TimeOrNull
  <2>2. NextWindow(cursor, start, last, now).from \in Int
    BY NextWindowType DEF Window, TimeOrNull
  <2> QED BY <1>2, <2>1, <2>2
<1> QED BY <1>1, <1>2

LEMMA CursorsStep ==
    Typing /\ Evidence /\ Snapshots /\ Cursors /\ [Next]_vars => Cursors'
<1> SUFFICES ASSUME Typing, Evidence, Snapshots, Cursors, [Next]_vars PROVE Cursors'
  OBVIOUS
<1>0. TypeInvariant
  BY DEF Typing
\* A step that records no window and moves no cursor.
<1>1. ASSUME windows' = windows, ledger \subseteq ledger',
             \A a \in Accounts : syncState'[a].cursor = syncState[a].cursor
      PROVE  Cursors'
  BY <1>1 DEF Cursors, CoveredFromCursor
<1>2. ASSUME NEW w \in Workers, Step(w) PROVE Cursors'
  <2>1. CASE Leaves(w) \/ Carries(w) \/ Reads(w)
    BY <1>1, <2>1 DEF Leaves, Carries, Reads, DataKept
  <2>2. CASE ClaimNext(w)
    <3>1. \A a \in Accounts : syncState'[a].cursor = syncState[a].cursor
      BY <1>0, <2>2 DEF ClaimNext, TypeInvariant, Row
    <3>2. windows' = windows /\ ledger' = ledger
      BY <2>2 DEF ClaimNext
    <3> QED BY <1>1, <3>1, <3>2
  <2>3. CASE CompleteWindow(w)
    <3> DEFINE a == run[w].account
               new == RunWindow(w)
    <3>1. /\ run[w] \in Run /\ run[w].pc = "complete" /\ a \in Accounts
          /\ run[w].start \in Nat /\ new # Null /\ new \in Window
      BY <1>0, <2>3, RunWindowType
      DEF CompleteWindow, Typing, TypeInvariant, RunSound, Run, Holding, TimeOrNull,
          WindowOf, RunWindow
    <3>2. /\ ledger' = ledger
          /\ windows' = [windows EXCEPT ![a] = @ \cup {new}]
      BY <2>3 DEF CompleteWindow
    <3>3. /\ syncState'[a].cursor = new.from
          /\ \A b \in Accounts : b # a => syncState'[b] = syncState[b]
      BY <1>0, <2>3, <3>1 DEF CompleteWindow, TypeInvariant, Row
    <3>4. \A t \in Provider : t.account = a /\ Within(t, new) => t \in ledger
      BY <3>1 DEF Evidence, RunEvidence, RunWindow, WindowOf
    <3>5. run[w].cursor = syncState[a].cursor
      BY <3>1 DEF Snapshots
    <3>6. run[w].cursor # Null => new.to = run[w].cursor \/ run[w].cursor <= new.from
      BY <3>1, NextWindowMeets DEF RunWindow, Run, Time, TimeOrNull
    <3>7. run[w].cursor = Null \/ run[w].cursor \in Nat
      BY <3>1 DEF Run, TimeOrNull
    <3> HIDE DEF a, new
    <3>8. ASSUME NEW window \in windows'[a], NEW t \in Provider,
                 t.account = a, new.from <= t.at, t.at <= window.to
          PROVE  t \in ledger
      <4>1. t.at \in Nat /\ new.from \in Int /\ new.to \in Int
        BY <3>1 DEF Window
      <4>2. CASE t.at <= new.to
        BY <3>4, <3>8, <4>2 DEF Within
      <4>3. CASE ~(t.at <= new.to)
        <5>1. window \in windows[a]
          BY <1>0, <3>1, <3>2, <3>8, <4>3 DEF TypeInvariant
        <5>2. syncState[a].cursor # Null
          BY <3>1, <5>1 DEF Cursors
        <5>3. syncState[a].cursor <= t.at
          BY <3>5, <3>6, <3>7, <3>8, <4>1, <4>3, <5>2
        <5> QED BY <3>1, <3>8, <5>1, <5>2, <5>3 DEF Cursors, CoveredFromCursor
      <4> QED BY <4>2, <4>3
    <3>9. syncState'[a].cursor # Null
      BY <3>1, <3>3 DEF Window
    <3>10. ASSUME NEW b \in Accounts, b # a
           PROVE  /\ windows'[b] = windows[b] /\ syncState'[b] = syncState[b]
      BY <1>0, <3>2, <3>3, <3>10 DEF TypeInvariant
    <3>11. ASSUME NEW b \in Accounts
           PROVE  /\ syncState'[b].cursor = Null => windows'[b] = {}
                  /\ CoveredFromCursor(b)'
      <4>1. CASE b = a
        BY <3>2, <3>3, <3>8, <3>9, <4>1 DEF CoveredFromCursor
      <4>2. CASE b # a
        BY <3>2, <3>10, <4>2 DEF Cursors, CoveredFromCursor
      <4> QED BY <4>1, <4>2
    <3> QED BY <3>11 DEF Cursors
  <2> QED BY <1>2, <2>1, <2>2, <2>3, StepKinds DEF Typing
<1> QED BY <1>1, <1>2 DEF Next, Tick, ReplaceAccounts, vars, database

-----------------------------------------------------------------------------
(* Theorems *)

\* Rows and runs always have the types their declarations give them.
THEOREM TypeCorrect == Spec => []TypeInvariant
<1>1. Init => Typing
  BY TypingInit
<1>2. Typing /\ [Next]_vars => Typing'
  BY TypingStep
<1>3. Typing => TypeInvariant
  BY DEF Typing
<1> QED BY <1>1, <1>2, <1>3, PTL DEF Spec

\* Recorded windows are evidence of import, with any number of isolates, runs of
\* any length, lost runs, lost replies and failed batches.
THEOREM CoverageIsTruthful == Spec => []CoverageTruthful
<1>1. Init => Typing /\ Evidence
  BY TypingInit, EvidenceInit
<1>2. Typing /\ Evidence /\ [Next]_vars => (Typing /\ Evidence)'
  BY TypingStep, EvidenceStep
<1>3. Evidence => CoverageTruthful
  BY DEF Evidence
<1> QED BY <1>1, <1>2, <1>3, PTL DEF Spec

\* The lease excludes concurrent runs of an account when runs end before their
\* leases do and no reply is lost.
THEOREM LeaseExcludes ==
    ASSUME RunsEndInTime PROVE Spec => []LeaseExclusion
<1>1. Init => Typing /\ LeaseHeld /\ LeaseExclusion
  BY TypingInit, LeaseInit
<1>2. Typing /\ LeaseHeld /\ LeaseExclusion /\ [Next]_vars
        => (Typing /\ LeaseHeld /\ LeaseExclusion)'
  BY TypingStep, LeaseStep
<1> QED BY <1>1, <1>2, PTL DEF Spec
\* The incremental position of an account is the time of an imported transaction,
\* whatever runs were lost, failed or overtaken.
THEOREM PositionsAreImported == Spec => []PositionImported
<1>1. Init => Typing /\ Positions
  BY TypingInit, PositionsInit
<1>2. Typing /\ Positions /\ [Next]_vars => (Typing /\ Positions)'
  BY TypingStep, PositionsStep
<1>3. Positions => PositionImported
  BY DEF Positions, Stored, PositionImported
<1> QED BY <1>1, <1>2, <1>3, PTL DEF Spec

\* Under the three conditions the constants of the code satisfy, the cursor of an
\* account tells what is covered, every request is one the bank accepts, and the
\* position is imported.
THEOREM SyncIsSound ==
    ASSUME RunsEndInTime, RunsAreShort, MaxRun <= HistorySpan
    PROVE  Spec => []SyncInvariant
<1> DEFINE Sound == /\ Typing /\ Evidence /\ LeaseHeld /\ LeaseExclusion
                    /\ Positions /\ Starts /\ Snapshots /\ Cursors
<1>1. Init => Sound
  BY TypingInit, EvidenceInit, LeaseInit, PositionsInit, StartsInit, SnapshotsInit,
     CursorsInit
<1>2. Sound /\ [Next]_vars => Sound'
  <2> SUFFICES ASSUME Sound, [Next]_vars PROVE Sound'
    OBVIOUS
  <2>1. Typing' /\ Evidence' /\ Positions'
    BY TypingStep, EvidenceStep, PositionsStep
  <2>2. LeaseHeld' /\ LeaseExclusion'
    BY LeaseStep
  <2>3. Starts'
    BY StartsStep
  <2>4. Snapshots'
    BY SnapshotsStep
  <2>5. Cursors'
    BY CursorsStep
  <2> QED BY <2>1, <2>2, <2>3, <2>4, <2>5
<1>3. Sound => SyncInvariant
  <2>1. Typing => TypeInvariant
    BY DEF Typing
  <2>2. Cursors => CursorCoverage
    BY DEF Cursors, CoveredFromCursor, CursorCoverage
  <2>3. Positions => PositionImported
    BY DEF Positions, Stored, PositionImported
  <2>4. Evidence => CoverageTruthful
    BY DEF Evidence
  <2> QED BY <2>1, <2>2, <2>3, <2>4, StartsAccept DEF SyncInvariant
<1> HIDE DEF Sound
<1> QED BY <1>1, <1>2, <1>3, PTL DEF Spec

-----------------------------------------------------------------------------
(* One careful importer *)

\* A run about to import holds a whole statement of what had happened by then.
WholeStatement(r, time) ==
    r.pc = "import" =>
        /\ \A t \in r.fetched : t.account = r.account /\ t.at <= time
        /\ Imports!WithoutHole(r.account, r.fetched)

Statements == \A w \in Workers : WholeStatement(run[w], clock)

\* The bank's statement of a window is whole.
LEMMA StatementIsWhole ==
    ASSUME NEW a, NEW window \in Window, NEW time \in Nat
    PROVE  /\ \A t \in Statement(a, window, time) : t.account = a /\ t.at <= time
           /\ Imports!WithoutHole(a, Statement(a, window, time))
<1>1. \A t \in Provider : t.at \in Nat
  OBVIOUS
<1>2. ASSUME NEW s \in Statement(a, window, time), NEW u \in Statement(a, window, time),
             NEW t \in Provider, t.account = a, s.at <= t.at, t.at <= u.at
      PROVE  t \in Statement(a, window, time)
  BY <1>1, <1>2 DEF Statement, Within, Window
<1>3. Imports!WithoutHole(a, Statement(a, window, time))
  BY <1>2 DEF Imports!WithoutHole, Imports!In, Imports!Of
<1>4. \A t \in Statement(a, window, time) : t.account = a /\ t.at <= time
  BY DEF Statement
<1> QED BY <1>3, <1>4

LEMMA StatementsInit == Init => Statements
BY DEF Init, Statements, WholeStatement, IdleRun, BlankRun

LEMMA StatementsStep == Typing /\ Statements /\ [Next]_vars => Statements'
<1> SUFFICES ASSUME Typing, Statements, [Next]_vars PROVE Statements'
  OBVIOUS
<1>0. run \in [Workers -> Run] /\ clock \in Nat
  BY DEF Typing, TypeInvariant, Time
<1>1. CASE UNCHANGED run /\ clock' \in {clock, clock + 1}
  <2>1. ASSUME NEW w \in Workers PROVE WholeStatement(run[w], clock')
    <3>1. WholeStatement(run[w], clock) /\ run[w] \in Run
      BY <1>0 DEF Statements
    <3>2. \A t \in run[w].fetched : t.at \in Nat
      BY <3>1 DEF Run
    <3> QED BY <1>0, <1>1, <3>1, <3>2 DEF WholeStatement
  <2> QED BY <1>1, <2>1 DEF Statements
<1>2. ASSUME NEW w \in Workers, Step(w) PROVE Statements'
  <2>1. ASSUME NEW r, run' = [run EXCEPT ![w] = r], clock' = clock,
               WholeStatement(r, clock)
        PROVE  Statements'
    BY <1>0, <2>1 DEF Statements
  <2>2. CASE Leaves(w) \/ Reads(w)
    <3>1. PICK r \in Run : run' = [run EXCEPT ![w] = r] /\ r.pc # "import"
      BY <2>2 DEF Leaves, Reads
    <3>2. clock' = clock
      BY <2>2 DEF Leaves, Reads, DataKept
    <3> QED BY <2>1, <3>1, <3>2 DEF WholeStatement
  <2>3. CASE Carries(w)
    <3>1. PICK r \in Run :
            /\ run' = [run EXCEPT ![w] = r] /\ SameData(r, run[w])
            /\ r.pc = "import" =>
                 /\ run[w].pc = "request"
                 /\ r.fetched = Statement(run[w].account, RunWindow(w), clock)
      BY <2>3 DEF Carries
    <3>2. clock' = clock
      BY <2>3 DEF Carries, DataKept
    <3>3. CASE r.pc = "import"
      <4>1. RunWindow(w) \in Window
        BY <3>1, <3>3, RunWindowType
      <4>2. r.account = run[w].account
        BY <3>1 DEF SameData
      <4> DEFINE found == Statement(run[w].account, RunWindow(w), clock)
      <4>3. /\ \A t \in found : t.account = run[w].account /\ t.at <= clock
            /\ Imports!WithoutHole(run[w].account, found)
        BY <1>0, <4>1, StatementIsWhole
      <4>4. r.fetched = found
        BY <3>1, <3>3
      <4> HIDE DEF found
      <4>5. WholeStatement(r, clock)
        BY <4>2, <4>3, <4>4 DEF WholeStatement
      <4> QED BY <2>1, <3>1, <3>2, <4>5
    <3>4. CASE r.pc # "import"
      BY <2>1, <3>1, <3>2, <3>4 DEF WholeStatement
    <3> QED BY <3>3, <3>4
  <2>4. CASE ClaimNext(w)
    <3>1. run'[w].pc # "import" /\ run' = [run EXCEPT ![w] = run'[w]] /\ clock' = clock
      BY <1>0, <2>4 DEF ClaimNext, Run
    <3> QED BY <2>1, <3>1 DEF WholeStatement
  <2>5. CASE CompleteWindow(w)
    <3>1. PICK s \in {IdleRun, [run[w] EXCEPT !.pc = "fail"]} :
            run' = [run EXCEPT ![w] = s]
      BY <2>5 DEF CompleteWindow
    <3>2. s.pc # "import"
      BY <1>0, <3>1 DEF IdleRun, BlankRun, Run
    <3>3. clock' = clock
      BY <2>5 DEF CompleteWindow
    <3> QED BY <2>1, <3>1, <3>2, <3>3 DEF WholeStatement
  <2> QED BY <1>2, <2>2, <2>3, <2>4, <2>5, StepKinds
<1>3. CASE UNCHANGED vars \/ Tick \/ ReplaceAccounts
  BY <1>1, <1>3 DEF Tick, ReplaceAccounts, vars, database
<1> QED BY <1>2, <1>3 DEF Next

\* An import stores a whole statement.
LEMMA ImportStores ==
    ASSUME Typing, Statements, NEW w \in Workers, ImportTransactions(w)
    PROVE  Imports!Store(run[w].account) /\ run[w].account \in Accounts
<1>1. run[w] \in Run /\ run[w].pc = "import" /\ clock \in Nat
  BY DEF Typing, TypeInvariant, Time, ImportTransactions
<1>2. run[w].account \in Accounts
  BY <1>1 DEF Typing, RunSound, Holding
<1>3. /\ \A t \in run[w].fetched : t.account = run[w].account /\ t.at <= clock
      /\ Imports!WithoutHole(run[w].account, run[w].fetched)
  BY <1>1 DEF Statements, WholeStatement
<1>4. run[w].fetched \in SUBSET {t \in Imports!Of(run[w].account) : t.at <= clock}
  BY <1>1, <1>3 DEF Run, Imports!Of
<1>5. ledger' = ledger \cup run[w].fetched /\ UNCHANGED <<clock, windows>>
  BY DEF ImportTransactions
<1>6. Imports!Store(run[w].account)
  BY <1>3, <1>4, <1>5 DEF Imports!Store
<1> QED BY <1>2, <1>6

\* A completed window is one of the past, with all the bank has in it stored.
LEMMA CompletionCovers ==
    ASSUME Typing, Evidence, NEW w \in Workers, CompleteWindow(w)
    PROVE  Imports!Cover(run[w].account) /\ run[w].account \in Accounts
<1> DEFINE a == run[w].account
           window == RunWindow(w)
<1>1. run[w] \in Run /\ run[w].pc = "complete"
  BY DEF Typing, TypeInvariant, CompleteWindow
<1>2. a \in Accounts
  BY <1>1 DEF Typing, RunSound, Holding
<1>3. window.to <= clock
  BY <1>1, RunWindowType
<1>4. /\ windows' = [windows EXCEPT ![a] = @ \cup {window}]
      /\ UNCHANGED <<clock, ledger>>
  BY DEF CompleteWindow
<1>5. RunEvidence(run[w], ledger) /\ window = WindowOf(run[w])
  BY DEF Evidence, RunWindow, WindowOf
<1>6. \A t \in Provider : t.account = a /\ Within(t, window) => t \in ledger
  BY <1>1, <1>5 DEF RunEvidence
<1>7. Imports!In(a, window) \subseteq ledger
  BY <1>6 DEF Imports!In, Imports!Of, Within
<1>8. window \in windows'[a]
  BY <1>2, <1>4 DEF Typing, TypeInvariant
<1> HIDE DEF a, window
<1>9. Imports!Cover(a)
  BY <1>3, <1>4, <1>7, <1>8 DEF Imports!Cover
<1> QED BY <1>2, <1>9 DEF a

\* However isolates interleave, fail and vanish, the database sees what one careful
\* importer would do to it (module ImportedHistory): imports are its Store,
\* completions its Cover, the clock its own, and all else is none of its steps.
THEOREM IsolatesImportAsOne == Spec => ImportsWhatItCovers
<1> DEFINE Sound == Typing /\ Evidence /\ Statements
<1>1. Init => Imports!Init
  BY DEF Init, Imports!Init
<1>2. Sound /\ [Next]_vars => [Imports!Next]_<<clock, ledger, windows>>
  <2> SUFFICES ASSUME Sound, [Next]_vars
               PROVE  Imports!Next \/ UNCHANGED <<clock, ledger, windows>>
    OBVIOUS
  <2>1. CASE UNCHANGED vars \/ ReplaceAccounts
    BY <2>1 DEF vars, ReplaceAccounts
  <2>2. CASE Tick
    BY <2>2 DEF Tick, database, Imports!Next, Imports!TimePasses
  <2>3. ASSUME NEW w \in Workers, Step(w)
        PROVE  Imports!Next \/ UNCHANGED <<clock, ledger, windows>>
    <3>1. CASE ImportTransactions(w)
      BY <3>1, ImportStores DEF Imports!Next
    <3>2. CASE CompleteWindow(w)
      BY <3>2, CompletionCovers DEF Imports!Next
    <3>3. CASE ~ImportTransactions(w) /\ ~CompleteWindow(w)
      BY <2>3, <3>3
         DEF Step, SynchronizeNext, NextCandidate, ClaimNext, ClaimLost,
             CompleteEmptyWindow, AcquireGate, StatementReceived, RequestFailed,
             TooManyRequests, BatchFailed, FailWindow, Lost, database
    <3> QED BY <3>1, <3>2, <3>3
  <2> QED BY <2>1, <2>2, <2>3 DEF Next
<1>3. Init => Sound
  BY TypingInit, EvidenceInit, StatementsInit
<1>4. Sound /\ [Next]_vars => Sound'
  BY TypingStep, EvidenceStep, StatementsStep
<1> HIDE DEF Sound
<1> QED BY <1>1, <1>2, <1>3, <1>4, PTL DEF Spec, ImportsWhatItCovers, Imports!Spec

-----------------------------------------------------------------------------
(* What the pages say of the imported history *)

HIDE LostRepliesAssumption
HIDE ProviderAssumption
HIDE TimingAssumption
HIDE AccountsAssumption
HIDE NullAssumption

Answers == {Unfinished, "partial", "covered"}
Scans == [next : Int, intersects : BOOLEAN, answer : Answers]
FirstScan(range) == [next |-> range.dateFrom, intersects |-> FALSE, answer |-> Unfinished]

SetMax(s) == CHOOSE x \in s : \A y \in s : x >= y

\* One turn of the loop.
LEMMA ScanTyped ==
    ASSUME NEW scan \in Scans, NEW interval \in Window, NEW range
    PROVE  Scan(scan, interval, range) \in Scans
<1> DEFINE next == Larger(scan.next, SecondAfter(interval))
           over == next > ElapsedEnd(range)
           answer == IF over THEN "covered" ELSE Unfinished
<1>1. next \in Int /\ answer \in Answers
  BY DEF Scans, Window, Larger, SecondAfter, Answers
<1>2. \/ Scan(scan, interval, range) = scan
      \/ Scan(scan, interval, range) = [scan EXCEPT !.answer = "partial"]
      \/ Scan(scan, interval, range) = [next |-> next, intersects |-> TRUE, answer |-> answer]
  BY DEF Scan
<1>3. [scan EXCEPT !.answer = "partial"] \in Scans
  BY DEF Scans, Answers
<1> HIDE DEF next, answer
<1>4. [next |-> next, intersects |-> TRUE, answer |-> answer] \in Scans
  BY <1>1 DEF Scans
<1> QED BY <1>2, <1>3, <1>4

\* A finite set of numbers has a maximum.
LEMMA MaxPicks ==
    ASSUME NEW n \in Nat, NEW s, s \subseteq 1..n, s # {}
    PROVE  SetMax(s) \in s /\ \A y \in s : SetMax(s) >= y
<1>1. Greatest(s) \in s /\ \A d \in s : d <= Greatest(s)
  BY GreatestExists
<1>2. \E x \in s : \A y \in s : x >= y
  <2>1. \A d \in s : Greatest(s) >= d
    BY <1>1
  <2> QED BY <1>1, <2>1
<1> QED BY <1>2 DEF SetMax

\* What the loop has found after each window.
\* The loop over the windows q.
Scanned(q, range) ==
    FoldLeft(LAMBDA scan, interval : Scan(scan, interval, range), FirstScan(range), q)

\* f is the loop over q, one scan after another.
Unrolls(f, q, n, range) ==
    /\ \A k \in 0..n : f[k] \in Scans
    /\ f[0] = FirstScan(range)
    /\ \A k \in 1..n : f[k] = Scan(f[k - 1], q[k], range)
    /\ Scanned(q, range) = f[n]

LEMMA LoopUnrolls ==
    ASSUME NEW q, NEW n, n \in Nat, DOMAIN q = 1..n, \A i \in 1..n : q[i] \in Window,
           NEW range, range.dateFrom \in Int
    PROVE  \E f : Unrolls(f, q, n, range)
<1> DEFINE S == 1..n
           pick == [s \in SUBSET S |-> SetMax(s)]
           step == [p \in Scans \X S |-> Scan(p[1], q[p[2]], range)]
           base == FirstScan(range)
           Iterates(g) == g = [s \in SUBSET (DOMAIN q) |-> IF s = {} THEN FirstScan(range)
                               ELSE Scan(g[s \ {SetMax(s)}], q[SetMax(s)], range)]
           chosen == CHOOSE g : Iterates(g)
<1>1. Scanned(q, range) = chosen[DOMAIN q]
  BY DEF Scanned, FoldLeft, MapThenFoldSet, Max, SetMax
<1>2. IsFiniteSet(S) /\ DOMAIN q = S
  BY FS_Interval
<1>3. \A s \in SUBSET S : s # {} => SetMax(s) \in s /\ \A y \in s : SetMax(s) >= y
  BY MaxPicks
<1>4. Picks(pick, S)
  BY <1>3 DEF Picks
<1>5. base \in Scans
  BY DEF FirstScan, Scans, Answers
<1>6. \A v \in Scans : \A x \in S : step[<<v, x>>] = Scan(v, q[x], range)
  OBVIOUS
<1>7. \A v \in Scans : \A x \in S : step[<<v, x>>] \in Scans
  BY <1>6, ScanTyped
<1>8. \A s \in SUBSET S : pick[s] = SetMax(s)
  OBVIOUS
<1> HIDE DEF step, pick, base
<1>9. PICK g : Folds(g, step, pick, base, S)
  BY <1>2, <1>4, FoldsExist
<1>10. \A U \in SUBSET S : g[U] \in Scans
  BY <1>2, <1>4, <1>5, <1>7, <1>9, FoldsTyped
<1>11. \A s \in SUBSET S : s # {} => g[s] = Scan(g[s \ {SetMax(s)}], q[SetMax(s)], range)
  <2> SUFFICES ASSUME NEW s \in SUBSET S, s # {}
               PROVE  g[s] = Scan(g[s \ {SetMax(s)}], q[SetMax(s)], range)
    OBVIOUS
  <2>1. pick[s] = SetMax(s)
    BY <1>8
  <2>2. g[s] = step[<<g[s \ {SetMax(s)}], SetMax(s)>>]
    <3>1. s \subseteq S /\ s # {}
      OBVIOUS
    <3>2. g[s] = step[<<g[s \ {pick[s]}], pick[s]>>]
      <4> HIDE DEF S
      <4> QED BY <1>9, <3>1, FoldsValue
    <3> QED BY <2>1, <3>2
  <2>3. SetMax(s) \in S /\ g[s \ {SetMax(s)}] \in Scans
    BY <1>3, <1>10
  <2> QED BY <1>6, <2>2, <2>3
<1>12. g[{}] = FirstScan(range) /\ g = [s \in SUBSET S |-> g[s]]
  BY <1>9 DEF Folds, base
<1> HIDE DEF S
<1>13. [s \in SUBSET S |-> g[s]] =
       [s \in SUBSET S |-> IF s = {} THEN FirstScan(range)
                           ELSE Scan(g[s \ {SetMax(s)}], q[SetMax(s)], range)]
  BY <1>11, <1>12
<1>14. Iterates(g)
  BY <1>2, <1>12, <1>13
<1> HIDE DEF Iterates
<1>15. Iterates(chosen)
  BY <1>14
<1> HIDE DEF chosen
<1>16. /\ chosen[{}] = FirstScan(range)
       /\ \A s \in SUBSET S : s # {} =>
            chosen[s] = Scan(chosen[s \ {SetMax(s)}], q[SetMax(s)], range)
  BY <1>2, <1>15 DEF Iterates
<1> DEFINE f == [k \in 0..n |-> chosen[1..k]]
<1>17. f[0] = FirstScan(range)
  <2>1. 1..0 = {}
    OBVIOUS
  <2> QED BY <1>16, <2>1
<1>18. \A k \in 1..n : f[k] = Scan(f[k - 1], q[k], range)
  <2> SUFFICES ASSUME NEW k \in 1..n PROVE f[k] = Scan(f[k - 1], q[k], range)
    OBVIOUS
  <2>1. 1..k \in SUBSET S /\ 1..k # {}
    <3>1. 1..k \subseteq 1..n /\ k \in 1..k
      OBVIOUS
    <3> QED BY <3>1 DEF S
  <2>2. SetMax(1..k) = k
    <3> DEFINE s == 1..k
    <3>1. s \subseteq 1..n /\ k \in s
      OBVIOUS
    <3> HIDE DEF s
    <3>2. SetMax(s) \in s /\ \A y \in s : SetMax(s) >= y
      BY <3>1, MaxPicks
    <3>3. SetMax(1..k) \in 1..k /\ SetMax(1..k) >= k
      BY <3>1, <3>2 DEF s
    <3> QED BY <3>3
  <2>3. (1..k) \ {k} = 1..(k - 1)
    OBVIOUS
  <2>4. chosen[1..k] = Scan(chosen[1..(k - 1)], q[k], range)
    BY <1>16, <2>1, <2>2, <2>3
  <2>5. k \in 0..n /\ k - 1 \in 0..n
    OBVIOUS
  <2> QED BY <2>4, <2>5
<1>19. f[n] = chosen[DOMAIN q]
  BY <1>2 DEF S
<1> HIDE DEF f
<1>20. \A k \in 0..n : f[k] \in Scans
  <2> DEFINE Bad == {k \in 0..n : f[k] \notin Scans}
  <2>1. SUFFICES ASSUME Bad # {} PROVE FALSE
    OBVIOUS
  <2>2. Bad \subseteq 0..n
    OBVIOUS
  <2>3. PICK k \in Bad : \A t \in Bad : k <= t
    <3> HIDE DEF Bad
    <3> QED BY <2>1, <2>2, LeastExists
  <2>4. k # 0
    BY <1>5, <1>17 DEF base
  <2>5. k \in 1..n /\ k - 1 \in 0..n /\ k - 1 \notin Bad
    BY <2>3, <2>4
  <2>6. f[k - 1] \in Scans /\ q[k] \in Window
    BY <2>5
  <2>7. Scan(f[k - 1], q[k], range) \in Scans
    BY <2>6, ScanTyped
  <2> QED BY <1>18, <2>5, <2>7
<1>21. Unrolls(f, q, n, range)
  BY <1>1, <1>17, <1>18, <1>19, <1>20 DEF Unrolls
<1> QED BY <1>21

\* Window q[i] has second x, one of the first k has it, q[i] has a second of d..e.
InWindow(q, i, x) == q[i].from <= x /\ x <= q[i].to
HasOne(q, k, x) == \E i \in 1..k : InWindow(q, i, x)
Meets(q, i, d, e) == d <= q[i].to /\ q[i].from <= e

\* Windows in the order of their first seconds.
InTurn(q, n) ==
    /\ \A i \in 1..n : q[i] \in Window /\ q[i].from <= q[i].to
    /\ \A i, j \in 1..n : i < j => q[i].from <= q[j].from

\* What the loop knows after k of n windows about the seconds d..e.
Knows(s, q, n, k, d, e) ==
    /\ s.answer = Unfinished =>
         /\ d <= s.next /\ s.next <= e
         /\ s.intersects <=> s.next > d
         /\ \A x \in d..(s.next - 1) : HasOne(q, k, x)
         /\ \A i \in 1..k : Meets(q, i, d, e) => q[i].to < s.next
    /\ s.answer = "covered" => \A x \in d..e : HasOne(q, k, x)
    /\ s.answer = "partial" =>
         /\ \E x \in d..e : HasOne(q, n, x)
         /\ \E x \in d..e : ~HasOne(q, n, x)

\* A turn of the loop adds what the next window has.
LEMMA KnowsNext ==
    ASSUME NEW q, NEW n \in Nat, InTurn(q, n), NEW k \in 1..n, NEW s \in Scans, NEW range,
           NEW d \in Int, range.dateFrom = d, NEW e \in Int, ElapsedEnd(range) = e, d <= e,
           Knows(s, q, n, k - 1, d, e)
    PROVE  Knows(Scan(s, q[k], range), q, n, k, d, e)
<1> DEFINE t == Scan(s, q[k], range)
           next == Larger(s.next, SecondAfter(q[k]))
<1>1. /\ s.next \in Int /\ q[k].from \in Int /\ q[k].to \in Int /\ q[k].from <= q[k].to
      /\ s.answer \in {Unfinished, "partial", "covered"}
  BY DEF Scans, InTurn, Window, Answers
<1>2. \A x : HasOne(q, k - 1, x) => HasOne(q, k, x)
  <2> SUFFICES ASSUME NEW x, NEW i \in 1..(k - 1), InWindow(q, i, x) PROVE HasOne(q, k, x)
    BY DEF HasOne
  <2>1. i \in 1..k
    OBVIOUS
  <2> QED BY <2>1 DEF HasOne
<1>3. \A i \in 1..k : i = k \/ i \in 1..(k - 1)
  OBVIOUS
<1>4. CASE s.answer # Unfinished
  <2>1. t = s
    BY <1>4 DEF Scan
  <2> HIDE DEF t
  <2>2. Knows(t, q, n, k, d, e)
    BY <1>1, <1>2, <1>4, <2>1 DEF Knows, Unfinished
  <2> QED BY <2>2 DEF t
<1>5. CASE s.answer = Unfinished /\ ~Meets(q, k, d, e)
  <2>1. t = s
    BY <1>1, <1>5 DEF Scan, Meets
  <2> HIDE DEF t
  <2>2. \A i \in 1..k : Meets(q, i, d, e) => q[i].to < s.next
    BY <1>3, <1>5 DEF Knows
  <2>3. \A x \in d..(s.next - 1) : HasOne(q, k, x)
    BY <1>2, <1>5 DEF Knows
  <2>4. d <= s.next /\ s.next <= e /\ (s.intersects <=> s.next > d)
    BY <1>5 DEF Knows
  <2>5. Knows(s, q, n, k, d, e)
    BY <1>5, <2>2, <2>3, <2>4 DEF Knows, Unfinished
  <2> QED BY <2>1, <2>5 DEF t
<1>6. CASE s.answer = Unfinished /\ Meets(q, k, d, e)
  <2>1. /\ d <= s.next /\ s.next <= e
        /\ \A x \in d..(s.next - 1) : HasOne(q, k - 1, x)
        /\ \A i \in 1..(k - 1) : Meets(q, i, d, e) => q[i].to < s.next
    BY <1>6 DEF Knows
  <2>2. d <= q[k].to /\ q[k].from <= e
    BY <1>6 DEF Meets
  <2>3. CASE q[k].from > s.next
    <3>1. t = [s EXCEPT !.answer = "partial"]
      BY <1>1, <1>6, <2>2, <2>3 DEF Scan, Gap
    <3>2. t.answer = "partial"
      BY <3>1 DEF Scans
    <3>3. q[k].from \in d..e /\ HasOne(q, n, q[k].from)
      <4>1. InWindow(q, k, q[k].from)
        BY <1>1 DEF InWindow
      <4> QED BY <1>1, <2>1, <2>2, <2>3, <4>1 DEF HasOne
    <3>4. s.next \in d..e /\ ~HasOne(q, n, s.next)
      <4> SUFFICES ASSUME NEW i \in 1..n, InWindow(q, i, s.next) PROVE FALSE
        BY <1>1, <2>1 DEF HasOne
      <4>1. q[i].from \in Int /\ q[i].to \in Int /\ q[i].from <= s.next /\ s.next <= q[i].to
        BY DEF InWindow, InTurn, Window
      <4>2. CASE i < k
        <5>1. i \in 1..(k - 1)
          BY <4>2
        <5>2. Meets(q, i, d, e)
          BY <1>1, <2>1, <4>1 DEF Meets
        <5>3. q[i].to < s.next
          BY <2>1, <5>1, <5>2
        <5> QED BY <1>1, <4>1, <5>3
      <4>3. CASE i = k
        BY <1>1, <2>3, <4>1, <4>3
      <4>4. CASE i > k
        <5>1. q[k].from <= q[i].from
          BY <4>4 DEF InTurn
        <5> QED BY <1>1, <2>3, <4>1, <5>1
      <4> QED BY <4>2, <4>3, <4>4
    <3> HIDE DEF t
    <3>5. Knows(t, q, n, k, d, e)
      BY <3>2, <3>3, <3>4 DEF Knows, Unfinished
    <3> QED BY <3>5 DEF t
  <2>4. CASE ~(q[k].from > s.next)
    <3>1. t = [next |-> next, intersects |-> TRUE,
               answer |-> IF next > e THEN "covered" ELSE Unfinished]
      BY <1>1, <1>6, <2>2, <2>4 DEF Scan, Gap
    <3>2. t.next = next /\ t.intersects = TRUE
          /\ t.answer = IF next > e THEN "covered" ELSE Unfinished
      BY <3>1
    <3>3. next \in Int /\ next >= s.next /\ next > q[k].to
          /\ (next = s.next \/ next = q[k].to + 1)
      BY <1>1 DEF Larger, SecondAfter
    <3> HIDE DEF t, next
    <3>4. \A x \in d..(next - 1) : HasOne(q, k, x)
      <4> SUFFICES ASSUME NEW x \in d..(next - 1) PROVE HasOne(q, k, x)
        OBVIOUS
      <4>1. CASE x < s.next
        <5>1. x \in d..(s.next - 1)
          BY <1>1, <3>3, <4>1
        <5> QED BY <1>2, <2>1, <5>1
      <4>2. CASE ~(x < s.next)
        <5>1. q[k].from <= x /\ x <= q[k].to
          BY <1>1, <2>4, <3>3, <4>2
        <5> QED BY <5>1 DEF HasOne, InWindow
      <4> QED BY <4>1, <4>2
    <3>5. CASE next > e
      <4>1. \A x \in d..e : HasOne(q, k, x)
        <5> SUFFICES ASSUME NEW x \in d..e PROVE HasOne(q, k, x)
          OBVIOUS
        <5>1. x \in d..(next - 1)
          BY <3>3, <3>5
        <5> QED BY <3>4, <5>1
      <4>2. Knows(t, q, n, k, d, e)
        BY <3>2, <3>5, <4>1 DEF Knows, Unfinished
      <4> QED BY <4>2 DEF t
    <3>6. CASE ~(next > e)
      <4>1. \A i \in 1..k : Meets(q, i, d, e) => q[i].to < next
        <5> SUFFICES ASSUME NEW i \in 1..k, Meets(q, i, d, e) PROVE q[i].to < next
          OBVIOUS
        <5>1. CASE i = k
          BY <3>3, <1>1, <5>1
        <5>2. CASE i \in 1..(k - 1)
          <6>1. q[i].to < s.next /\ q[i].to \in Int
            BY <2>1, <5>2 DEF InTurn, Window
          <6> QED BY <1>1, <3>3, <6>1
        <5> QED BY <1>3, <5>1, <5>2
      <4>2. d <= next /\ next <= e /\ next > d
        BY <1>1, <2>1, <2>2, <3>3, <3>6
      <4>3. Knows(t, q, n, k, d, e)
        BY <3>2, <3>4, <3>6, <4>1, <4>2 DEF Knows, Unfinished
      <4> QED BY <4>3 DEF t
    <3> QED BY <3>5, <3>6
  <2> QED BY <2>3, <2>4
<1> QED BY <1>4, <1>5, <1>6

WindowsSound(ws) == IsFiniteSet(ws) /\ \A w \in ws : w \in Window /\ w.from <= w.to

ByStart == {p \in Window \X Window : StartsBefore(p[1], p[2])}

\* Windows that begin before they end are ordered by StartsBefore.
LEMMA StartsOrder ==
    ASSUME NEW ws, WindowsSound(ws)
    PROVE  Orders(ByStart, ws)
<1>1. \A u, v \in Window : <<u, v>> \in ByStart <=> StartsBefore(u, v)
  BY DEF ByStart
<1>2. ws \subseteq Window
  BY DEF WindowsSound
<1>3. \A u \in ws : <<u, u>> \notin ByStart
  BY <1>1, <1>2 DEF StartsBefore, Window
<1>4. \A u, v, w \in ws : <<u, v>> \in ByStart /\ <<v, w>> \in ByStart => <<u, w>> \in ByStart
  <2> SUFFICES ASSUME NEW u \in ws, NEW v \in ws, NEW w \in ws,
                      <<u, v>> \in ByStart, <<v, w>> \in ByStart
               PROVE  <<u, w>> \in ByStart
    OBVIOUS
  <2>1. StartsBefore(u, v) /\ StartsBefore(v, w)
    BY <1>1, <1>2
  <2>2. StartsBefore(u, w)
    BY <1>2, <2>1 DEF StartsBefore, Window
  <2> QED BY <1>1, <1>2, <2>2
<1>5. \A u, v \in ws : u = v \/ <<u, v>> \in ByStart \/ <<v, u>> \in ByStart
  <2> SUFFICES ASSUME NEW u \in ws, NEW v \in ws, u # v
               PROVE  <<u, v>> \in ByStart \/ <<v, u>> \in ByStart
    OBVIOUS
  <2>1. u.from # v.from \/ u.to # v.to
    BY <1>2 DEF Window
  <2>2. StartsBefore(u, v) \/ StartsBefore(v, u)
    BY <1>2, <2>1 DEF StartsBefore, Window
  <2> QED BY <1>1, <1>2, <2>2
<1> QED BY <1>3, <1>4, <1>5 DEF Orders

\* Sorted lists every window once, in that order.
LEMMA SortedInTurn ==
    ASSUME NEW ws, WindowsSound(ws)
    PROVE  /\ Cardinality(ws) \in Nat /\ DOMAIN Sorted(ws) = 1..Cardinality(ws)
           /\ InTurn(Sorted(ws), Cardinality(ws))
           /\ \A w \in ws : \E i \in 1..Cardinality(ws) : Sorted(ws)[i] = w
           /\ \A i \in 1..Cardinality(ws) : Sorted(ws)[i] \in ws
<1> DEFINE q == Sorted(ws)
           n == Cardinality(ws)
<1>1. \A w \in ws : {v \in ws : StartsBefore(v, w)} = Lower(ByStart, ws, w)
  <2>1. ws \subseteq Window
    BY DEF WindowsSound
  <2>2. \A v, w \in Window : StartsBefore(v, w) <=> <<v, w>> \in ByStart
    BY DEF ByStart
  <2> QED BY <2>1, <2>2 DEF Lower
<1>2. \A i \in 1..n : \A w \in ws :
         Rank(ByStart, ws, w) = i => q[i] \in ws /\ Rank(ByStart, ws, q[i]) = i
  <2> SUFFICES ASSUME NEW i \in 1..n, NEW w \in ws, Rank(ByStart, ws, w) = i
               PROVE  q[i] \in ws /\ Rank(ByStart, ws, q[i]) = i
    OBVIOUS
  <2> DEFINE Place(u) == Cardinality({v \in ws : StartsBefore(v, u)})
  <2>1. q[i] = CHOOSE u \in ws : Place(u) = i - 1
    BY DEF Sorted
  <2>2. \A u \in ws : Place(u) = Cardinality(Lower(ByStart, ws, u))
    BY <1>1
  <2>3. \A u \in ws : Cardinality(Lower(ByStart, ws, u)) \in Nat
    BY LowerFinite DEF WindowsSound
  <2> HIDE DEF Place, q
  <2>4. Place(w) = i - 1
    BY <2>2, <2>3 DEF Rank
  <2>5. q[i] \in ws /\ Place(q[i]) = i - 1
    BY <2>1, <2>4
  <2> QED BY <2>2, <2>3, <2>5 DEF Rank
<1>3. Orders(ByStart, ws)
  BY StartsOrder
<1>4. IsFiniteSet(ws) /\ Orders(ByStart, ws)
  BY <1>3 DEF WindowsSound
<1>5. DOMAIN q = 1..n
  BY DEF Sorted
<1> HIDE DEF q
<1>6. /\ n \in Nat
      /\ \A i \in 1..n : q[i] \in ws
      /\ \A w \in ws : \E i \in 1..n : q[i] = w
      /\ \A i, j \in 1..n : i < j => <<q[i], q[j]>> \in ByStart
  BY <1>2, <1>4, InOrder
<1> HIDE DEF n
<1>7. \A i, j \in 1..n : i < j => q[i].from <= q[j].from
  <2> SUFFICES ASSUME NEW i \in 1..n, NEW j \in 1..n, i < j PROVE q[i].from <= q[j].from
    OBVIOUS
  <2>1. StartsBefore(q[i], q[j]) /\ q[i] \in Window /\ q[j] \in Window
    BY <1>6 DEF ByStart
  <2> QED BY <2>1 DEF StartsBefore, Window
<1>8. \A i \in 1..n : q[i] \in Window /\ q[i].from <= q[i].to
  BY <1>6 DEF WindowsSound
<1>9. InTurn(q, n)
  BY <1>7, <1>8 DEF InTurn
<1> QED BY <1>6, <1>5, <1>9 DEF q, n

\* periodCoverage of any sound windows.
LEMMA CoverageFound ==
    ASSUME NEW ws, WindowsSound(ws), clock \in Int,
           NEW range, range.dateFrom \in Int, range.dateTo \in Int, range.dateFrom <= range.dateTo
    PROVE  PeriodCoverage(ws, range) =
              IF Elapsed(range) = {} THEN "future"
              ELSE IF {s \in Elapsed(range) : Covered(s, ws)} = Elapsed(range) THEN "covered"
              ELSE IF {s \in Elapsed(range) : Covered(s, ws)} = {} THEN "unknown" ELSE "partial"
<1> DEFINE d == range.dateFrom
           e == ElapsedEnd(range)
           n == Cardinality(ws)
           q == Sorted(ws)
           scanned == Scanned(q, range)
           covered == {s \in Elapsed(range) : Covered(s, ws)}
<1>1. d \in Int /\ e \in Int /\ Elapsed(range) = d..e /\ (d <= e <=> ~(d > clock))
  BY DEF ElapsedEnd, Smaller, Elapsed
<1>2. PeriodCoverage(ws, range) =
        IF d > clock THEN "future"
        ELSE IF ws = {} THEN "unknown"
        ELSE IF scanned.answer # Unfinished THEN scanned.answer
        ELSE IF scanned.intersects THEN "partial" ELSE "unknown"
  BY DEF PeriodCoverage, FirstScan, Scanned
<1>3. /\ n \in Nat /\ DOMAIN q = 1..n /\ InTurn(q, n)
      /\ \A w \in ws : \E i \in 1..n : q[i] = w
      /\ \A i \in 1..n : q[i] \in ws
  BY SortedInTurn
<1> HIDE DEF n, q
<1>4. PICK f : /\ \A k \in 0..n : f[k] \in Scans
               /\ f[0] = FirstScan(range)
               /\ \A k \in 1..n : f[k] = Scan(f[k - 1], q[k], range)
               /\ scanned = f[n]
  <2>1. \A i \in 1..n : q[i] \in Window
    BY <1>3 DEF InTurn
  <2>2. n \in Nat /\ DOMAIN q = 1..n /\ range.dateFrom \in Int
    BY <1>3
  <2> HIDE DEF d, e, scanned, covered
  <2>3. \E f : Unrolls(f, q, n, range)
    BY ONLY <2>1, <2>2, LoopUnrolls
  <2> QED BY <2>3 DEF scanned, Unrolls
<1> HIDE DEF scanned
<1>5. \A x : Covered(x, ws) <=> HasOne(q, n, x)
  <2> SUFFICES ASSUME NEW x PROVE Covered(x, ws) <=> HasOne(q, n, x)
    OBVIOUS
  <2>1. ASSUME NEW w \in ws, w.from <= x, x <= w.to PROVE HasOne(q, n, x)
    <3>1. PICK i \in 1..n : q[i] = w
      BY <1>3
    <3> QED BY <2>1, <3>1 DEF HasOne, InWindow
  <2>2. ASSUME NEW i \in 1..n, InWindow(q, i, x) PROVE Covered(x, ws)
    BY <1>3, <2>2 DEF InWindow, Covered
  <2> QED BY <2>1, <2>2 DEF Covered, HasOne
<1>6. CASE d > clock
  BY <1>1, <1>2, <1>6
<1>7. CASE ~(d > clock)
  <2> HIDE DEF d, e
  <2>1. d <= e /\ d \in d..e
    BY <1>1, <1>7
  <2>2. \A k \in 0..n : Knows(f[k], q, n, k, d, e)
    <3> DEFINE Bad == {k \in 0..n : ~Knows(f[k], q, n, k, d, e)}
    <3>1. SUFFICES ASSUME Bad # {} PROVE FALSE
      OBVIOUS
    <3>2. Bad \subseteq 0..n
      OBVIOUS
    <3>3. PICK k \in Bad : \A t \in Bad : k <= t
      <4> HIDE DEF Bad
      <4> QED BY <1>3, <3>1, <3>2, LeastExists
    <3>4. Knows(f[0], q, n, 0, d, e)
      <4>1. f[0] = [next |-> d, intersects |-> FALSE, answer |-> Unfinished]
        BY <1>4 DEF FirstScan, d
      <4>2. f[0].next = d /\ f[0].intersects = FALSE /\ f[0].answer = Unfinished
        BY <4>1
      <4>3. \A x \in d..(d - 1) : FALSE
        BY <1>1
      <4>4. \A i \in 1..0 : FALSE
        OBVIOUS
      <4> DEFINE s == f[0]
      <4>5. s.next = d /\ s.intersects = FALSE /\ s.answer = Unfinished
        BY <4>2
      <4> HIDE DEF s
      <4>6. Knows(s, q, n, 0, d, e)
        <5>1. s.answer # "covered" /\ s.answer # "partial"
          BY <4>5 DEF Unfinished
        <5>2. d <= s.next /\ s.next <= e /\ (s.intersects <=> s.next > d)
          BY <1>1, <2>1, <4>5
        <5>3. \A x \in d..(s.next - 1) : HasOne(q, 0, x)
          BY <4>3, <4>5
        <5>4. \A i \in 1..0 : Meets(q, i, d, e) => q[i].to < s.next
          BY <4>4
        <5> QED BY <5>1, <5>2, <5>3, <5>4 DEF Knows
      <4> QED BY <4>6 DEF s
    <3>5. k \in 1..n /\ k - 1 \in 0..n /\ k - 1 \notin Bad
      BY <1>3, <3>3, <3>4
    <3>6. Knows(f[k - 1], q, n, k - 1, d, e) /\ f[k - 1] \in Scans
      BY <1>4, <3>5
    <3>7. Knows(Scan(f[k - 1], q[k], range), q, n, k, d, e)
      <4>1. range.dateFrom = d /\ ElapsedEnd(range) = e /\ d \in Int /\ e \in Int
        BY <1>1 DEF d, e
      <4> QED BY <1>3, <2>1, <3>5, <3>6, <4>1, KnowsNext
    <3> QED BY <1>4, <3>5, <3>7
  <2>3. Knows(scanned, q, n, n, d, e) /\ scanned \in Scans
    BY <1>3, <1>4, <2>2
  <2>4. covered = {s \in d..e : HasOne(q, n, s)} /\ Elapsed(range) = d..e
    BY <1>1, <1>5
  <2> HIDE DEF covered
  <2>5. Elapsed(range) # {}
    BY <2>1, <2>4
  <2>6. CASE ws = {}
    <3>1. covered = {}
      BY <2>6 DEF covered, Covered
    <3> QED BY <1>2, <1>7, <2>5, <2>6, <3>1 DEF covered, d
  <2>7. CASE ws # {} /\ scanned.answer = "covered"
    <3>1. covered = Elapsed(range)
      BY <2>3, <2>4, <2>7 DEF Knows
    <3> QED BY <1>2, <1>7, <2>5, <2>7, <3>1 DEF covered, Unfinished, d
  <2>8. CASE ws # {} /\ scanned.answer = "partial"
    <3>1. covered # Elapsed(range) /\ covered # {}
      BY <2>3, <2>4, <2>8 DEF Knows
    <3> QED BY <1>2, <1>7, <2>5, <2>8, <3>1 DEF covered, Unfinished, d
  <2>9. CASE ws # {} /\ scanned.answer = Unfinished
    <3>1. /\ d <= scanned.next /\ scanned.next <= e
          /\ scanned.intersects <=> scanned.next > d
          /\ \A x \in d..(scanned.next - 1) : HasOne(q, n, x)
          /\ \A i \in 1..n : Meets(q, i, d, e) => q[i].to < scanned.next
      BY <2>3, <2>9 DEF Knows
    <3>2. scanned.next \in Int /\ scanned.intersects \in BOOLEAN
      BY <2>3 DEF Scans
    \* No window has a second from the next one on.
    <3>3. \A x \in d..e : x >= scanned.next => ~HasOne(q, n, x)
      <4> SUFFICES ASSUME NEW x \in d..e, x >= scanned.next,
                          NEW i \in 1..n, InWindow(q, i, x)
                   PROVE  FALSE
        BY DEF HasOne
      <4>1. q[i].from \in Int /\ q[i].to \in Int /\ q[i].from <= x /\ x <= q[i].to
        BY <1>3 DEF InWindow, InTurn, Window
      <4>2. Meets(q, i, d, e)
        BY <1>1, <4>1 DEF Meets
      <4>3. q[i].to < scanned.next
        BY <3>1, <4>2
      <4> QED BY <1>1, <3>2, <4>1, <4>3
    <3>4. scanned.next \in d..e
      BY <1>1, <3>1, <3>2
    <3>5. covered # Elapsed(range)
      BY <2>4, <3>2, <3>3, <3>4
    <3>6. CASE scanned.intersects
      <4>1. d \in d..(scanned.next - 1)
        BY <1>1, <3>1, <3>2, <3>6
      <4>2. covered # {}
        BY <2>1, <2>4, <3>1, <4>1
      <4> QED BY <1>2, <1>7, <2>5, <2>9, <3>5, <3>6, <4>2 DEF covered, d
    <3>7. CASE ~scanned.intersects
      <4>1. scanned.next = d
        BY <1>1, <3>1, <3>2, <3>7
      <4>2. covered = {}
        BY <1>1, <2>4, <3>3, <4>1
      <4> QED BY <1>2, <1>7, <2>5, <2>9, <3>5, <3>7, <4>2 DEF covered, d
    <3> QED BY <3>6, <3>7
  <2>10. scanned.answer \in {Unfinished, "partial", "covered"}
    BY <2>3 DEF Scans, Answers
  <2> QED BY <2>6, <2>7, <2>8, <2>9, <2>10
<1> QED BY <1>6, <1>7

\* The windows on record are finitely many and begin before they end.
WindowsKept == \A a \in Accounts : WindowsSound(windows[a])

LEMMA WindowsInit == Init => WindowsKept
BY FS_EmptySet DEF Init, WindowsKept, WindowsSound

\* A window that is recorded begins before it ends.
LEMMA CompletedWindow ==
    ASSUME Typing, Starts, NEW w \in Workers, run[w].pc = "complete"
    PROVE  RunWindow(w) \in Window /\ RunWindow(w).from <= RunWindow(w).to
<1>1. run[w] \in Run /\ RunSound(run[w]) /\ RunStarts(run[w])
  BY DEF Typing, TypeInvariant, Starts
<1>2. run[w].start # Null /\ RunWindow(w) # Null
  BY <1>1 DEF RunSound, Holding, WindowOf, RunWindow
<1>3. run[w].start \in Nat /\ run[w].start <= run[w].now
  BY <1>1, <1>2 DEF Run, TimeOrNull, RunStarts
<1>4. RunWindow(w) \in Window
  BY RunWindowType
<1> QED BY <1>1, <1>2, <1>3, <1>4, NextWindowBounds DEF RunWindow, Run, Time

LEMMA WindowsStep == Typing /\ Starts /\ WindowsKept /\ [Next]_vars => WindowsKept'
<1> SUFFICES ASSUME Typing, Starts, WindowsKept, [Next]_vars PROVE WindowsKept'
  OBVIOUS
<1>1. CASE UNCHANGED windows
  BY <1>1 DEF WindowsKept, WindowsSound
<1>2. ASSUME NEW w \in Workers, CompleteWindow(w) PROVE WindowsKept'
  <2> DEFINE a == run[w].account
             new == RunWindow(w)
  <2>1. run[w].pc = "complete" /\ windows' = [windows EXCEPT ![a] = @ \cup {new}]
    BY <1>2 DEF CompleteWindow
  <2>2. new \in Window /\ new.from <= new.to
    BY <2>1, CompletedWindow
  <2>3. windows \in [Accounts -> SUBSET Window] /\ a \in Accounts
    BY <2>1 DEF Typing, TypeInvariant, RunSound, Holding
  <2> HIDE DEF a, new
  <2>4. windows'[a] = windows[a] \cup {new} /\ \A b \in Accounts \ {a} : windows'[b] = windows[b]
    BY <2>1, <2>3
  <2>5. IsFiniteSet(windows[a]) /\ \A x \in windows[a] : x \in Window /\ x.from <= x.to
    BY <2>3 DEF WindowsKept, WindowsSound
  <2>6. IsFiniteSet(windows[a] \cup {new})
    BY <2>5, FS_AddElement
  <2>7. WindowsSound(windows'[a])
    BY <2>2, <2>4, <2>5, <2>6 DEF WindowsSound
  <2>8. \A b \in Accounts \ {a} : WindowsSound(windows'[b])
    BY <2>4 DEF WindowsKept
  <2>9. \A b \in Accounts : WindowsSound(windows'[b])
    BY <2>7, <2>8
  <2> QED BY <2>9 DEF WindowsKept, WindowsSound
<1>3. ASSUME NEW w \in Workers, Leaves(w) \/ Carries(w) \/ Reads(w) \/ ClaimNext(w)
      PROVE  UNCHANGED windows
  BY <1>3 DEF Leaves, Carries, Reads, ClaimNext, DataKept
<1>4. ASSUME NEW w \in Workers, Step(w) PROVE WindowsKept'
  BY <1>1, <1>2, <1>3, <1>4, StepKinds
<1> QED BY <1>1, <1>4 DEF Next, Tick, ReplaceAccounts, vars, database

\* The row of an account some run holds says so.
StatusHeld ==
    \A w \in Workers : run[w].pc \in Holding => syncState[run[w].account].status = "running"

LEMMA StatusInit == Init => StatusHeld
BY DEF Init, StatusHeld, IdleRun, BlankRun, Holding

LEMMA StatusStep ==
    RunsEndInTime /\ Typing /\ LeaseExclusion /\ StatusHeld /\ [Next]_vars => StatusHeld'
<1> SUFFICES ASSUME RunsEndInTime, Typing, LeaseExclusion, StatusHeld, [Next]_vars
             PROVE  StatusHeld'
  OBVIOUS
<1>1. /\ run = [w \in Workers |-> run[w]] /\ syncState = [a \in Accounts |-> syncState[a]]
      /\ \A w \in Workers : run[w] \in Run
  BY DEF Typing, TypeInvariant
<1>2. CASE UNCHANGED <<syncState, run>>
  BY <1>2 DEF StatusHeld
\* A step that writes no row, of a run that goes on with its account or lets go of it.
<1>3. ASSUME NEW w \in Workers, NEW r, run' = [run EXCEPT ![w] = r], UNCHANGED syncState,
             r.pc \notin Holding \/ (run[w].pc \in Holding /\ r.account = run[w].account)
      PROVE  StatusHeld'
  BY <1>1, <1>3 DEF StatusHeld
\* A step that ends the run and writes its row: no other run has the account.
<1>4. ASSUME NEW w \in Workers, NEW r, run' = [run EXCEPT ![w] = r], r.pc \notin Holding,
             run[w].pc \in Holding,
             NEW row, syncState' = [syncState EXCEPT ![run[w].account] = row]
      PROVE  StatusHeld'
  <2>1. ASSUME NEW v \in Workers, run'[v].pc \in Holding
        PROVE  v # w /\ run'[v] = run[v] /\ run[v].account # run[w].account
    BY <1>1, <1>4, <2>1 DEF LeaseExclusion
  <2>2. ASSUME NEW v \in Workers, run'[v].pc \in Holding
        PROVE  syncState'[run'[v].account].status = "running"
    BY <1>1, <1>4, <2>1, <2>2 DEF StatusHeld
  <2> QED BY <2>2 DEF StatusHeld
<1>5. ASSUME NEW w \in Workers, ClaimNext(w) PROVE StatusHeld'
  <2> DEFINE a == run[w].account
  <2>1. a \in Accounts
    BY <1>5 DEF ClaimNext, Typing, RunSound
  <2>2. /\ syncState'[a].status = "running"
        /\ \A b \in Accounts : b # a => syncState'[b] = syncState[b]
    BY <1>1, <1>5, <2>1 DEF ClaimNext, Typing, TypeInvariant, Row
  <2>3. run'[w].account = a /\ \A v \in Workers : v # w => run'[v] = run[v]
    BY <1>1, <1>5 DEF ClaimNext, Run
  <2>4. \A v \in Workers : run[v].pc \in Holding => run[v].account \in Accounts
    BY DEF Typing, RunSound
  <2> HIDE DEF a
  <2>5. ASSUME NEW v \in Workers, run'[v].pc \in Holding
        PROVE  syncState'[run'[v].account].status = "running"
    BY <2>1, <2>2, <2>3, <2>4, <2>5 DEF StatusHeld
  <2> QED BY <2>5 DEF StatusHeld
<1>6. ASSUME NEW w \in Workers, Step(w) PROVE StatusHeld'
  <2>1. IdleRun.pc \notin Holding
    BY DEF IdleRun, BlankRun, Holding
  <2>2. \A now, tries : BlankRun("select", now, tries).pc \notin Holding
    BY DEF BlankRun, Holding
  <2>3. \A pc : [run[w] EXCEPT !.pc = pc].account = run[w].account
    BY <1>1 DEF Run
  <2>4. CASE SynchronizeNext(w)
    BY <1>3, <2>2, <2>4 DEF SynchronizeNext, database
  <2>5. CASE NextCandidate(w)
    <3>1. CASE run' = [run EXCEPT ![w] = IdleRun]
      BY <1>3, <2>1, <2>5, <3>1 DEF NextCandidate, database
    <3>2. ASSUME NEW a \in Candidates(run[w].now),
                 run' = [run EXCEPT ![w] =
                           [@ EXCEPT !.pc = "claim", !.account = a,
                                     !.cursor = syncState[a].cursor,
                                     !.start = syncState[a].start,
                                     !.last = syncState[a].last]]
          PROVE  StatusHeld'
      <4> DEFINE r == [run[w] EXCEPT !.pc = "claim", !.account = a,
                                     !.cursor = syncState[a].cursor,
                                     !.start = syncState[a].start,
                                     !.last = syncState[a].last]
      <4>1. run' = [run EXCEPT ![w] = r] /\ UNCHANGED syncState
        BY <2>5, <3>2 DEF NextCandidate, database
      <4>2. r.pc \notin Holding
        BY <1>1 DEF Run, Holding
      <4> HIDE DEF r
      <4> QED BY <1>3, <4>1, <4>2
    <3> QED BY <2>5, <3>1, <3>2 DEF NextCandidate
  <2>6. CASE ClaimNext(w)
    BY <1>5, <2>6
  <2>7. CASE ClaimLost(w)
    <3>1. PICK r \in {IdleRun, BlankRun("select", run[w].now, run[w].tries + 1)} :
            run' = [run EXCEPT ![w] = r]
      BY <2>7 DEF ClaimLost
    <3>2. r.pc \notin Holding /\ UNCHANGED syncState
      BY <2>1, <2>2, <2>7 DEF ClaimLost, database
    <3> QED BY <1>3, <3>1, <3>2
  <2>8. CASE AcquireGate(w) \/ StatementReceived(w) \/ RequestFailed(w) \/ TooManyRequests(w)
             \/ ImportTransactions(w) \/ BatchFailed(w)
    <3>1. run[w].pc \in Holding /\ UNCHANGED syncState
      BY <2>8 DEF AcquireGate, StatementReceived, RequestFailed, TooManyRequests,
                  ImportTransactions, BatchFailed, Holding, database
    <3>2. \E r : run' = [run EXCEPT ![w] = r] /\ r.account = run[w].account
      <4>1. CASE StatementReceived(w)
        <5> DEFINE got == Statement(run[w].account, RunWindow(w), clock)
                   r == [run[w] EXCEPT !.pc = "import", !.fetched = got]
        <5>1. run' = [run EXCEPT ![w] = r]
          BY <4>1 DEF StatementReceived
        <5> HIDE DEF got
        <5>2. r.account = run[w].account
          BY <1>1 DEF Run
        <5> HIDE DEF r
        <5> QED BY <5>1, <5>2
      <4>2. CASE ~StatementReceived(w)
        <5>1. \E pc : run' = [run EXCEPT ![w].pc = pc]
          BY <2>8, <4>2 DEF AcquireGate, RequestFailed, TooManyRequests,
                            ImportTransactions, BatchFailed
        <5>2. PICK pc : run' = [run EXCEPT ![w] = [run[w] EXCEPT !.pc = pc]]
          BY <5>1
        <5> QED BY <2>3, <5>2
      <4> QED BY <4>1, <4>2
    <3> QED BY <1>3, <3>1, <3>2
  <2>9. CASE CompleteEmptyWindow(w)
    BY <1>4, <2>1, <2>9 DEF CompleteEmptyWindow, Holding
  <2>10. CASE FailWindow(w)
    BY <1>4, <2>1, <2>10 DEF FailWindow, Holding
  <2>11. CASE CompleteWindow(w)
    BY <1>4, <2>1, <2>11 DEF CompleteWindow, Holding, RunsEndInTime
  <2>12. CASE Lost(w)
    BY <1>3, <2>1, <2>12 DEF Lost, database
  <2> QED BY <1>6, <2>4, <2>5, <2>6, <2>7, <2>8, <2>9, <2>10, <2>11, <2>12 DEF Step
<1> QED BY <1>2, <1>5, <1>6 DEF Next, Tick, ReplaceAccounts, vars, database

\* What the invariants say of the pages.
LEMMA FreshnessHolds ==
    ASSUME Typing, CoverageTruthful, WindowsKept, StatusHeld
    PROVE  FreshnessTruthful
<1>1. clock \in Int /\ \A a \in Accounts : windows[a] \subseteq Window
  BY DEF Typing, TypeInvariant, Time
<1>2. \A range \in ChosenPeriods : /\ range.dateFrom \in Int /\ range.dateTo \in Int
                                   /\ range.dateFrom <= range.dateTo
  BY PeriodEndsAssumption DEF ChosenPeriods
<1>3. CoverageExact
  BY <1>1, <1>2, CoverageFound DEF CoverageExact, WindowsKept
<1>4. GapsAreWarned
  <2> SUFFICES ASSUME NEW a \in Accounts, NEW range \in ChosenPeriods,
                      NEW t \in Provider \ ledger, t.account = a, t.at \in Elapsed(range)
               PROVE  \/ Summary({a}, range) \in {"failed", "gaps"}
                      \/ PeriodCoverage(windows[a], range) = "unknown"
    BY DEF GapsAreWarned
  <2>1. ~Covered(t.at, windows[a])
    BY DEF CoverageTruthful, Covered, Within
  <2>2. /\ Elapsed(range) # {}
        /\ {s \in Elapsed(range) : Covered(s, windows[a])} # Elapsed(range)
    BY <2>1
  <2>3. PeriodCoverage(windows[a], range) \in {"unknown", "partial"}
    BY <1>3, <2>2 DEF CoverageExact
  <2> QED BY <2>3 DEF Summary
<1>5. SuccessIsSettled
  BY DEF SuccessIsSettled, Tone, StatusHeld
<1> QED BY <1>3, <1>4, <1>5 DEF FreshnessTruthful

\* What the pages say of the imported history is so, for any accounts, windows, runs
\* and periods: the loop of periodCoverage says of the elapsed seconds of a period which
\* of them the recorded windows have, a gap with a transaction in it is warned of, and
\* success is shown of no account that a run holds; if runs end before their leases do
\* and no reply is lost.
THEOREM FreshnessIsTruthful ==
    ASSUME RunsEndInTime, MaxRun <= HistorySpan
    PROVE  Spec => []FreshnessTruthful
<1> DEFINE Sound == /\ Typing /\ Evidence /\ LeaseHeld /\ LeaseExclusion /\ Starts
                    /\ WindowsKept /\ StatusHeld
<1>1. Init => Sound
  BY TypingInit, EvidenceInit, LeaseInit, StartsInit, WindowsInit, StatusInit
<1>2. Sound /\ [Next]_vars => Sound'
  <2> SUFFICES ASSUME Sound, [Next]_vars PROVE Sound'
    OBVIOUS
  <2>1. Typing' /\ Evidence'
    BY TypingStep, EvidenceStep
  <2>2. LeaseHeld' /\ LeaseExclusion'
    BY LeaseStep
  <2>3. Starts'
    BY StartsStep
  <2>4. WindowsKept'
    BY WindowsStep
  <2>5. StatusHeld'
    BY StatusStep
  <2> QED BY <2>1, <2>2, <2>3, <2>4, <2>5
<1>3. Sound => FreshnessTruthful
  BY FreshnessHolds DEF Evidence
<1> HIDE DEF Sound
<1> QED BY <1>1, <1>2, <1>3, PTL DEF Spec

-----------------------------------------------------------------------------
(* The router *)

Request == [pc : {"idle", "arrived", "admitted", "answered"},
            sent : Sent \cup {Get("health")}, origin : {"none", "own", "foreign"},
            cookie : Tokens \cup {NoCookie, Forged}, wasLive : BOOLEAN, answer : Nat]

\* A session that was over when a request arrived is over for good: only a token
\* that no request can have yet becomes live.
CookieKnown(q, rows) ==
    q.pc \in {"arrived", "admitted"} /\ q.cookie \in Tokens =>
        /\ rows[q.cookie] # "none"
        /\ rows[q.cookie] = "live" => q.wasLive

IsPublic(q) == q.sent[2] \in publicApiPaths
IsUnsafe(q) == q.sent[1] \notin SafeMethods

\* What the second middleware has seen to.
AdmittedSoundly(q) ==
    q.pc = "admitted" /\ ~IsPublic(q) =>
        /\ q.wasLive
        /\ IsUnsafe(q) => q.origin # "foreign"

AnsweredSoundly(q) ==
    q.pc = "answered" =>
        (~IsPublic(q) /\ ~q.wasLive => q.answer \in {400, 401, 500})

RequestSound(q, rows) == CookieKnown(q, rows) /\ AdmittedSoundly(q) /\ AnsweredSoundly(q)

RouterSound ==
    /\ sessionRow \in [Tokens -> {"none", "live", "revoked", "expired"}]
    /\ request \in [Requests -> Request]
    /\ changedBy \subseteq Requests
    /\ LogsNoSql
    /\ \A r \in Requests : RequestSound(request[r], sessionRow)
    /\ \A r \in changedBy : request[r].pc = "answered" /\ request[r].origin # "foreign"

LEMMA RoutePaths ==
    /\ \A s \in PublicRoutes : s[2] \in publicApiPaths
    /\ \A s \in PrivateRoutes : s[2] \notin publicApiPaths
<1>1. ASSUME NEW m, NEW p PROVE <<m, p>>[2] = p
  OBVIOUS
<1>2. /\ \A p : Get(p)[2] = p /\ Post(p)[2] = p
      /\ \A p : Put(p)[2] = p /\ Delete(p)[2] = p
  BY <1>1 DEF Get, Post, Put, Delete
<1>3. ASSUME NEW s \in PublicRoutes PROVE s[2] \in publicApiPaths
  <2>1. PICK p \in publicApiPaths : s \in {Get(p), Post(p)}
    BY DEF PublicRoutes, publicApiPaths
  <2> QED BY <1>2, <2>1
<1>4. ASSUME NEW s \in PrivateRoutes PROVE s[2] \notin publicApiPaths
  <2> DEFINE gets == {"accounts", "transactions", "analytics/overview",
                 "analytics/breakdowns", "analytics/trends", "preferences/currency",
                 "categories", "category-sources", "transactions/:id/compensations",
                 "sync/transactions/status"}
             posts == {"exchange-rates/sync", "categories", "categories/:id/merge",
                 "transactions/:id/compensations", "sync/accounts", "sync/transactions"}
             pairs == {"category-sources/:code", "categories/:id",
                 "transactions/:id/category", "transactions/:id/adjustment",
                 "transactions/:id/exclusion"}
  <2>1. /\ \A p \in gets : p \notin publicApiPaths
        /\ \A p \in posts : p \notin publicApiPaths
        /\ \A p \in pairs : p \notin publicApiPaths
    BY DEF publicApiPaths
  <2>2. \/ \E p \in gets : s = Get(p)
        \/ \E p \in posts : s = Post(p)
        \/ \E p \in pairs : s \in {Put(p), Delete(p)}
        \/ s = Put("preferences/currency")
        \/ s = Delete("transactions/:id/compensations/:link")
    BY DEF PrivateRoutes
  <2> HIDE DEF gets, posts, pairs
  <2>3. CASE \E p \in gets : s = Get(p)
    <3>1. PICK p \in gets : s = Get(p)
      BY <2>3
    <3> QED BY ONLY <1>2, <2>1, <3>1
  <2>4. CASE \E p \in posts : s = Post(p)
    <3>1. PICK p \in posts : s = Post(p)
      BY <2>4
    <3> QED BY ONLY <1>2, <2>1, <3>1
  <2>5. CASE \E p \in pairs : s \in {Put(p), Delete(p)}
    <3>1. PICK p \in pairs : s = Put(p) \/ s = Delete(p)
      BY <2>5
    <3> QED BY ONLY <1>2, <2>1, <3>1
  <2>6. "preferences/currency" \notin publicApiPaths
        /\ "transactions/:id/compensations/:link" \notin publicApiPaths
    BY DEF publicApiPaths
  <2> QED BY <1>2, <2>2, <2>3, <2>4, <2>5, <2>6
<1> QED BY <1>3, <1>4

LEMMA RouterSoundInit == RouterInit => RouterSound
<1> SUFFICES ASSUME RouterInit PROVE RouterSound
  OBVIOUS
<1>1. Waiting \in Request
  BY DEF Waiting, Request
<1>2. RequestSound(Waiting, sessionRow)
  BY DEF Waiting, RequestSound, CookieKnown, AdmittedSoundly, AnsweredSoundly
<1> QED BY <1>1, <1>2 DEF RouterInit, RouterSound, LogsNoSql

\* No session begins again that is over.
SessionsFollow ==
    /\ sessionRow' \in [Tokens -> {"none", "live", "revoked", "expired"}]
    /\ \A t \in Tokens : sessionRow[t] # "none" =>
          sessionRow'[t] # "none" /\ (sessionRow'[t] = "live" => sessionRow[t] = "live")

\* Only a request that is not of another origin is noted to have changed a table.
ChangedBy(r, q) ==
    \/ changedBy' = changedBy
    \/ changedBy' = changedBy \cup {r} /\ q.origin # "foreign"

\* A step of one request that gives it a sound state.
LEMMA RequestStep ==
    ASSUME RouterSound, NEW r \in Requests, NEW q, q \in Request,
           request[r].pc # "answered",
           request' = [request EXCEPT ![r] = q],
           SessionsFollow,
           RequestSound(q, sessionRow'), LogsNoSql',
           ChangedBy(r, q), changedBy' # changedBy => q.pc = "answered"
    PROVE  RouterSound'
<1>1. request' \in [Requests -> Request] /\ changedBy' \subseteq Requests
  BY DEF RouterSound, ChangedBy
<1>2. ASSUME NEW s \in Requests PROVE RequestSound(request'[s], sessionRow')
  <2>1. CASE s = r
    BY <2>1 DEF RouterSound
  <2>2. CASE s # r
    <3>1. request'[s] = request[s] /\ RequestSound(request[s], sessionRow)
      BY <2>2 DEF RouterSound
    <3> QED BY <3>1 DEF RequestSound, CookieKnown, SessionsFollow
  <2> QED BY <2>1, <2>2
<1>3. ASSUME NEW s \in changedBy'
      PROVE  request'[s].pc = "answered" /\ request'[s].origin # "foreign"
  BY <1>3 DEF RouterSound, ChangedBy
<1> QED BY <1>1, <1>2, <1>3 DEF RouterSound, SessionsFollow

\* A request that is answered: all but its status is as it was.
AnsweredRequest(r, status) ==
    [request[r] EXCEPT !.pc = "answered", !.answer = status]

LEMMA AnsweredAs ==
    ASSUME RouterSound, NEW r \in Requests, NEW status, status \in Nat,
           NEW q, q = AnsweredRequest(r, status)
    PROVE  /\ q \in Request
           /\ Answered(r, status) = [request EXCEPT ![r] = q]
           /\ q.pc = "answered" /\ q.sent = request[r].sent
           /\ q.origin = request[r].origin /\ q.wasLive = request[r].wasLive
           /\ q.answer = status
<1>1. request[r] \in Request /\ request \in [Requests -> Request]
  BY DEF RouterSound
<1>2. /\ q \in Request
      /\ q.pc = "answered" /\ q.sent = request[r].sent
      /\ q.origin = request[r].origin /\ q.wasLive = request[r].wasLive
      /\ q.answer = status
  BY <1>1 DEF Request, AnsweredRequest
<1>3. Answered(r, status) = [request EXCEPT ![r] = q]
  BY <1>1 DEF Answered, Request, AnsweredRequest
<1> QED BY <1>2, <1>3

\* An answer that does not change what it must not is sound.
LEMMA AnswerStep ==
    ASSUME RouterSound, NEW r \in Requests, NEW status, status \in Nat,
           request[r].pc # "answered",
           request' = Answered(r, status),
           ~IsPublic(request[r]) /\ ~request[r].wasLive => status \in {400, 401, 500},
           SessionsFollow,
           LogsNoSql',
           ChangedBy(r, request[r])
    PROVE  RouterSound'
<1> DEFINE q == AnsweredRequest(r, status)
<1>1. /\ q \in Request
      /\ Answered(r, status) = [request EXCEPT ![r] = q]
      /\ q.pc = "answered" /\ q.sent = request[r].sent
      /\ q.origin = request[r].origin /\ q.wasLive = request[r].wasLive
      /\ q.answer = status
  <2>1. q = AnsweredRequest(r, status)
    OBVIOUS
  <2> HIDE DEF q
  <2> QED BY ONLY RouterSound, r \in Requests, status \in Nat, <2>1, AnsweredAs
<1> HIDE DEF q
<1>2. RequestSound(q, sessionRow')
  BY <1>1 DEF RequestSound, CookieKnown, AdmittedSoundly, AnsweredSoundly, IsPublic
<1>3. request' = [request EXCEPT ![r] = q]
  BY <1>1
<1>4. ChangedBy(r, q)
  BY <1>1 DEF ChangedBy
<1>5. changedBy' # changedBy => q.pc = "answered"
  BY <1>1
<1> QED
  BY ONLY RouterSound, r \in Requests, request[r].pc # "answered", SessionsFollow, LogsNoSql',
          <1>1, <1>2, <1>3, <1>4, <1>5, RequestStep, Zenon

\* Each step of the router keeps every request sound.
LEMMA RouterSoundStep == RouterSound /\ [RouterNext]_routerVars => RouterSound'
<1> SUFFICES ASSUME RouterSound, [RouterNext]_routerVars PROVE RouterSound'
  OBVIOUS
<1>1. /\ sessionRow \in [Tokens -> {"none", "live", "revoked", "expired"}]
      /\ request \in [Requests -> Request] /\ changedBy \subseteq Requests /\ LogsNoSql
  BY DEF RouterSound
<1>2. sessionRow' = sessionRow => SessionsFollow
  BY <1>1 DEF SessionsFollow
<1>3. changedBy' = changedBy => \A r, q : ChangedBy(r, q)
  BY DEF ChangedBy
<1>4. CASE SessionExpires
  <2>1. PICK t \in Tokens : /\ sessionRow[t] = "live"
                            /\ sessionRow' = [sessionRow EXCEPT ![t] = "expired"]
                            /\ request' = request /\ changedBy' = changedBy
                            /\ logged' = logged
    BY <1>4 DEF SessionExpires
  <2>2. sessionRow' \in [Tokens -> {"none", "live", "revoked", "expired"}]
    BY <1>1, <2>1
  <2>3. ASSUME NEW r \in Requests PROVE RequestSound(request[r], sessionRow')
    <3>1. RequestSound(request[r], sessionRow)
      BY DEF RouterSound
    <3> QED BY <1>1, <2>1, <3>1 DEF RequestSound, CookieKnown
  <2> QED BY <2>1, <2>2, <2>3 DEF RouterSound, LogsNoSql
<1>5. ASSUME NEW r \in Requests, Arrive(r) PROVE RouterSound'
  <2>1. PICK sent \in Sent, origin \in {"none", "own", "foreign"},
             cookie \in {t \in Tokens : sessionRow[t] # "none"} \cup {NoCookie, Forged} :
          request' = [request EXCEPT ![r] = [Waiting EXCEPT !.pc = "arrived", !.sent = sent,
              !.origin = origin, !.cookie = cookie,
              !.wasLive = cookie \in Tokens /\ sessionRow[cookie] = "live"]]
    BY <1>5 DEF Arrive
  <2>2. /\ request[r].pc = "idle" /\ sessionRow' = sessionRow
        /\ changedBy' = changedBy /\ logged' = logged
    BY <1>5 DEF Arrive
  <2> DEFINE q == [Waiting EXCEPT !.pc = "arrived", !.sent = sent,
              !.origin = origin, !.cookie = cookie,
              !.wasLive = cookie \in Tokens /\ sessionRow[cookie] = "live"]
  <2>3. q \in Request
    BY DEF Waiting, Request
  <2>4. /\ q.pc = "arrived" /\ q.cookie = cookie
        /\ cookie \in Tokens /\ sessionRow[cookie] = "live" => q.wasLive
    BY DEF Waiting
  <2>5. request' = [request EXCEPT ![r] = q]
    BY <2>1
  <2> HIDE DEF q
  <2>6. cookie \in Tokens => sessionRow[cookie] # "none"
    BY TokensAssumption DEF NoCookie, Forged
  <2>7. RequestSound(q, sessionRow')
    BY <2>2, <2>4, <2>6 DEF RequestSound, CookieKnown, AdmittedSoundly, AnsweredSoundly
  <2>8. LogsNoSql'
    BY <1>1, <2>2 DEF LogsNoSql
  <2> QED BY <1>2, <1>3, <1>5, <2>2, <2>3, <2>5, <2>7, <2>8, RequestStep
<1>6. ASSUME NEW r \in Requests, Admit(r) PROVE RouterSound'
  <2>1. /\ request[r].pc = "arrived" /\ sessionRow' = sessionRow
        /\ changedBy' = changedBy /\ logged' = logged
    BY <1>6 DEF Admit
  <2>2. LogsNoSql'
    BY <1>1, <2>1 DEF LogsNoSql
  <2>3. SessionsFollow /\ ChangedBy(r, request[r]) /\ request[r].pc # "answered"
    BY <1>2, <1>3, <2>1
  <2>4. ASSUME NEW status \in {400, 401}, request' = Answered(r, status) PROVE RouterSound'
    BY <1>6, <2>3, <2>2, <2>4, AnswerStep
  <2>5. ASSUME request' = [request EXCEPT ![r].pc = "admitted"],
               \/ Public(r)
               \/ (Unsafe(r) => SameOrigin(r)) /\ SessionLive(r)
        PROVE  RouterSound'
    <3> DEFINE q == [request[r] EXCEPT !.pc = "admitted"]
    <3>1. q \in Request
      BY <1>1 DEF Request
    <3>2. /\ q.pc = "admitted" /\ q.sent = request[r].sent /\ q.cookie = request[r].cookie
          /\ q.origin = request[r].origin /\ (request[r].wasLive => q.wasLive)
      BY <1>1 DEF Request
    <3>3. request' = [request EXCEPT ![r] = q]
      BY <1>1, <2>5 DEF Request
    <3> HIDE DEF q
    <3>4. CookieKnown(request[r], sessionRow)
      BY DEF RouterSound, RequestSound
    <3>5. CookieKnown(q, sessionRow)
      BY <2>1, <3>2, <3>4 DEF CookieKnown
    <3>6. AdmittedSoundly(q)
      <4>1. CASE Public(r)
        BY <3>2, <4>1 DEF Public, AdmittedSoundly, IsPublic
      <4>2. CASE (Unsafe(r) => SameOrigin(r)) /\ SessionLive(r)
        <5>1. request[r].wasLive
          BY <2>1, <3>4, <4>2 DEF CookieKnown, SessionLive
        <5>2. IsUnsafe(q) => q.origin # "foreign"
          BY <3>2, <4>2 DEF IsUnsafe, Unsafe, SameOrigin
        <5> QED BY <3>2, <5>1, <5>2 DEF AdmittedSoundly
      <4> QED BY <2>5, <4>1, <4>2
    <3>7. RequestSound(q, sessionRow')
      BY <2>1, <3>2, <3>5, <3>6 DEF RequestSound, AnsweredSoundly
    <3> QED BY <1>2, <1>3, <2>1, <2>2, <3>1, <3>3, <3>7, RequestStep
  <2> QED BY <1>6, <2>4, <2>5 DEF Admit
<1>7. ASSUME NEW r \in Requests, NotFound(r) PROVE RouterSound'
  <2>1. /\ request[r].pc = "admitted" /\ sessionRow' = sessionRow
        /\ changedBy' = changedBy /\ logged' = logged /\ request' = Answered(r, 404)
    BY <1>7 DEF NotFound
  <2>2. ~IsPublic(request[r]) => request[r].wasLive
    BY <2>1 DEF RouterSound, RequestSound, AdmittedSoundly
  <2>3. LogsNoSql'
    BY <1>1, <2>1 DEF LogsNoSql
  <2> QED BY <1>2, <1>3, <2>1, <2>2, <2>3, AnswerStep
<1>8. ASSUME NEW r \in Requests, HandlePrivate(r) PROVE RouterSound'
  <2>1. /\ request[r].pc = "admitted" /\ sessionRow' = sessionRow
        /\ logged' = logged /\ request' = Answered(r, 200)
        /\ request[r].sent \in PrivateRoutes
        /\ changedBy' = IF Unsafe(r) THEN changedBy \cup {r} ELSE changedBy
    BY <1>8 DEF HandlePrivate
  <2>2. ~IsPublic(request[r])
    BY <2>1, RoutePaths DEF IsPublic
  <2>3. request[r].wasLive /\ (IsUnsafe(request[r]) => request[r].origin # "foreign")
    BY <2>1, <2>2 DEF RouterSound, RequestSound, AdmittedSoundly
  <2>4. LogsNoSql'
    BY <1>1, <2>1 DEF LogsNoSql
  <2>5. ChangedBy(r, request[r])
    BY <2>1, <2>3 DEF Unsafe, IsUnsafe, ChangedBy
  <2> QED BY <1>2, <2>1, <2>3, <2>4, <2>5, AnswerStep
<1>9. ASSUME NEW r \in Requests,
             request[r].sent \in PublicRoutes, request[r].pc = "admitted",
             NEW status, status \in Nat, request' = Answered(r, status),
             logged' = logged, SessionsFollow, ChangedBy(r, request[r])
      PROVE  RouterSound'
  <2>1. IsPublic(request[r])
    BY <1>9, RoutePaths DEF IsPublic
  <2>2. LogsNoSql'
    BY <1>1, <1>9 DEF LogsNoSql
  <2> QED BY <1>9, <2>1, <2>2, AnswerStep
<1>10. ASSUME NEW r \in Requests, RefusedOrigin(r) \/ RefusedCredentials(r) PROVE RouterSound'
  <2>1. /\ request[r].pc = "admitted" /\ sessionRow' = sessionRow
        /\ changedBy' = changedBy /\ logged' = logged
    BY <1>10 DEF RefusedOrigin, RefusedCredentials
  <2>2. request[r].sent \in PublicRoutes
    BY <1>10 DEF RefusedOrigin, RefusedCredentials, PublicRoutes
  <2>3. PICK status \in {400, 401, 409, 429} : request' = Answered(r, status)
    BY <1>10 DEF RefusedOrigin, RefusedCredentials
  <2> QED BY <1>2, <1>3, <1>9, <2>1, <2>2, <2>3
<1>11. ASSUME NEW r \in Requests, LoginSucceeds(r) PROVE RouterSound'
  <2>1. /\ request[r].pc = "admitted" /\ logged' = logged
        /\ request' = Answered(r, 200) /\ changedBy' = changedBy \cup {r}
        /\ SameOrigin(r) /\ request[r].sent = Post("auth/login")
    BY <1>11 DEF LoginSucceeds
  <2>2. PICK token \in Tokens : /\ sessionRow[token] = "none"
                                /\ sessionRow' = [sessionRow EXCEPT ![token] = "live"]
    BY <1>11 DEF LoginSucceeds
  <2>3. SessionsFollow
    BY <1>1, <2>2 DEF SessionsFollow
  <2>4. request[r].sent \in PublicRoutes /\ ChangedBy(r, request[r])
    BY <2>1 DEF PublicRoutes, SameOrigin, ChangedBy
  <2> QED BY <1>9, <2>1, <2>3, <2>4
<1>12. ASSUME NEW r \in Requests, Logout(r) PROVE RouterSound'
  <2>1. /\ request[r].pc = "admitted" /\ logged' = logged
        /\ request' = Answered(r, 200)
        /\ SameOrigin(r) /\ request[r].sent = Post("auth/logout")
        /\ sessionRow' = [t \in Tokens |-> IF t = request[r].cookie /\ sessionRow[t] = "live"
                                           THEN "revoked" ELSE sessionRow[t]]
        /\ changedBy' = changedBy \/ changedBy' = changedBy \cup {r}
    BY <1>12 DEF Logout
  <2>2. SessionsFollow
    BY <1>1, <2>1 DEF SessionsFollow
  <2>3. request[r].sent \in PublicRoutes /\ ChangedBy(r, request[r])
    BY <2>1 DEF PublicRoutes, SameOrigin, ChangedBy
  <2> QED BY <1>9, <2>1, <2>2, <2>3
<1>13. ASSUME NEW r \in Requests, HandlePublicRead(r) PROVE RouterSound'
  <2>1. /\ request[r].pc = "admitted" /\ sessionRow' = sessionRow
        /\ changedBy' = changedBy /\ logged' = logged
        /\ request[r].sent \in PublicRoutes
        /\ request' = Answered(r, 401) \/ request' = Answered(r, 200)
    BY <1>13 DEF HandlePublicRead
  <2> QED BY <1>2, <1>3, <1>9, <2>1
<1>14. ASSUME NEW r \in Requests, HandlerThrows(r) PROVE RouterSound'
  <2>1. /\ request[r].pc \in {"arrived", "admitted"} /\ request' = Answered(r, 500)
        /\ sessionRow' = sessionRow /\ changedBy' = changedBy
    BY <1>14 DEF HandlerThrows
  <2>2. PICK chain \in Thrown : logged' = logged \cup MessagesLogged(chain)
    BY <1>14 DEF HandlerThrows
  <2>3. "d1" \notin MessagesLogged(chain)
    <3>1. \A i \in {1, 2} : i <= ChainDepth
      BY ChainDepthAssumption
    <3>2. CASE IsD1Failure(chain)
      <4>1. MessagesLogged(chain) = {}
        BY <3>2 DEF MessagesLogged
      <4> QED BY <4>1
    <3>3. CASE ~IsD1Failure(chain)
      <4>1. ASSUME NEW i \in DOMAIN chain \cap {1, 2} PROVE chain[i] # "d1"
        BY <3>1, <3>3 DEF IsD1Failure
      <4>2. MessagesLogged(chain) = {chain[i] : i \in DOMAIN chain \cap {1, 2}}
        BY <3>3 DEF MessagesLogged
      <4> QED BY <4>1, <4>2
    <3> QED BY <3>2, <3>3
  <2>4. LogsNoSql'
    BY <1>1, <2>2, <2>3 DEF LogsNoSql
  <2> QED BY <1>2, <1>3, <2>1, <2>4, AnswerStep
<1>15. CASE UNCHANGED routerVars
  BY <1>15 DEF routerVars, RouterSound, LogsNoSql
<1> QED BY <1>4, <1>5, <1>6, <1>7, <1>8, <1>10, <1>11, <1>12, <1>13, <1>14, <1>15 DEF RouterNext

\* Whatever requests come, in whatever order their steps are taken, the router keeps
\* what the README promises: the middlewares of router.ts let no request reach a
\* private handler that came without a live session or, to change something, from
\* another origin; and no log has a message of D1's.
THEOREM RouterKeepsPromises == RouterSpec => []RouterInvariant
<1>1. RouterSound => RouterInvariant
  <2> SUFFICES ASSUME RouterSound PROVE RouterInvariant
    OBVIOUS
  <2>1. \A r \in Requests : AnsweredSoundly(request[r])
    BY DEF RouterSound, RequestSound
  <2>2. PrivateNeedsSession
    BY <2>1 DEF PrivateNeedsSession, AnsweredSoundly, Asked, Public, IsPublic
  <2>3. ForeignChangesNothing /\ LogsNoSql
    BY DEF RouterSound, ForeignChangesNothing
  <2> QED BY <2>2, <2>3 DEF RouterInvariant
<1> QED BY <1>1, RouterSoundInit, RouterSoundStep, PTL DEF RouterSpec

-----------------------------------------------------------------------------
(* The single owner *)

SetupEmails == Addresses \cup {<<>>}
SetupHashes == {DummyHash, HashOf("secret")}
SetupSteps == {"idle", "counted", "hashed", "answered"}
SetupPasswords == {"", "secret"}
SetupAnswers == {0, 201, 409}
SetupRow == [pc : SetupSteps, email : SetupEmails, password : SetupPasswords,
             hash : SetupHashes, answer : SetupAnswers]
LoginRow == [pc : {"idle", "sampled", "checked", "verified", "failed", "cleared"},
             at : Nat, password : {""} \cup Passwords]
AttemptRow == [failed : Nat, window : Nat, lockedUntil : Nat]

\* A setup knows its own address and its own hash, and has answered only at its end.
SetupSound(q) ==
    /\ q.pc # "answered" => q.answer = 0
    /\ q.pc \in {"counted", "hashed"} => q.email \in Addresses /\ q.password = "secret"
    /\ q.pc = "hashed" => q.hash = HashOf("secret")

\* A login's clock is in the past; one whose password was right found the owner.
LoginSound(q, now, users) ==
    /\ q.at <= now
    /\ q.pc # "idle" => q.at > 0
    /\ q.pc \in {"verified", "cleared"} => users # {}

AttemptSound(a, now) ==
    a = NoAttempt \/ /\ a.failed > 0 /\ a.window \in 1..now
                     /\ a.lockedUntil \in 0..(now + LoginLock)

ToldOwner(setups) == {s \in Setups : setups[s].answer = 201}

\* Either nobody is the owner, or one setup was told so.
OwnerSound(users, setups) ==
    \/ users = {} /\ ToldOwner(setups) = {}
    \/ \E u, w : users = {u} /\ ToldOwner(setups) = {w}

AuthSound ==
    /\ authClock \in Nat \ {0} /\ (authClock <= MaxLoginTime \/ authClock = 1)
    /\ setup \in [Setups -> SetupRow] /\ login \in [Logins -> LoginRow]
    /\ attempt \in AttemptRow /\ AttemptSound(attempt, authClock)
    /\ \A s \in Setups : SetupSound(setup[s])
    /\ \A l \in Logins : LoginSound(login[l], authClock, user)
    /\ OwnerSound(user, setup)
    /\ \A u \in user : u.email \in Addresses /\ u.hash = HashOf("secret")
    /\ session # 0 => user # {}

\* Base64url without padding, as password-hasher.ts cuts its padding to length, loses
\* nothing: any number of bytes is decoded again.
LEMMA Base64RoundTrips == \A n \in Nat \ {0} : Decoded(Encoded(n)) = n
<1> SUFFICES ASSUME NEW n, n \in Nat, n > 0 PROVE Decoded(Encoded(n)) = n
  OBVIOUS
<1> DEFINE k == n \div 3
<1>1. k \in Nat /\ (n = 3 * k \/ n = 3 * k + 1 \/ n = 3 * k + 2)
  OBVIOUS
<1> HIDE DEF k
<1>2. CASE n = 3 * k
  <2>1. Encoded(n) = 4 * k
    BY <1>1, <1>2 DEF Encoded
  <2>2. Padding(4 * k) = 0
    BY <1>1 DEF Padding
  <2> QED BY <1>1, <1>2, <2>1, <2>2 DEF Decoded
<1>3. CASE n = 3 * k + 1
  <2>1. Encoded(n) = 4 * k + 2
    BY <1>1, <1>3 DEF Encoded
  <2>2. Padding(4 * k + 2) = 2
    BY <1>1 DEF Padding
  <2> QED BY <1>1, <1>3, <2>1, <2>2 DEF Decoded
<1>4. CASE n = 3 * k + 2
  <2>1. Encoded(n) = 4 * k + 3
    BY <1>1, <1>4 DEF Encoded
  <2>2. Padding(4 * k + 3) = 1
    BY <1>1 DEF Padding
  <2> QED BY <1>1, <1>4, <2>1, <2>2 DEF Decoded
<1> QED BY <1>1, <1>2, <1>3, <1>4

\* The hash a setup stores is one the login accepts.
LEMMA OwnHashVerifies == PasswordVerified("secret", HashOf("secret"))
<1>1. /\ HashOf("secret").of = "secret" /\ HashOf("secret").iterations = 100000
      /\ HashOf("secret").salt = Encoded(16) /\ HashOf("secret").hash = Encoded(32)
  BY DEF HashOf
<1>2. Decoded(Encoded(16)) = 16 /\ Decoded(Encoded(32)) = 32
  BY Base64RoundTrips
<1> QED BY <1>1, <1>2 DEF PasswordVerified, HashParses

LEMMA AuthSoundInit == AuthInit => AuthSound
<1> SUFFICES ASSUME AuthInit PROVE AuthSound
  OBVIOUS
<1>1. setup \in [Setups -> SetupRow] /\ \A s \in Setups : SetupSound(setup[s])
  BY DEF AuthInit, SetupRow, SetupSound, SetupEmails, SetupHashes, SetupSteps, SetupPasswords,
         SetupAnswers
<1>2. login \in [Logins -> LoginRow]
  BY DEF AuthInit, LoginRow, Resting
<1>3. \A l \in Logins : LoginSound(login[l], authClock, user)
  <2> SUFFICES ASSUME NEW l \in Logins PROVE LoginSound(login[l], authClock, user)
    OBVIOUS
  <2>1. login[l].pc = "idle" /\ login[l].at = 0 /\ authClock = 1
    BY DEF AuthInit, Resting
  <2> QED BY <2>1 DEF LoginSound
<1>4. attempt \in AttemptRow /\ AttemptSound(attempt, authClock)
  BY DEF AuthInit, AttemptRow, AttemptSound, NoAttempt
<1>5. OwnerSound(user, setup)
  <2>1. user = {} /\ \A s \in Setups : setup[s].answer = 0
    BY DEF AuthInit
  <2> QED BY <2>1 DEF OwnerSound, ToldOwner
<1>6. user = {} /\ session = 0 /\ authClock = 1
  BY DEF AuthInit
<1>7. \A u \in user : u.email \in Addresses /\ u.hash = HashOf("secret")
  BY <1>6
<1> QED BY <1>1, <1>2, <1>3, <1>4, <1>5, <1>6, <1>7 DEF AuthSound

\* A step of one setup that tells nobody to be the owner.
LEMMA SetupStep ==
    ASSUME AuthSound, NEW s \in Setups, NEW q, q \in SetupRow, SetupSound(q),
           q.answer # 201, setup[s].pc # "answered",
           setup' = [setup EXCEPT ![s] = q],
           UNCHANGED <<authClock, user, attempt, login, session>>
    PROVE  AuthSound'
<1>1. /\ authClock' = authClock /\ user' = user /\ attempt' = attempt
      /\ login' = login /\ session' = session
  OBVIOUS
<1>2. setup' \in [Setups -> SetupRow] /\ \A t \in Setups : SetupSound(setup'[t])
  BY DEF AuthSound
<1>3. ToldOwner(setup') = ToldOwner(setup)
  <2>1. ASSUME NEW t \in Setups PROVE setup'[t].answer = 201 <=> setup[t].answer = 201
    BY DEF AuthSound, SetupSound
  <2> QED BY <2>1 DEF ToldOwner
<1>4. OwnerSound(user', setup')
  BY <1>1, <1>3 DEF AuthSound, OwnerSound
<1> QED BY <1>1, <1>2, <1>4 DEF AuthSound

\* A step of one login.
LEMMA LoginStep ==
    ASSUME AuthSound, NEW l \in Logins, NEW q, q \in LoginRow,
           LoginSound(q, authClock, user), login' = [login EXCEPT ![l] = q],
           attempt' \in AttemptRow, AttemptSound(attempt', authClock),
           session' # 0 => user # {}, UNCHANGED <<authClock, user, setup>>
    PROVE  AuthSound'
<1>1. authClock' = authClock /\ user' = user /\ setup' = setup
  OBVIOUS
<1>2. login' \in [Logins -> LoginRow]
  BY DEF AuthSound
<1>3. ASSUME NEW k \in Logins PROVE LoginSound(login'[k], authClock, user)
  BY DEF AuthSound
<1> QED BY <1>1, <1>2, <1>3 DEF AuthSound

\* Each step of the way in keeps its tables sound.
LEMMA AuthSoundStep == AuthSound /\ [AuthNext]_authVars => AuthSound'
<1> SUFFICES ASSUME AuthSound, [AuthNext]_authVars PROVE AuthSound'
  OBVIOUS
<1>1. /\ authClock \in Nat \ {0} /\ setup \in [Setups -> SetupRow]
      /\ login \in [Logins -> LoginRow]
  BY DEF AuthSound
<1>2. attempt \in AttemptRow /\ AttemptSound(attempt, authClock)
      /\ (session # 0 => user # {})
  BY DEF AuthSound
<1>3. Resting \in LoginRow /\ LoginSound(Resting, authClock, user)
  <2>1. Resting.pc = "idle" /\ Resting.at = 0 /\ Resting \in LoginRow
    BY DEF Resting, LoginRow
  <2> QED BY <1>1, <2>1 DEF LoginSound
<1>4. CASE AuthTick
  <2>1. /\ authClock' = authClock + 1 /\ authClock < MaxLoginTime
        /\ user' = user /\ setup' = setup /\ attempt' = attempt
        /\ login' = login /\ session' = session
    BY <1>4 DEF AuthTick
  <2>2. authClock' \in Nat \ {0} /\ authClock' <= MaxLoginTime /\ authClock < authClock'
    BY <1>1, <2>1, AuthenticationAssumption
  <2>3. AttemptSound(attempt, authClock')
    BY <1>1, <1>2, <2>1, AuthenticationAssumption DEF AttemptSound, AttemptRow
  <2>4. ASSUME NEW l \in Logins PROVE LoginSound(login[l], authClock', user)
    <3>1. LoginSound(login[l], authClock, user) /\ login[l].at \in Nat
      BY <1>1 DEF AuthSound, LoginRow
    <3> QED BY <1>1, <2>1, <3>1 DEF LoginSound
  <2> QED BY <1>2, <2>1, <2>2, <2>3, <2>4 DEF AuthSound
<1>5. ASSUME NEW s \in Setups, CountUsers(s) PROVE AuthSound'
  <2>1. PICK email \in Emails, spelled \in Spellings :
          setup' = [setup EXCEPT ![s] =
              [@ EXCEPT !.email = ValidateEmail(email, spelled), !.password = "secret",
                        !.pc = IF user = {} THEN "counted" ELSE "answered",
                        !.answer = IF user = {} THEN 0 ELSE 409]]
    BY <1>5 DEF CountUsers
  <2>2. UNCHANGED <<authClock, user, attempt, login, session>> /\ setup[s].pc = "idle"
    BY <1>5 DEF CountUsers
  <2> DEFINE address == ValidateEmail(email, spelled)
             word == IF user = {} THEN "counted" ELSE "answered"
             status == IF user = {} THEN 0 ELSE 409
             q == [setup[s] EXCEPT !.email = address, !.password = "secret",
                                   !.pc = word, !.answer = status]
  <2>3. address \in Addresses /\ address \in SetupEmails
    BY DEF ValidateEmail, Addresses, SetupEmails
  <2>4. /\ word \in {"counted", "answered"} /\ status \in {0, 409}
        /\ word # "answered" => status = 0
    OBVIOUS
  <2>5. setup' = [setup EXCEPT ![s] = q]
    BY <2>1
  <2> HIDE DEF address, word, status
  <2>6. setup[s] \in SetupRow
    BY <1>1
  <2>7. q \in SetupRow
    <3>1. word \in SetupSteps /\ status \in SetupAnswers
      BY <2>4 DEF SetupSteps, SetupAnswers
    <3>2. "secret" \in SetupPasswords
      BY DEF SetupPasswords
    <3> QED BY <2>3, <2>6, <3>1, <3>2 DEF SetupRow
  <2>8. /\ q.email = address /\ q.password = "secret"
        /\ q.pc = word /\ q.answer = status
    BY <2>6 DEF SetupRow
  <2> HIDE DEF q
  <2>9. SetupSound(q) /\ q.answer # 201
    BY <2>3, <2>8, <2>4 DEF SetupSound
  <2>10. setup[s].pc # "answered"
    BY <2>2
  <2> QED BY <2>2, <2>5, <2>7, <2>8, <2>9, <2>10, SetupStep
<1>6. ASSUME NEW s \in Setups, HashPassword(s) PROVE AuthSound'
  <2>1. /\ setup[s].pc = "counted"
        /\ setup' = [setup EXCEPT ![s] =
              [@ EXCEPT !.pc = "hashed", !.hash = HashOf(setup[s].password)]]
        /\ UNCHANGED <<authClock, user, attempt, login, session>>
    BY <1>6 DEF HashPassword
  <2>2. setup[s].answer = 0 /\ setup[s].email \in Addresses /\ setup[s].password = "secret"
    BY <2>1 DEF AuthSound, SetupSound
  <2> DEFINE hashed == HashOf(setup[s].password)
             q == [setup[s] EXCEPT !.pc = "hashed", !.hash = hashed]
  <2>3. setup' = [setup EXCEPT ![s] = q]
    BY <2>1
  <2>4. hashed = HashOf("secret") /\ hashed \in SetupHashes
    BY <2>2 DEF SetupHashes
  <2> HIDE DEF hashed
  <2>5. setup[s] \in SetupRow
    BY <1>1
  <2>6. q \in SetupRow
    <3>1. "hashed" \in SetupSteps
      BY DEF SetupSteps
    <3> QED BY <2>4, <2>5, <3>1 DEF SetupRow
  <2>7. /\ q.pc = "hashed" /\ q.hash = hashed /\ q.answer = setup[s].answer
        /\ q.email = setup[s].email /\ q.password = setup[s].password
    BY <2>5 DEF SetupRow
  <2> HIDE DEF q
  <2>8. SetupSound(q) /\ q.answer # 201 /\ setup[s].pc # "answered"
    BY <2>1, <2>2, <2>4, <2>7 DEF SetupSound
  <2> QED BY <2>1, <2>3, <2>6, <2>8, SetupStep
<1>7. ASSUME NEW s \in Setups, InsertOwner(s) PROVE AuthSound'
  <2> DEFINE free == ~UserConflicts(setup[s].email)
             row == [email |-> setup[s].email, hash |-> setup[s].hash]
             status == IF free THEN 201 ELSE 409
             q == [setup[s] EXCEPT !.pc = "answered", !.answer = status]
  <2>1. /\ setup[s].pc = "hashed"
        /\ user' = IF free THEN user \cup {row} ELSE user
        /\ setup' = [setup EXCEPT ![s] =
              [@ EXCEPT !.pc = "answered", !.answer = IF free THEN 201 ELSE 409]]
        /\ UNCHANGED <<authClock, attempt, login, session>>
    BY <1>7 DEF InsertOwner
  <2>2. /\ setup[s].answer = 0 /\ setup[s].email \in Addresses
        /\ setup[s].hash = HashOf("secret")
    BY <2>1 DEF AuthSound, SetupSound
  <2>3. setup' = [setup EXCEPT ![s] = q]
    BY <2>1
  <2>4. free => user = {}
    BY DEF UserConflicts
  <2>5. row.email = setup[s].email /\ row.hash = setup[s].hash
    OBVIOUS
  <2>6. /\ status \in {201, 409}
        /\ (free => status = 201) /\ (~free => status # 201)
    OBVIOUS
  <2> HIDE DEF free, row, status
  <2>7. setup[s] \in SetupRow
    BY <1>1
  <2>8. q \in SetupRow
    <3>1. "answered" \in SetupSteps /\ status \in SetupAnswers
      BY <2>6 DEF SetupSteps, SetupAnswers
    <3> QED BY <2>7, <3>1 DEF SetupRow
  <2>9. q.pc = "answered" /\ q.answer = status
    BY <2>7 DEF SetupRow
  <2> HIDE DEF q
  <2>10. SetupSound(q)
    BY <2>9 DEF SetupSound
  <2>11. CASE ~free
    <3>1. UNCHANGED <<authClock, user, attempt, login, session>>
          /\ q.answer # 201 /\ setup[s].pc # "answered"
      BY <2>1, <2>9, <2>11, <2>6
    <3> QED BY <2>3, <2>8, <2>10, <3>1, SetupStep
  <2>12. CASE free
    <3>1. user = {} /\ user' = {row}
      BY <2>1, <2>12, <2>4
    <3>2. ToldOwner(setup) = {}
      BY <3>1 DEF AuthSound, OwnerSound
    <3>3. ToldOwner(setup') = {s}
      <4>1. ASSUME NEW t \in Setups PROVE setup'[t].answer = 201 <=> t = s
        BY <1>1, <2>3, <2>9, <2>6, <2>12, <3>2 DEF ToldOwner
      <4> QED BY <4>1 DEF ToldOwner
    <3>4. OwnerSound(user', setup')
      BY <3>1, <3>3 DEF OwnerSound
    <3>5. setup' \in [Setups -> SetupRow] /\ \A t \in Setups : SetupSound(setup'[t])
      BY <2>3, <2>8, <2>10 DEF AuthSound
    <3>6. \A u \in user' : u.email \in Addresses /\ u.hash = HashOf("secret")
      BY <2>2, <2>5, <3>1
    <3>7. /\ authClock' = authClock /\ attempt' = attempt /\ login' = login
          /\ session' = session
      BY <2>1
    <3>8. ASSUME NEW l \in Logins PROVE LoginSound(login[l], authClock, user')
      <4>1. LoginSound(login[l], authClock, user)
        BY DEF AuthSound
      <4> QED BY <3>1, <4>1 DEF LoginSound
    <3>9. session' # 0 => user' # {}
      BY <3>1
    <3> QED BY <3>4, <3>5, <3>6, <3>7, <3>8, <3>9 DEF AuthSound
  <2> QED BY <2>11, <2>12
<1>8. ASSUME NEW l \in Logins, SampleClock(l) PROVE AuthSound'
  <2> DEFINE q == [login[l] EXCEPT !.pc = "sampled", !.at = authClock]
  <2>1. /\ login' = [login EXCEPT ![l].pc = "sampled", ![l].at = authClock]
        /\ UNCHANGED <<authClock, user, setup>> /\ attempt' = attempt /\ session' = session
    BY <1>8 DEF SampleClock
  <2>2. login' = [login EXCEPT ![l] = q] /\ q \in LoginRow
    BY <1>1, <2>1 DEF LoginRow
  <2>3. q.pc = "sampled" /\ q.at = authClock
    BY <1>1 DEF LoginRow
  <2> HIDE DEF q
  <2>4. LoginSound(q, authClock, user)
    BY <1>1, <2>3 DEF LoginSound
  <2> QED BY <1>2, <2>1, <2>2, <2>4, LoginStep
<1>9. ASSUME NEW l \in Logins,
             NEW word \in {"checked", "verified", "failed", "cleared"},
             NEW typed \in {""} \cup Passwords,
             login[l].pc # "idle",
             word \in {"verified", "cleared"} => user # {},
             login' = [login EXCEPT ![l] = [login[l] EXCEPT !.pc = word, !.password = typed]],
             attempt' \in AttemptRow, AttemptSound(attempt', authClock),
             session' # 0 => user # {}, UNCHANGED <<authClock, user, setup>>
      PROVE  AuthSound'
  <2> DEFINE q == [login[l] EXCEPT !.pc = word, !.password = typed]
  <2>1. q \in LoginRow
    BY <1>1 DEF LoginRow
  <2>2. q.pc = word /\ q.at = login[l].at
    BY <1>1 DEF LoginRow
  <2>3. login' = [login EXCEPT ![l] = q]
    BY <1>9
  <2> HIDE DEF q
  <2>4. LoginSound(login[l], authClock, user)
    BY DEF AuthSound
  <2>5. LoginSound(q, authClock, user)
    BY <1>9, <2>2, <2>4 DEF LoginSound
  <2> QED BY <1>9, <2>1, <2>3, <2>5, LoginStep
<1>10. ASSUME NEW l \in Logins, CheckLock(l) PROVE AuthSound'
  <2>1. /\ login' = [login EXCEPT ![l] = IF Locked(l) THEN Resting
                                         ELSE [@ EXCEPT !.pc = "checked"]]
        /\ UNCHANGED <<authClock, user, setup>> /\ attempt' = attempt /\ session' = session
        /\ login[l].pc = "sampled"
    BY <1>10 DEF CheckLock
  <2>2. CASE Locked(l)
    BY <1>2, <1>3, <2>1, <2>2, LoginStep
  <2>3. CASE ~Locked(l)
    <3>1. [login[l] EXCEPT !.pc = "checked"] =
            [login[l] EXCEPT !.pc = "checked", !.password = login[l].password]
      BY <1>1 DEF LoginRow
    <3>2. login[l].password \in {""} \cup Passwords
      BY <1>1 DEF LoginRow
    <3> QED BY <1>2, <1>9, <2>1, <2>3, <3>1, <3>2
  <2> QED BY <2>2, <2>3
<1>11. ASSUME NEW l \in Logins, Verify(l) PROVE AuthSound'
  <2>1. PICK spelled \in Spellings, password \in Passwords :
          login' = [login EXCEPT ![l].password = password,
                       ![l].pc = IF Credentials(spelled, password) THEN "verified" ELSE "failed"]
    BY <1>11 DEF Verify
  <2>2. /\ UNCHANGED <<authClock, user, setup>> /\ attempt' = attempt /\ session' = session
        /\ login[l].pc = "checked"
    BY <1>11 DEF Verify
  <2> DEFINE word == IF Credentials(spelled, password) THEN "verified" ELSE "failed"
  <2>3. word \in {"verified", "failed"} /\ (word = "verified" => user # {})
    BY DEF Credentials
  <2>4. login' = [login EXCEPT ![l].password = password, ![l].pc = word]
    BY <2>1
  <2> HIDE DEF word
  <2>5. login' = [login EXCEPT ![l] = [login[l] EXCEPT !.pc = word, !.password = password]]
    BY <1>1, <2>4 DEF LoginRow
  <2> QED BY <1>2, <1>9, <2>2, <2>3, <2>5
<1>12. ASSUME NEW l \in Logins, RecordFailedLogin(l) PROVE AuthSound'
  <2>1. /\ attempt' = Counted(login[l].at) /\ login' = [login EXCEPT ![l] = Resting]
        /\ UNCHANGED <<authClock, user, setup>> /\ session' = session
        /\ login[l].pc = "failed"
    BY <1>12 DEF RecordFailedLogin
  <2>2. /\ login[l].at \in Nat /\ login[l].at > 0 /\ login[l].at <= authClock
    BY <1>1, <2>1 DEF AuthSound, LoginSound, LoginRow
  <2>3. attempt' \in AttemptRow /\ AttemptSound(attempt', authClock)
    <3> DEFINE at == login[l].at
               restarts == attempt = NoAttempt \/ attempt.window + LoginWindow <= at
               failed == IF restarts THEN 1 ELSE attempt.failed + 1
               window == IF restarts THEN at ELSE attempt.window
               until == IF attempt # NoAttempt /\ failed >= LoginMax THEN at + LoginLock ELSE 0
    <3>1. attempt' = [failed |-> failed, window |-> window, lockedUntil |-> until]
      BY <2>1 DEF Counted
    <3>2. failed \in Nat /\ failed > 0
      BY <1>2 DEF AttemptRow
    <3>3. window \in 1..authClock
      BY <1>2, <1>1, <2>2 DEF AttemptRow, AttemptSound
    <3>4. until \in 0..(authClock + LoginLock)
      BY <1>1, <2>2, AuthenticationAssumption
    <3> HIDE DEF failed, window, until
    <3>5. attempt' \in AttemptRow
      BY <1>1, <3>1, <3>2, <3>3, <3>4, AuthenticationAssumption DEF AttemptRow
    <3>6. attempt'.failed > 0 /\ attempt'.window \in 1..authClock
          /\ attempt'.lockedUntil \in 0..(authClock + LoginLock)
      BY <3>1, <3>2, <3>3, <3>4
    <3> QED BY <3>5, <3>6 DEF AttemptSound
  <2> QED BY <1>2, <1>3, <2>1, <2>3, LoginStep
<1>13. ASSUME NEW l \in Logins, ClearLoginAttempts(l) PROVE AuthSound'
  <2>1. /\ attempt' = NoAttempt /\ login' = [login EXCEPT ![l].pc = "cleared"]
        /\ UNCHANGED <<authClock, user, setup>> /\ session' = session
        /\ login[l].pc = "verified"
    BY <1>13 DEF ClearLoginAttempts
  <2>2. user # {}
    BY <2>1 DEF AuthSound, LoginSound
  <2>3. attempt' \in AttemptRow /\ AttemptSound(attempt', authClock)
    BY <2>1 DEF NoAttempt, AttemptRow, AttemptSound
  <2>4. login' = [login EXCEPT ![l] = [login[l] EXCEPT !.pc = "cleared",
                                                      !.password = login[l].password]]
    BY <1>1, <2>1 DEF LoginRow
  <2>5. login[l].password \in {""} \cup Passwords
    BY <1>1 DEF LoginRow
  <2> QED BY <1>2, <1>9, <2>1, <2>2, <2>3, <2>4, <2>5
<1>14. ASSUME NEW l \in Logins, CreateSession(l) PROVE AuthSound'
  <2>1. /\ login' = [login EXCEPT ![l] = Resting] /\ login[l].pc = "cleared"
        /\ UNCHANGED <<authClock, user, setup>> /\ attempt' = attempt
    BY <1>14 DEF CreateSession
  <2>2. user # {}
    BY <2>1 DEF AuthSound, LoginSound
  <2> QED BY <1>2, <1>3, <2>1, <2>2, LoginStep
<1>15. ASSUME NEW l \in Logins, LoginBreaks(l) PROVE AuthSound'
  <2>1. /\ login' = [login EXCEPT ![l] = Resting] /\ UNCHANGED <<authClock, user, setup>>
        /\ attempt' = attempt /\ session' = session
    BY <1>15 DEF LoginBreaks
  <2> QED BY <1>2, <1>3, <2>1, LoginStep
<1>16. CASE UNCHANGED authVars
  BY <1>16 DEF authVars, AuthSound
<1>17. ASSUME NEW s \in Setups, CountUsers(s) \/ HashPassword(s) \/ InsertOwner(s)
       PROVE  AuthSound'
  BY <1>17, <1>5, <1>6, <1>7
<1>18. ASSUME NEW l \in Logins,
              \/ SampleClock(l) \/ CheckLock(l) \/ Verify(l)
              \/ RecordFailedLogin(l) \/ ClearLoginAttempts(l) \/ CreateSession(l)
              \/ LoginBreaks(l)
       PROVE  AuthSound'
  BY <1>18, <1>8, <1>10, <1>11, <1>12, <1>13, <1>14, <1>15
<1> QED BY <1>4, <1>16, <1>17, <1>18 DEF AuthNext

\* There is one owner at most, and exactly the setup that made it was told so, however
\* many setups of auth-service.ts counted no user at once: the table's constraint decides.
\* With it, every row of the authentication tables is one they accept, and the owner's
\* password is one the login verifies.
THEOREM OneOwnerEver ==
    AuthSpec => [](AuthTypeInvariant /\ OneOwner
                   /\ \A u \in user : PasswordVerified("secret", u.hash))
<1> DEFINE Promise == AuthTypeInvariant /\ OneOwner
                      /\ \A u \in user : PasswordVerified("secret", u.hash)
<1>1. AuthSound => Promise
  <2> SUFFICES ASSUME AuthSound PROVE Promise
    OBVIOUS
  <2>1. authClock \in 1..MaxLoginTime \/ authClock = 1
    BY AuthenticationAssumption DEF AuthSound
  <2>2. attempt = NoAttempt \/ /\ attempt.failed > 0 /\ attempt.window \in 1..authClock
                               /\ attempt.lockedUntil \in 0..(authClock + LoginLock)
    BY DEF AuthSound, AttemptSound
  <2>3. ASSUME NEW l \in Logins
        PROVE  /\ login[l].pc \in {"idle", "sampled", "checked", "verified",
                                   "failed", "cleared"}
               /\ login[l].at \in 0..authClock
    <3>1. login[l] \in LoginRow /\ LoginSound(login[l], authClock, user)
          /\ authClock \in Nat
      BY DEF AuthSound
    <3>2. login[l].at \in Nat /\ login[l].at <= authClock
          /\ login[l].pc \in {"idle", "sampled", "checked", "verified", "failed", "cleared"}
      BY <3>1 DEF LoginRow, LoginSound
    <3> QED BY <3>1, <3>2
  <2>4. (\A u \in user : u.email \in Addresses) /\ (session # 0 => user # {})
    BY DEF AuthSound
  <2>5. AuthTypeInvariant
    BY <2>1, <2>2, <2>3, <2>4 DEF AuthTypeInvariant
  <2>6. OneOwner
    <3>1. {s \in Setups : setup[s].answer = 201} = ToldOwner(setup)
      BY DEF ToldOwner
    <3>2. CASE user = {} /\ ToldOwner(setup) = {}
      <4>1. Cardinality({}) = 0
        BY FS_EmptySet
      <4>2. Cardinality(user) = 0 /\ Cardinality(ToldOwner(setup)) = 0
        BY <3>2, <4>1
      <4> QED BY <4>2 DEF OneOwner, ToldOwner
    <3>3. ASSUME NEW u, NEW w, user = {u}, ToldOwner(setup) = {w} PROVE OneOwner
      <4>1. Cardinality(user) = 1 /\ Cardinality(ToldOwner(setup)) = 1
        BY <3>3, FS_Singleton
      <4> QED BY <4>1 DEF OneOwner, ToldOwner
    <3> QED BY <3>2, <3>3 DEF AuthSound, OwnerSound
  <2>7. \A u \in user : PasswordVerified("secret", u.hash)
    BY OwnHashVerifies DEF AuthSound
  <2> QED BY <2>5, <2>6, <2>7
<1> HIDE DEF Promise
<1>2. AuthSpec => []Promise
  BY <1>1, AuthSoundInit, AuthSoundStep, PTL DEF AuthSpec
<1> QED BY <1>2 DEF Promise


-----------------------------------------------------------------------------
(* The guesses of a span *)

Requesters == Cardinality(Logins)
LoginTimes == 1..MaxLoginTime

\* The guesses after t.
Later(g, t) == [s \in LoginTimes |-> IF s > t THEN g[s] ELSE 0]
Spent(g, t) == SumOf(Later(g, t), LoginTimes)

\* What Spent is worth: a number, nothing where there are no guesses, less where there
\* are fewer, and one more at most after a guess.
LEMMA SpentFacts ==
    ASSUME NEW g, g \in [LoginTimes -> Nat], NEW t, t \in Int
    PROVE  /\ Spent(g, t) \in Int
           /\ (\A s \in LoginTimes : s > t => g[s] = 0) => Spent(g, t) = 0
           /\ \A h, u : /\ h \in [LoginTimes -> Nat] /\ u \in Int
                        /\ \A s \in LoginTimes : s > t => g[s] = 0 \/ (s > u /\ g[s] <= h[s])
                        => Spent(g, t) <= Spent(h, u)
           /\ \A h, now : h \in [LoginTimes -> Nat] /\ g = [h EXCEPT ![now] = @ + 1]
                          => Spent(g, t) <= Spent(h, t) + 1
<1>1. IsFiniteSet(LoginTimes)
  BY AuthenticationAssumption, FS_Interval DEF LoginTimes
<1>2. ASSUME NEW s \in LoginTimes
      PROVE  s \in Int /\ g[s] \in Nat /\ Later(g, t)[s] = (IF s > t THEN g[s] ELSE 0)
             /\ Later(g, t)[s] \in Int
  BY DEF LoginTimes, Later
<1>3. Spent(g, t) \in Int
  BY <1>1, <1>2, SumIsInt DEF Spent
<1>4. ASSUME \A s \in LoginTimes : s > t => g[s] = 0
      PROVE  Spent(g, t) = 0
  <2>1. \A s \in LoginTimes : Later(g, t)[s] = 0
    BY <1>2, <1>4
  <2> QED BY <1>1, <2>1, SumOfZeros DEF Spent
<1>5. ASSUME NEW h, NEW u, h \in [LoginTimes -> Nat], u \in Int,
             \A s \in LoginTimes : s > t => g[s] = 0 \/ (s > u /\ g[s] <= h[s])
      PROVE  Spent(g, t) <= Spent(h, u)
  <2>1. ASSUME NEW s \in LoginTimes
        PROVE  Later(h, u)[s] \in Int /\ Later(g, t)[s] <= Later(h, u)[s]
    <3>1. Later(h, u)[s] = (IF s > u THEN h[s] ELSE 0) /\ h[s] \in Nat
      BY <1>5 DEF Later
    <3>2. s \in Int /\ g[s] \in Nat /\ Later(g, t)[s] = (IF s > t THEN g[s] ELSE 0)
      BY <1>2
    <3> QED BY <1>5, <3>1, <3>2
  <2> QED BY <1>1, <1>2, <2>1, SumMonotone DEF Spent
<1>6. ASSUME NEW h, NEW now, h \in [LoginTimes -> Nat], g = [h EXCEPT ![now] = @ + 1]
      PROVE  Spent(g, t) <= Spent(h, t) + 1
  <2>1. ASSUME NEW s \in LoginTimes
        PROVE  /\ h[s] \in Nat /\ Later(h, t)[s] = (IF s > t THEN h[s] ELSE 0)
               /\ Later(h, t)[s] \in Int
               /\ s # now => Later(g, t)[s] <= Later(h, t)[s]
               /\ s = now => Later(g, t)[s] <= Later(h, t)[s] + 1
    <3>1. Later(h, t)[s] = (IF s > t THEN h[s] ELSE 0) /\ h[s] \in Nat
      BY <1>6 DEF Later
    <3>2. g[s] = (IF s = now THEN h[s] + 1 ELSE h[s])
      BY <1>6
    <3>3. s \in Int /\ Later(g, t)[s] = (IF s > t THEN g[s] ELSE 0)
      BY <1>2
    <3> QED BY <3>1, <3>2, <3>3
  <2>2. Spent(h, t) \in Int
    BY <1>1, <2>1, SumIsInt DEF Spent
  <2>3. CASE now \notin LoginTimes
    <3>1. \A s \in LoginTimes : Later(g, t)[s] <= Later(h, t)[s]
      BY <2>1, <2>3
    <3>2. Spent(g, t) <= Spent(h, t)
      BY <1>1, <1>2, <2>1, <3>1, SumMonotone DEF Spent
    <3> QED BY <1>3, <2>2, <3>2
  <2>4. CASE now \in LoginTimes
    <3> DEFINE R == LoginTimes \ {now}
    <3>1. IsFiniteSet(R)
      BY <1>1, FS_Subset
    <3>2. Spent(g, t) = Later(g, t)[now] + SumOf(Later(g, t), R)
      BY <1>1, <1>2, <2>4, SumRemove DEF Spent
    <3>3. Spent(h, t) = Later(h, t)[now] + SumOf(Later(h, t), R)
      BY <1>1, <2>1, <2>4, SumRemove DEF Spent
    <3>4. SumOf(Later(g, t), R) <= SumOf(Later(h, t), R)
      BY <1>2, <2>1, <3>1, SumMonotone
    <3>5. SumOf(Later(g, t), R) \in Int /\ SumOf(Later(h, t), R) \in Int
      BY <1>2, <2>1, <3>1, SumIsInt
    <3>6. Later(g, t)[now] <= Later(h, t)[now] + 1
          /\ Later(g, t)[now] \in Int /\ Later(h, t)[now] \in Int
      BY <1>2, <2>1, <2>4
    <3> QED BY <3>2, <3>3, <3>4, <3>5, <3>6
  <2> QED BY <2>3, <2>4
<1> QED BY <1>3, <1>4, <1>5, <1>6

\* Requests end within half a window, a lock lasts as long as a window, and there are
\* finitely many requests: auth-service.ts locks for the quarter of an hour that it
\* counts, after five guesses.
LoginTiming ==
    /\ IsFiniteSet(Logins)
    /\ LoginMax > 1
    /\ LoginWindow <= LoginLock
    /\ 2 * MaxLoginDelay <= LoginWindow

\* Requests of clock t or before that are still under way.
Flying(q, t) == {l \in Logins : q[l].pc # "idle" /\ q[l].at <= t}

\* Requests that passed the check of the lock, and may yet record a guess.
Passed(q) == {l \in Logins : q[l].pc \in {"checked", "failed"}}

\* The least lock of a window's row: one that a request from before it has set.
LeastLock(a) == a.window - MaxLoginDelay + LoginLock

\* Those that passed it before such a lock could end, and those that passed it since,
\* in the row's window.
Early(q, a) == {l \in Passed(q) : q[l].at < LeastLock(a)}
Returned(q, a) == {l \in Passed(q) : q[l].at >= LeastLock(a)
                                     /\ q[l].at < a.window + LoginWindow}
Stale(q, a) == \E l \in Passed(q) : q[l].at < a.window

\* The history has the guesses of the last window, and requests do not last.
HistoryKept(now, g, q) ==
    /\ now \in Nat \ {0} /\ g \in [LoginTimes -> Nat] /\ q \in [Logins -> LoginRow]
    /\ \A s \in LoginTimes : s > now \/ s + LoginWindow <= now => g[s] = 0
    /\ \A l \in Logins : q[l].pc # "idle" => /\ q[l].at > 0 /\ q[l].at <= now
                                             /\ now <= q[l].at + MaxLoginDelay

\* A guess that the row takes after its window's end came from a request that was
\* under way at the end, and each request is good for one.
StragglersCounted(g, a, q) ==
    \A t \in Nat : a.window + LoginWindow - 1 <= t
                   => Spent(g, t) + Cardinality(Flying(q, t)) <= Requesters

\* The guesses since the row's window began, and those of before, against its count.
SpansCounted(g, a) ==
    /\ Spent(g, a.window) <= Requesters - 1 + a.failed
    /\ Spent(g, a.window + MaxLoginDelay) <= a.failed
    /\ Spent(g, 0) <= Requesters - 1 + WindowBound + a.failed
    /\ Spent(g, a.window - MaxLoginDelay) <= WindowBound + a.failed

\* Once the row has locked, each request that passed the check is good for one guess
\* more; requests pass it again only if one from before the window set a shorter lock,
\* and then no such request is left.
WavesCounted(now, a, q) ==
    a.failed >= LoginMax =>
        /\ a.lockedUntil >= LeastLock(a)
        /\ a.failed + Cardinality(Early(q, a)) + Cardinality(Returned(q, a)) <= WindowBound
        /\ a.lockedUntil < a.window + LoginWindow \/ Stale(q, a)
              => a.failed + Cardinality(Early(q, a)) <= LoginMax - 1 + Requesters
        /\ a.failed + Cardinality(Early(q, a)) > LoginMax - 1 + Requesters
              => now >= LeastLock(a)

LimitSound(now, a) == /\ a \in AttemptRow /\ a.failed > 0
                    /\ a.window > 0 /\ a.window <= now

GuessSound(now, g, a, q) ==
    /\ HistoryKept(now, g, q)
    /\ \/ a = NoAttempt /\ \A s \in LoginTimes : g[s] = 0
       \/ /\ LimitSound(now, a)
          /\ StragglersCounted(g, a, q) /\ SpansCounted(g, a) /\ WavesCounted(now, a, q)

\* Sets of requests, counted.
LEMMA RequestersCount ==
    ASSUME LoginTiming
    PROVE  /\ Requesters \in Nat /\ WindowBound = LoginMax - 1 + 2 * Requesters
           /\ WindowBound \in Nat /\ LoginMax \in Nat
           /\ \A A \in SUBSET Logins :
                 /\ IsFiniteSet(A) /\ Cardinality(A) \in Nat /\ Cardinality(A) <= Requesters
                 /\ \A B \in SUBSET A : Cardinality(B) <= Cardinality(A)
                 /\ \A l \in A : Cardinality(A \ {l}) = Cardinality(A) - 1
<1>1. Requesters \in Nat /\ LoginMax \in Nat /\ LoginMax > 1
  BY FS_CardinalityType, AuthenticationAssumption DEF Requesters, LoginTiming
<1>2. ASSUME NEW A \in SUBSET Logins
      PROVE  /\ IsFiniteSet(A) /\ Cardinality(A) \in Nat /\ Cardinality(A) <= Requesters
             /\ \A B \in SUBSET A : Cardinality(B) <= Cardinality(A)
             /\ \A l \in A : Cardinality(A \ {l}) = Cardinality(A) - 1
  <2>1. IsFiniteSet(A) /\ Cardinality(A) <= Requesters
    BY FS_Subset DEF Requesters, LoginTiming
  <2>2. Cardinality(A) \in Nat /\ \A B \in SUBSET A : Cardinality(B) <= Cardinality(A)
    BY <2>1, FS_CardinalityType, FS_Subset
  <2>3. \A l \in A : Cardinality(A \ {l}) = Cardinality(A) - 1
    BY <2>1, FS_RemoveElement
  <2> QED BY <2>1, <2>2, <2>3
<1> QED BY <1>1, <1>2 DEF WindowBound, Requesters

\* What a sound state has of the guesses: the bounds of the row and of the span.
LEMMA SoundIsBounded ==
    ASSUME LoginTiming, NEW now, NEW g, NEW a, NEW q, GuessSound(now, g, a, q)
    PROVE  a.failed <= WindowBound /\ Spent(g, 0) <= 2 * WindowBound
<1> DEFINE L == Requesters
           early == Cardinality(Early(q, a))
           returned == Cardinality(Returned(q, a))
<1>1. /\ L \in Nat /\ WindowBound = LoginMax - 1 + 2 * L
      /\ WindowBound \in Nat /\ LoginMax \in Nat
  BY RequestersCount
<1>2. early \in Nat /\ returned \in Nat /\ early <= L /\ returned <= L
  BY RequestersCount DEF Early, Returned, Passed
<1>3. g \in [LoginTimes -> Nat] /\ Spent(g, 0) \in Int
  BY SpentFacts DEF GuessSound, HistoryKept
<1>4. CASE a = NoAttempt /\ \A s \in LoginTimes : g[s] = 0
  <2>1. Spent(g, 0) = 0
    BY <1>3, <1>4, SpentFacts
  <2>2. a.failed = 0
    BY <1>4 DEF NoAttempt
  <2> QED BY <1>1, <2>1, <2>2
<1>5. CASE LimitSound(now, a) /\ SpansCounted(g, a) /\ WavesCounted(now, a, q)
  <2>1. a.failed \in Nat /\ a.window \in Nat
    BY <1>5 DEF LimitSound, AttemptRow
  <2> HIDE DEF L, early, returned
  <2>2. CASE a.failed + early <= LoginMax - 1 + L
    <3>1. a.failed <= LoginMax - 1 + L
      BY <1>1, <1>2, <2>1, <2>2
    <3>2. Spent(g, 0) <= L - 1 + WindowBound + a.failed
      BY <1>5 DEF SpansCounted, L
    <3> QED BY <1>1, <1>3, <2>1, <3>1, <3>2
  <2>3. CASE ~(a.failed + early <= LoginMax - 1 + L)
    <3>1. CASE a.failed < LoginMax
      <4>1. Spent(g, 0) <= L - 1 + WindowBound + a.failed
        BY <1>5 DEF SpansCounted, L
      <4> QED BY <1>1, <1>3, <2>1, <3>1, <4>1
    <3>2. CASE a.failed >= LoginMax
      <4>1. a.failed + early + returned <= WindowBound /\ now >= LeastLock(a)
        BY <1>1, <1>2, <1>5, <2>1, <2>3, <3>2 DEF WavesCounted, L, early, returned
      <4>2. a.failed <= WindowBound
        BY <1>1, <1>2, <2>1, <4>1
      <4>3. Spent(g, 0) <= Spent(g, a.window - MaxLoginDelay)
            /\ Spent(g, a.window - MaxLoginDelay) \in Int
        <5>1. ASSUME NEW s \in LoginTimes
              PROVE  g[s] = 0 \/ s > a.window - MaxLoginDelay
          <6>1. s \in Nat /\ now \in Nat
            BY <1>3, AuthenticationAssumption DEF LoginTimes, GuessSound, HistoryKept
          <6>2. s + LoginWindow <= now => g[s] = 0
            BY DEF GuessSound, HistoryKept
          <6> QED BY <2>1, <4>1, <6>1, <6>2, AuthenticationAssumption
                  DEF LeastLock, LoginTiming
        <5>2. \A s \in LoginTimes : g[s] <= g[s]
          BY <1>3
        <5>3. a.window - MaxLoginDelay \in Int
          BY <2>1, AuthenticationAssumption
        <5> QED BY <1>3, <5>1, <5>2, <5>3, SpentFacts
      <4>4. Spent(g, a.window - MaxLoginDelay) <= WindowBound + a.failed
        BY <1>5 DEF SpansCounted
      <4> QED BY <1>1, <1>3, <2>1, <4>2, <4>3, <4>4
    <3> QED BY <2>1, <1>1, <3>1, <3>2
  <2> QED BY <2>2, <2>3
<1> QED BY <1>4, <1>5 DEF GuessSound

\* The requests of q by their groups: numbers, and what is left without one of them.
LEMMA GroupsCount ==
    ASSUME LoginTiming, NEW q, NEW a
    PROVE  /\ Cardinality(Early(q, a)) \in Nat /\ Cardinality(Early(q, a)) <= Requesters
           /\ Cardinality(Returned(q, a)) \in Nat
           /\ Cardinality(Returned(q, a)) <= Requesters
           /\ \A t : Cardinality(Flying(q, t)) \in Nat
                     /\ Cardinality(Flying(q, t)) <= Requesters
<1>1. Early(q, a) \in SUBSET Logins /\ Returned(q, a) \in SUBSET Logins
      /\ \A t : Flying(q, t) \in SUBSET Logins
  BY DEF Early, Returned, Passed, Flying
<1> QED BY <1>1, RequestersCount

\* A request that rests, or goes on without passing a check, adds to no group.
LEMMA CalmStep ==
    ASSUME LoginTiming, NEW now, NEW g, NEW a, NEW q, GuessSound(now, g, a, q),
           NEW l \in Logins, NEW r, r \in LoginRow,
           \/ r.pc = "idle"
           \/ /\ q[l].pc # "idle" /\ r.at = q[l].at
              /\ r.pc \in {"checked", "failed"} => q[l].pc \in {"checked", "failed"}
    PROVE  GuessSound(now, g, a, [q EXCEPT ![l] = r])
<1> DEFINE p == [q EXCEPT ![l] = r]
<1>1. q \in [Logins -> LoginRow] /\ p \in [Logins -> LoginRow] /\ p[l] = r
      /\ \A k \in Logins : k # l => p[k] = q[k]
  BY DEF GuessSound, HistoryKept
<1> HIDE DEF p
<1>2. HistoryKept(now, g, p)
  BY <1>1 DEF GuessSound, HistoryKept
<1>3. CASE a = NoAttempt /\ \A s \in LoginTimes : g[s] = 0
  BY <1>2, <1>3 DEF GuessSound, p
<1>4. CASE LimitSound(now, a) /\ StragglersCounted(g, a, q) /\ SpansCounted(g, a)
           /\ WavesCounted(now, a, q)
  <2>1. \A t : Flying(p, t) \subseteq Flying(q, t)
    BY <1>1 DEF Flying
  <2>2. /\ Early(p, a) \subseteq Early(q, a) /\ Returned(p, a) \subseteq Returned(q, a)
        /\ Stale(p, a) => Stale(q, a)
    BY <1>1 DEF Early, Returned, Stale, Passed
  <2>3. \A t : Cardinality(Flying(p, t)) <= Cardinality(Flying(q, t))
    <3>1. \A t : Flying(q, t) \in SUBSET Logins
      BY DEF Flying
    <3> QED BY <2>1, <3>1, RequestersCount
  <2>4. /\ Cardinality(Early(p, a)) <= Cardinality(Early(q, a))
        /\ Cardinality(Returned(p, a)) <= Cardinality(Returned(q, a))
    <3>1. Early(q, a) \in SUBSET Logins /\ Returned(q, a) \in SUBSET Logins
      BY DEF Early, Returned, Passed
    <3> QED BY <2>2, <3>1, RequestersCount
  <2>5. StragglersCounted(g, a, p)
    <3> SUFFICES ASSUME NEW t \in Nat, a.window + LoginWindow - 1 <= t
                 PROVE  Spent(g, t) + Cardinality(Flying(p, t)) <= Requesters
      BY DEF StragglersCounted
    <3>1. Spent(g, t) + Cardinality(Flying(q, t)) <= Requesters
      BY <1>4 DEF StragglersCounted
    <3>2. Spent(g, t) \in Int
      BY SpentFacts DEF GuessSound, HistoryKept
    <3>3. /\ Requesters \in Nat
          /\ Cardinality(Flying(p, t)) \in Nat /\ Cardinality(Flying(q, t)) \in Nat
      BY GroupsCount, RequestersCount
    <3> QED BY <2>3, <3>1, <3>2, <3>3
  <2>6. WavesCounted(now, a, p)
    <3>1. /\ a.failed \in Nat /\ LoginMax \in Nat /\ Requesters \in Nat /\ WindowBound \in Nat
          /\ Cardinality(Early(p, a)) \in Nat /\ Cardinality(Early(q, a)) \in Nat
          /\ Cardinality(Returned(p, a)) \in Nat /\ Cardinality(Returned(q, a)) \in Nat
      BY <1>4, GroupsCount, RequestersCount DEF LimitSound, AttemptRow
    <3> QED BY <1>4, <2>2, <2>4, <3>1 DEF WavesCounted
  <2> QED BY <1>2, <1>4, <2>5, <2>6 DEF GuessSound, p
<1> QED BY <1>3, <1>4 DEF GuessSound

\* A request samples the clock: it is under way from now, and no guess is later.
LEMMA SampleStep ==
    ASSUME LoginTiming, NEW now, NEW g, NEW a, NEW q, GuessSound(now, g, a, q),
           NEW l \in Logins, NEW r, r \in LoginRow, q[l].pc = "idle",
           r.pc = "sampled", r.at = now
    PROVE  GuessSound(now, g, a, [q EXCEPT ![l] = r])
<1> DEFINE p == [q EXCEPT ![l] = r]
<1>1. /\ q \in [Logins -> LoginRow] /\ p \in [Logins -> LoginRow] /\ p[l] = r
      /\ \A k \in Logins : k # l => p[k] = q[k]
      /\ now \in Nat \ {0} /\ g \in [LoginTimes -> Nat]
  BY DEF GuessSound, HistoryKept
<1> HIDE DEF p
<1>2. HistoryKept(now, g, p)
  BY <1>1, AuthenticationAssumption DEF GuessSound, HistoryKept
<1>3. CASE a = NoAttempt /\ \A s \in LoginTimes : g[s] = 0
  BY <1>2, <1>3 DEF GuessSound, p
<1>4. CASE LimitSound(now, a) /\ StragglersCounted(g, a, q) /\ SpansCounted(g, a)
           /\ WavesCounted(now, a, q)
  <2>1. ASSUME NEW t \in Nat, t < now PROVE Flying(p, t) = Flying(q, t)
    BY <1>1, <2>1 DEF Flying
  <2>2. Passed(p) = Passed(q)
    BY <1>1 DEF Passed
  <2>3. /\ Early(p, a) = Early(q, a) /\ Returned(p, a) = Returned(q, a)
        /\ Stale(p, a) <=> Stale(q, a)
    <3>1. \A k \in Passed(q) : p[k] = q[k]
      BY <1>1 DEF Passed
    <3>2. Early(p, a) = Early(q, a) /\ Returned(p, a) = Returned(q, a)
      BY <2>2, <3>1 DEF Early, Returned
    <3> QED BY <2>2, <3>1, <3>2 DEF Stale
  <2>4. StragglersCounted(g, a, p)
    <3> SUFFICES ASSUME NEW t \in Nat, a.window + LoginWindow - 1 <= t
                 PROVE  Spent(g, t) + Cardinality(Flying(p, t)) <= Requesters
      BY DEF StragglersCounted
    <3>1. CASE t < now
      BY <1>4, <2>1, <3>1 DEF StragglersCounted
    <3>2. CASE ~(t < now)
      <4>1. ASSUME NEW s \in LoginTimes, s > t PROVE g[s] = 0
        <5>1. s \in Nat /\ s > now
          BY <1>1, <3>2, <4>1, AuthenticationAssumption DEF LoginTimes
        <5> QED BY <5>1 DEF GuessSound, HistoryKept
      <4>2. Spent(g, t) = 0
        BY <1>1, <4>1, SpentFacts
      <4>3. Cardinality(Flying(p, t)) \in Nat /\ Cardinality(Flying(p, t)) <= Requesters
            /\ Requesters \in Nat
        BY GroupsCount, RequestersCount
      <4> QED BY <4>2, <4>3
    <3> QED BY <3>1, <3>2
  <2>5. WavesCounted(now, a, p)
    BY <1>4, <2>3 DEF WavesCounted
  <2> QED BY <1>2, <1>4, <2>4, <2>5 DEF GuessSound, p
<1> QED BY <1>3, <1>4 DEF GuessSound

\* The clock advances: what leaves the span is forgotten.
LEMMA ClockStep ==
    ASSUME LoginTiming, NEW now, NEW g, NEW a, NEW q, GuessSound(now, g, a, q),
           \A l \in Logins : q[l].pc # "idle" => now < q[l].at + MaxLoginDelay,
           NEW h, h = [t \in LoginTimes |-> IF t + LoginWindow <= now + 1 THEN 0 ELSE g[t]]
    PROVE  GuessSound(now + 1, h, a, q)
<1>1. /\ q \in [Logins -> LoginRow] /\ now \in Nat \ {0} /\ g \in [LoginTimes -> Nat]
      /\ h \in [LoginTimes -> Nat]
      /\ \A s \in LoginTimes : s \in Nat /\ h[s] <= g[s] /\ (g[s] = 0 => h[s] = 0)
                               /\ (s + LoginWindow <= now + 1 => h[s] = 0)
  BY AuthenticationAssumption DEF GuessSound, HistoryKept, LoginTimes
<1>2. HistoryKept(now + 1, h, q)
  <2>1. \A s \in LoginTimes : s > now + 1 => h[s] = 0
    BY <1>1 DEF GuessSound, HistoryKept
  <2>2. ASSUME NEW l \in Logins, q[l].pc # "idle"
        PROVE  q[l].at > 0 /\ q[l].at <= now + 1 /\ now + 1 <= q[l].at + MaxLoginDelay
    <3>1. q[l].at > 0 /\ q[l].at <= now /\ q[l].at \in Nat
      BY <1>1, <2>2 DEF GuessSound, HistoryKept, LoginRow
    <3> QED BY <1>1, <2>2, <3>1, AuthenticationAssumption
  <2> QED BY <1>1, <2>1, <2>2 DEF HistoryKept
<1>3. CASE a = NoAttempt /\ \A s \in LoginTimes : g[s] = 0
  BY <1>1, <1>2, <1>3 DEF GuessSound
<1>4. CASE LimitSound(now, a) /\ StragglersCounted(g, a, q) /\ SpansCounted(g, a)
           /\ WavesCounted(now, a, q)
  <2>1. ASSUME NEW t, t \in Int
        PROVE  Spent(h, t) <= Spent(g, t) /\ Spent(h, t) \in Int /\ Spent(g, t) \in Int
    BY <1>1, <2>1, SpentFacts
  <2>2. StragglersCounted(h, a, q)
    <3> SUFFICES ASSUME NEW t \in Nat, a.window + LoginWindow - 1 <= t
                 PROVE  Spent(h, t) + Cardinality(Flying(q, t)) <= Requesters
      BY DEF StragglersCounted
    <3>1. Spent(g, t) + Cardinality(Flying(q, t)) <= Requesters
      BY <1>4 DEF StragglersCounted
    <3>2. Cardinality(Flying(q, t)) \in Nat /\ Requesters \in Nat
      BY GroupsCount, RequestersCount
    <3>3. Spent(h, t) <= Spent(g, t) /\ Spent(h, t) \in Int /\ Spent(g, t) \in Int
      BY <2>1
    <3> QED BY <3>1, <3>2, <3>3
  <2>3. a.failed \in Nat /\ a.window \in Nat /\ a.lockedUntil \in Nat
        /\ Requesters \in Nat /\ WindowBound \in Nat /\ MaxLoginDelay \in Nat
    BY <1>4, RequestersCount, AuthenticationAssumption DEF LimitSound, AttemptRow
  <2>4. SpansCounted(h, a)
    <3>1. Spent(h, a.window) <= Requesters - 1 + a.failed
      BY <1>4, <2>1, <2>3 DEF SpansCounted
    <3>2. Spent(h, a.window + MaxLoginDelay) <= a.failed
      BY <1>4, <2>1, <2>3 DEF SpansCounted
    <3>3. Spent(h, 0) <= Requesters - 1 + WindowBound + a.failed
      BY <1>4, <2>1, <2>3 DEF SpansCounted
    <3>4. Spent(h, a.window - MaxLoginDelay) <= WindowBound + a.failed
      BY <1>4, <2>1, <2>3 DEF SpansCounted
    <3> QED BY <3>1, <3>2, <3>3, <3>4 DEF SpansCounted
  <2>5. WavesCounted(now + 1, a, q)
    <3>1. now >= LeastLock(a) => now + 1 >= LeastLock(a)
      BY <1>1, <2>3, AuthenticationAssumption DEF LeastLock
    <3> QED BY <1>4, <3>1 DEF WavesCounted
  <2>6. LimitSound(now + 1, a)
    BY <1>1, <1>4, <2>3 DEF LimitSound
  <2> QED BY <1>2, <1>4, <2>2, <2>4, <2>5, <2>6 DEF GuessSound
<1> QED BY <1>3, <1>4 DEF GuessSound

\* A request passes the check: after a lock, one that sampled the clock since.
LEMMA PassStep ==
    ASSUME LoginTiming, NEW now, NEW g, NEW a, NEW q, GuessSound(now, g, a, q),
           NEW l \in Logins, NEW r, r \in LoginRow, q[l].pc # "idle",
           r.pc = "checked", r.at = q[l].at, a.lockedUntil <= q[l].at
    PROVE  GuessSound(now, g, a, [q EXCEPT ![l] = r])
<1> DEFINE p == [q EXCEPT ![l] = r]
<1>1. /\ q \in [Logins -> LoginRow] /\ p \in [Logins -> LoginRow] /\ p[l] = r
      /\ \A k \in Logins : k # l => p[k] = q[k]
      /\ now \in Nat \ {0} /\ g \in [LoginTimes -> Nat] /\ q[l].at \in Nat
  BY DEF GuessSound, HistoryKept, LoginRow
<1> HIDE DEF p
<1>2. HistoryKept(now, g, p)
  BY <1>1 DEF GuessSound, HistoryKept
<1>3. CASE a = NoAttempt /\ \A s \in LoginTimes : g[s] = 0
  BY <1>2, <1>3 DEF GuessSound, p
<1>4. CASE LimitSound(now, a) /\ StragglersCounted(g, a, q) /\ SpansCounted(g, a)
           /\ WavesCounted(now, a, q)
  <2>1. ASSUME NEW t PROVE Flying(p, t) = Flying(q, t)
    BY <1>1 DEF Flying
  <2>2. StragglersCounted(g, a, p)
    BY <1>4, <2>1 DEF StragglersCounted
  <2>3. /\ a.failed \in Nat /\ a.window \in Nat /\ a.lockedUntil \in Nat
        /\ LoginMax \in Nat /\ Requesters \in Nat
        /\ WindowBound = LoginMax - 1 + 2 * Requesters
        /\ LoginLock \in Nat /\ LoginWindow \in Nat /\ MaxLoginDelay \in Nat
        /\ LoginWindow <= LoginLock /\ 2 * MaxLoginDelay <= LoginWindow
    BY <1>4, RequestersCount, AuthenticationAssumption
       DEF LimitSound, AttemptRow, LoginTiming
  <2>4. CASE a.failed < LoginMax
    <3>1. WavesCounted(now, a, p)
      BY <2>3, <2>4 DEF WavesCounted
    <3> QED BY <1>2, <1>4, <2>2, <3>1 DEF GuessSound, p
  <2>5. CASE a.failed >= LoginMax
    <3>1. q[l].at >= LeastLock(a) /\ LeastLock(a) \in Int /\ q[l].at >= a.window
      BY <1>1, <1>4, <2>3, <2>5 DEF WavesCounted, LeastLock
    <3>2. Early(p, a) \subseteq Early(q, a)
      BY <1>1, <2>3, <3>1 DEF Early, Passed
    <3>3. Stale(p, a) => Stale(q, a)
      BY <1>1, <2>3, <3>1 DEF Stale, Passed
    <3>4. /\ Cardinality(Early(p, a)) \in Nat /\ Cardinality(Early(q, a)) \in Nat
          /\ Cardinality(Returned(p, a)) \in Nat /\ Cardinality(Returned(q, a)) \in Nat
          /\ Cardinality(Returned(p, a)) <= Requesters
      BY GroupsCount
    <3>5. Cardinality(Early(p, a)) <= Cardinality(Early(q, a))
      <4>1. Early(q, a) \in SUBSET Logins
        BY DEF Early, Passed
      <4> QED BY <3>2, <4>1, RequestersCount
    <3>6. a.failed + Cardinality(Early(p, a)) + Cardinality(Returned(p, a)) <= WindowBound
      <4>1. CASE q[l].at < a.window + LoginWindow
        <5>1. a.lockedUntil < a.window + LoginWindow
          BY <1>1, <2>3, <4>1
        <5>2. a.failed + Cardinality(Early(q, a)) <= LoginMax - 1 + Requesters
          BY <1>4, <2>5, <5>1 DEF WavesCounted
        <5> QED BY <2>3, <3>4, <3>5, <5>2
      <4>2. CASE ~(q[l].at < a.window + LoginWindow)
        <5>1. Returned(p, a) \subseteq Returned(q, a) /\ Returned(q, a) \in SUBSET Logins
          BY <1>1, <4>2 DEF Returned, Passed
        <5>2. Cardinality(Returned(p, a)) <= Cardinality(Returned(q, a))
          BY <5>1, RequestersCount
        <5>3. a.failed + Cardinality(Early(q, a)) + Cardinality(Returned(q, a))
              <= WindowBound
          BY <1>4, <2>5 DEF WavesCounted
        <5> QED BY <2>3, <3>4, <3>5, <5>2, <5>3
      <4> QED BY <4>1, <4>2
    <3>7. a.lockedUntil < a.window + LoginWindow \/ Stale(p, a)
             => a.failed + Cardinality(Early(p, a)) <= LoginMax - 1 + Requesters
      BY <1>4, <2>3, <2>5, <3>3, <3>4, <3>5 DEF WavesCounted
    <3>8. a.failed + Cardinality(Early(p, a)) > LoginMax - 1 + Requesters
             => now >= LeastLock(a)
      BY <1>4, <2>3, <2>5, <3>4, <3>5 DEF WavesCounted
    <3>9. WavesCounted(now, a, p)
      BY <1>4, <2>5, <3>6, <3>7, <3>8 DEF WavesCounted
    <3> QED BY <1>2, <1>4, <2>2, <3>9 DEF GuessSound, p
  <2> QED BY <2>3, <2>4, <2>5
<1> QED BY <1>3, <1>4 DEF GuessSound

GuessAdded(g, now) == [g EXCEPT ![now] = @ + 1]
Rested(q, l) == [q EXCEPT ![l] = Resting]

\* What any recorded guess does to the history and to the groups.
LEMMA GuessRecorded ==
    ASSUME LoginTiming, NEW now, NEW g, NEW a, NEW q, GuessSound(now, g, a, q),
           NEW l \in Logins, q[l].pc = "failed",
           NEW h, h = GuessAdded(g, now), NEW p, p = Rested(q, l)
    PROVE  /\ HistoryKept(now, h, p)
           /\ \A t \in Int : Spent(h, t) \in Int
           /\ \A t \in Int : Spent(g, t) \in Int
           /\ \A t \in Int : Spent(h, t) <= Spent(g, t) + 1
           /\ \A t \in Int : t >= now => Spent(h, t) = 0
           /\ \A t \in Nat : Cardinality(Flying(p, t)) <= Requesters - 1
           /\ \A t \in Nat : q[l].at <= t => Cardinality(Flying(p, t))
                                             = Cardinality(Flying(q, t)) - 1
           /\ Passed(p) = Passed(q) \ {l} /\ \A k \in Passed(p) : p[k] = q[k]
           /\ q[l].at \in Nat /\ q[l].at > 0 /\ q[l].at <= now
           /\ now <= q[l].at + MaxLoginDelay
<1>1. /\ q \in [Logins -> LoginRow] /\ p \in [Logins -> LoginRow] /\ p[l] = Resting
      /\ \A k \in Logins : k # l => p[k] = q[k]
      /\ now \in Nat \ {0} /\ g \in [LoginTimes -> Nat] /\ h \in [LoginTimes -> Nat]
  <2>1. Resting \in LoginRow
    BY DEF Resting, LoginRow
  <2>2. q \in [Logins -> LoginRow] /\ now \in Nat \ {0} /\ g \in [LoginTimes -> Nat]
    BY DEF GuessSound, HistoryKept
  <2>3. h \in [LoginTimes -> Nat]
    <3> DEFINE more == g[now] + 1
    <3>1. now \in LoginTimes => more \in Nat
      BY <2>2
    <3>2. h = [g EXCEPT ![now] = more]
      BY DEF GuessAdded
    <3> HIDE DEF more
    <3> QED BY <2>2, <3>1, <3>2
  <2>4. p \in [Logins -> LoginRow] /\ p[l] = Resting
    BY <2>1, <2>2 DEF Rested
  <2>5. \A k \in Logins : k # l => p[k] = q[k]
    BY <2>2 DEF Rested
  <2> QED BY <2>2, <2>3, <2>4, <2>5
<1>2. Resting.pc = "idle"
  BY DEF Resting
<1>3. /\ q[l].at \in Nat /\ q[l].at > 0 /\ q[l].at <= now
      /\ now <= q[l].at + MaxLoginDelay
  BY <1>1 DEF GuessSound, HistoryKept, LoginRow
<1>4. \A s \in LoginTimes : s # now => h[s] = g[s]
  BY <1>1 DEF GuessAdded
<1>5. HistoryKept(now, h, p)
  <2>1. ASSUME NEW s \in LoginTimes, s > now \/ s + LoginWindow <= now
        PROVE  h[s] = 0
    <3>1. s # now
      BY <1>1, <2>1, AuthenticationAssumption DEF LoginTimes
    <3>2. g[s] = 0
      BY <2>1 DEF GuessSound, HistoryKept
    <3> QED BY <1>4, <3>1, <3>2
  <2>2. \A k \in Logins : p[k].pc # "idle" => p[k] = q[k]
    BY <1>1, <1>2
  <2> QED BY <1>1, <2>1, <2>2 DEF GuessSound, HistoryKept
<1>6. ASSUME NEW t \in Int
      PROVE  /\ Spent(h, t) \in Int /\ Spent(g, t) \in Int
             /\ Spent(h, t) <= Spent(g, t) + 1
             /\ t >= now => Spent(h, t) = 0
  <2>1. Spent(h, t) \in Int /\ Spent(g, t) \in Int
    BY <1>1, SpentFacts
  <2>2. Spent(h, t) <= Spent(g, t) + 1
    BY <1>1, SpentFacts DEF GuessAdded
  <2>3. ASSUME t >= now PROVE Spent(h, t) = 0
    <3>1. ASSUME NEW s \in LoginTimes, s > t PROVE h[s] = 0
      <4>1. s > now
        BY <1>1, <2>3, <3>1, AuthenticationAssumption DEF LoginTimes
      <4> QED BY <1>5, <4>1 DEF HistoryKept
    <3> QED BY <1>1, <3>1, SpentFacts
  <2> QED BY <2>1, <2>2, <2>3
<1>7. ASSUME NEW t \in Nat
      PROVE  /\ Cardinality(Flying(p, t)) <= Requesters - 1
             /\ q[l].at <= t => Cardinality(Flying(p, t))
                                = Cardinality(Flying(q, t)) - 1
  <2>1. Flying(p, t) = Flying(q, t) \ {l} /\ Flying(q, t) \in SUBSET Logins
    BY <1>1, <1>2 DEF Flying
  <2>2. q[l].at <= t => l \in Flying(q, t)
    BY DEF Flying
  <2>3. Cardinality(Flying(p, t)) <= Requesters - 1
    <3>1. Logins \in SUBSET Logins /\ Logins \ {l} \in SUBSET Logins
          /\ Flying(p, t) \in SUBSET (Logins \ {l})
      BY <2>1
    <3>2. Cardinality(Logins \ {l}) = Requesters - 1
      BY <3>1, RequestersCount DEF Requesters
    <3> QED BY <3>1, <3>2, RequestersCount
  <2> QED BY <2>1, <2>2, <2>3, RequestersCount
<1>8. Passed(p) = Passed(q) \ {l}
  BY <1>1, <1>2 DEF Passed
<1>9. \A k \in Passed(p) : p[k] = q[k]
  BY <1>1, <1>8 DEF Passed
<1> QED BY <1>3, <1>5, <1>6, <1>7, <1>8, <1>9

\* The guess that begins a row's window, the first of all or one past its end.
LEMMA WindowBegins ==
    ASSUME LoginTiming, NEW now, NEW g, NEW a, NEW q, GuessSound(now, g, a, q),
           NEW l \in Logins, q[l].pc = "failed",
           NEW h, h = GuessAdded(g, now), NEW p, p = Rested(q, l),
           a = NoAttempt \/ a.window + LoginWindow <= q[l].at,
           NEW b, LimitSound(now, b), b.failed = 1, b.window = q[l].at
    PROVE  GuessSound(now, h, b, p)
<1> DEFINE at == q[l].at
           L == Requesters
<1>1. /\ HistoryKept(now, h, p)
      /\ \A t \in Int : Spent(h, t) \in Int
      /\ \A t \in Int : Spent(g, t) \in Int
      /\ \A t \in Int : Spent(h, t) <= Spent(g, t) + 1
      /\ \A t \in Int : t >= now => Spent(h, t) = 0
      /\ \A t \in Nat : Cardinality(Flying(p, t)) <= L - 1
      /\ \A t \in Nat : at <= t => Cardinality(Flying(p, t)) = Cardinality(Flying(q, t)) - 1
      /\ at \in Nat /\ at > 0 /\ at <= now /\ now <= at + MaxLoginDelay
  BY GuessRecorded
<1>2. /\ L \in Nat /\ WindowBound = LoginMax - 1 + 2 * L
      /\ WindowBound \in Nat /\ LoginMax \in Nat /\ LoginMax > 1
  BY RequestersCount DEF LoginTiming
<1>3. /\ LoginWindow \in Nat /\ LoginWindow > 0 /\ MaxLoginDelay \in Nat
      /\ 2 * MaxLoginDelay <= LoginWindow
      /\ now \in Nat
  BY AuthenticationAssumption DEF LoginTiming, GuessSound, HistoryKept
<1>4. \A t : Cardinality(Flying(p, t)) \in Nat /\ Cardinality(Flying(q, t)) \in Nat
             /\ Cardinality(Flying(q, t)) <= L
  BY GroupsCount
<1>5. L - 1 \in Nat
  <2>1. Cardinality(Flying(p, at)) <= L - 1 /\ Cardinality(Flying(p, at)) \in Nat
    BY <1>1, <1>4
  <2> QED BY <1>2, <2>1
<1> HIDE DEF at, L
<1>6. WavesCounted(now, b, p)
  BY <1>2 DEF WavesCounted
<1>7. /\ \A t \in Nat : at + LoginWindow - 1 <= t
                        => Spent(h, t) + Cardinality(Flying(p, t)) <= L
      /\ Spent(h, at) <= L
      /\ Spent(h, at + MaxLoginDelay) <= 1
      /\ Spent(h, 0) <= L + WindowBound
      /\ Spent(h, at - MaxLoginDelay) <= WindowBound + 1
  <2>1. at + MaxLoginDelay \in Int /\ at - MaxLoginDelay \in Int /\ at \in Int /\ 0 \in Int
    BY <1>1, <1>3
  <2>2. CASE a = NoAttempt /\ \A s \in LoginTimes : g[s] = 0
    <3>1. ASSUME NEW t \in Int PROVE Spent(h, t) <= 1 /\ Spent(h, t) \in Int
      <4>1. Spent(g, t) = 0
        BY <2>2, SpentFacts DEF GuessSound, HistoryKept
      <4> QED BY <1>1, <4>1
    <3>2. ASSUME NEW t \in Nat PROVE Spent(h, t) + Cardinality(Flying(p, t)) <= L
      <4>1. Spent(h, t) <= 1 /\ Spent(h, t) \in Int
        BY <3>1
      <4> QED BY <1>1, <1>2, <1>4, <4>1
    <3>3. Spent(h, at) <= 1 /\ Spent(h, at + MaxLoginDelay) <= 1 /\ Spent(h, 0) <= 1
          /\ Spent(h, at - MaxLoginDelay) <= 1
      BY <2>1, <3>1
    <3>4. /\ Spent(h, at) \in Int /\ Spent(h, at + MaxLoginDelay) \in Int
          /\ Spent(h, 0) \in Int /\ Spent(h, at - MaxLoginDelay) \in Int
      BY <2>1, <3>1
    <3> QED BY <1>2, <1>5, <3>2, <3>3, <3>4
  <2>3. CASE LimitSound(now, a) /\ StragglersCounted(g, a, q) /\ SpansCounted(g, a)
    <3>1. a # NoAttempt /\ a.window \in Nat /\ a.failed \in Nat
      BY <2>3 DEF LimitSound, AttemptRow, NoAttempt
    <3>2. a.window + LoginWindow <= at
      BY <3>1 DEF at
    <3>3. ASSUME NEW t \in Nat, at <= t
          PROVE  Spent(h, t) + Cardinality(Flying(p, t)) <= L
      <4>1. Spent(g, t) + Cardinality(Flying(q, t)) <= L
        BY <1>1, <1>3, <2>3, <3>1, <3>2, <3>3 DEF StragglersCounted, L
      <4>2. Cardinality(Flying(p, t)) = Cardinality(Flying(q, t)) - 1
        BY <1>1, <3>3
      <4>3. Spent(h, t) \in Int /\ Spent(g, t) \in Int /\ Spent(h, t) <= Spent(g, t) + 1
        BY <1>1
      <4> QED BY <1>2, <1>4, <4>1, <4>2, <4>3
    <3>4. Spent(h, at) <= L
      <4>1. Spent(h, at) + Cardinality(Flying(p, at)) <= L
        BY <1>1, <3>3
      <4> QED BY <1>1, <1>2, <1>4, <2>1, <4>1
    <3>5. Spent(h, at + MaxLoginDelay) <= 1
      BY <1>1, <1>3, <2>1
    <3>6. a.failed <= WindowBound
      BY SoundIsBounded
    <3>7. Spent(h, 0) <= L + WindowBound
      <4>1. Spent(g, 0) <= Spent(g, a.window)
        <5>1. ASSUME NEW s \in LoginTimes PROVE g[s] = 0 \/ s > a.window
          <6>1. s \in Nat /\ (s + LoginWindow <= now => g[s] = 0)
            BY AuthenticationAssumption DEF LoginTimes, GuessSound, HistoryKept
          <6> QED BY <1>1, <1>3, <3>1, <3>2, <6>1
        <5>2. g \in [LoginTimes -> Nat]
          BY DEF GuessSound, HistoryKept
        <5>3. \A s \in LoginTimes : g[s] <= g[s]
          BY <5>2
        <5> QED BY <3>1, <5>1, <5>2, <5>3, SpentFacts
      <4>2. Spent(g, a.window) <= L - 1 + a.failed
        BY <2>3 DEF SpansCounted, L
      <4>3. Spent(g, a.window) \in Int /\ Spent(g, 0) \in Int /\ Spent(h, 0) \in Int
            /\ Spent(h, 0) <= Spent(g, 0) + 1
        BY <1>1, <3>1
      <4> QED BY <1>2, <3>1, <3>6, <4>1, <4>2, <4>3
    <3>8. Spent(h, at - MaxLoginDelay) <= WindowBound + 1
      <4>1. a.window + MaxLoginDelay \in Int
            /\ a.window + MaxLoginDelay <= at - MaxLoginDelay
        BY <1>1, <1>3, <3>1, <3>2
      <4>2. Spent(g, at - MaxLoginDelay) <= Spent(g, a.window + MaxLoginDelay)
        <5>1. ASSUME NEW s \in LoginTimes, s > at - MaxLoginDelay
              PROVE  s > a.window + MaxLoginDelay
          BY <2>1, <4>1, <5>1, AuthenticationAssumption DEF LoginTimes
        <5>2. g \in [LoginTimes -> Nat]
          BY DEF GuessSound, HistoryKept
        <5>3. \A s \in LoginTimes : g[s] <= g[s]
          BY <5>2
        <5> QED BY <2>1, <4>1, <5>1, <5>2, <5>3, SpentFacts
      <4>3. Spent(g, a.window + MaxLoginDelay) <= a.failed
        BY <2>3 DEF SpansCounted
      <4>4. /\ Spent(g, at - MaxLoginDelay) \in Int /\ Spent(h, at - MaxLoginDelay) \in Int
            /\ Spent(h, at - MaxLoginDelay) <= Spent(g, at - MaxLoginDelay) + 1
            /\ Spent(g, a.window + MaxLoginDelay) \in Int
        BY <1>1, <2>1, <4>1
      <4> QED BY <1>2, <3>1, <3>6, <4>2, <4>3, <4>4
    <3>9. ASSUME NEW t \in Nat, at + LoginWindow - 1 <= t
          PROVE  Spent(h, t) + Cardinality(Flying(p, t)) <= L
      <4>1. at <= t
        BY <1>1, <1>3, <3>9
      <4> QED BY <3>3, <4>1
    <3> QED BY <3>4, <3>5, <3>7, <3>8, <3>9
  <2> QED BY <2>2, <2>3 DEF GuessSound
<1>8. StragglersCounted(h, b, p)
  BY <1>7 DEF StragglersCounted, at, L
<1>9. SpansCounted(h, b)
  <2>1. Spent(h, b.window) <= Requesters - 1 + b.failed
    BY <1>2, <1>7 DEF at, L
  <2>2. Spent(h, b.window + MaxLoginDelay) <= b.failed
    BY <1>7 DEF at
  <2>3. Spent(h, 0) <= Requesters - 1 + WindowBound + b.failed
    BY <1>2, <1>7 DEF L
  <2>4. Spent(h, b.window - MaxLoginDelay) <= WindowBound + b.failed
    BY <1>7 DEF at
  <2> QED BY <2>1, <2>2, <2>3, <2>4 DEF SpansCounted
<1> QED BY <1>1, <1>6, <1>8, <1>9 DEF GuessSound

\* A guess that a row's window counts.
LEMMA WindowGoesOn ==
    ASSUME LoginTiming, NEW now, NEW g, NEW a, NEW q, GuessSound(now, g, a, q),
           NEW l \in Logins, q[l].pc = "failed",
           NEW h, h = GuessAdded(g, now), NEW p, p = Rested(q, l),
           a # NoAttempt, q[l].at < a.window + LoginWindow,
           NEW b, LimitSound(now, b), b.failed = a.failed + 1, b.window = a.window,
           b.failed >= LoginMax => b.lockedUntil = q[l].at + LoginLock
    PROVE  GuessSound(now, h, b, p)
<1> DEFINE at == q[l].at
           L == Requesters
           f == a.failed
           w == a.window
<1>1. /\ HistoryKept(now, h, p)
      /\ \A t \in Int : Spent(h, t) \in Int
      /\ \A t \in Int : Spent(g, t) \in Int
      /\ \A t \in Int : Spent(h, t) <= Spent(g, t) + 1
      /\ \A t \in Nat : at <= t => Cardinality(Flying(p, t)) = Cardinality(Flying(q, t)) - 1
      /\ at \in Nat /\ at > 0 /\ at <= now /\ now <= at + MaxLoginDelay
  BY GuessRecorded
<1>2. Passed(p) = Passed(q) \ {l} /\ \A k \in Passed(p) : p[k] = q[k]
  BY GuessRecorded
<1>3. /\ L \in Nat /\ WindowBound = LoginMax - 1 + 2 * L
      /\ WindowBound \in Nat /\ LoginMax \in Nat /\ LoginMax > 1
  BY RequestersCount DEF LoginTiming
<1>4. /\ LoginWindow \in Nat /\ LoginWindow > 0 /\ MaxLoginDelay \in Nat /\ LoginLock \in Nat
      /\ 2 * MaxLoginDelay <= LoginWindow /\ LoginWindow <= LoginLock
      /\ now \in Nat
  BY AuthenticationAssumption DEF LoginTiming, GuessSound, HistoryKept
<1>5. LimitSound(now, a) /\ StragglersCounted(g, a, q) /\ SpansCounted(g, a)
      /\ WavesCounted(now, a, q)
  BY DEF GuessSound
<1>6. /\ f \in Nat /\ f > 0 /\ w \in Nat /\ w > 0 /\ w <= now /\ a.lockedUntil \in Nat
      /\ b.lockedUntil \in Nat /\ at < w + LoginWindow
      /\ b.failed = f + 1 /\ b.window = w
  BY <1>5 DEF LimitSound, AttemptRow
<1>7. LeastLock(b) = LeastLock(a) /\ LeastLock(a) = w - MaxLoginDelay + LoginLock
  BY <1>6 DEF LeastLock
<1>8. StragglersCounted(h, b, p)
  <2> SUFFICES ASSUME NEW t \in Nat, w + LoginWindow - 1 <= t
               PROVE  Spent(h, t) + Cardinality(Flying(p, t)) <= Requesters
    BY <1>6 DEF StragglersCounted
  <2>1. at <= t
    BY <1>1, <1>4, <1>6
  <2>2. Spent(g, t) + Cardinality(Flying(q, t)) <= Requesters
    BY <1>5 DEF StragglersCounted
  <2>3. Cardinality(Flying(p, t)) = Cardinality(Flying(q, t)) - 1
    BY <1>1, <2>1
  <2>4. Cardinality(Flying(q, t)) \in Nat
    BY GroupsCount
  <2>5. Spent(h, t) \in Int /\ Spent(g, t) \in Int /\ Spent(h, t) <= Spent(g, t) + 1
    BY <1>1
  <2> QED BY <1>3, <2>2, <2>3, <2>4, <2>5
<1>9. SpansCounted(h, b)
  <2>1. w \in Int /\ w + MaxLoginDelay \in Int /\ 0 \in Int /\ w - MaxLoginDelay \in Int
    BY <1>4, <1>6
  <2>2. /\ Spent(g, w) <= L - 1 + f
        /\ Spent(g, w + MaxLoginDelay) <= f
        /\ Spent(g, 0) <= L - 1 + WindowBound + f
        /\ Spent(g, w - MaxLoginDelay) <= WindowBound + f
    BY <1>5 DEF SpansCounted
  <2>3. ASSUME NEW t \in Int, NEW n \in Int, Spent(g, t) <= n + f
        PROVE  Spent(h, t) <= n + (f + 1)
    <3>1. Spent(h, t) \in Int /\ Spent(g, t) \in Int /\ Spent(h, t) <= Spent(g, t) + 1
      BY <1>1
    <3> QED BY <1>6, <2>3, <3>1
  <2> HIDE DEF f, w, L
  <2>4. Spent(h, w) <= L - 1 + (f + 1)
    <3>1. L - 1 \in Int
      BY <1>3
    <3> QED BY <2>1, <2>2, <2>3, <3>1
  <2>5. Spent(h, w + MaxLoginDelay) <= f + 1
    <3>1. Spent(g, w + MaxLoginDelay) <= 0 + f
      BY <1>6, <2>2
    <3>2. Spent(h, w + MaxLoginDelay) <= 0 + (f + 1)
      BY <2>1, <2>3, <3>1
    <3> QED BY <1>6, <3>2
  <2>6. Spent(h, 0) <= L - 1 + WindowBound + (f + 1)
    <3>1. L - 1 + WindowBound \in Int
      BY <1>3
    <3> QED BY <2>1, <2>2, <2>3, <3>1
  <2>7. Spent(h, w - MaxLoginDelay) <= WindowBound + (f + 1)
    <3>1. WindowBound \in Int
      BY <1>3
    <3> QED BY <2>1, <2>2, <2>3, <3>1
  <2> QED BY <1>6, <2>4, <2>5, <2>6, <2>7 DEF SpansCounted, L
<1>10. WavesCounted(now, b, p)
  <2> DEFINE e == Cardinality(Early(q, a))
             r == Cardinality(Returned(q, a))
             e2 == Cardinality(Early(p, b))
             r2 == Cardinality(Returned(p, b))
  <2>1. /\ e \in Nat /\ r \in Nat /\ e2 \in Nat /\ r2 \in Nat
    BY GroupsCount
  <2>2. l \in Passed(q) /\ Passed(q) \in SUBSET Logins
    BY DEF Passed
  <2>3. Early(p, b) = Early(q, a) \ {l}
    BY <1>2, <1>7 DEF Early
  <2>4. Returned(p, b) = Returned(q, a) \ {l}
    BY <1>2, <1>6, <1>7 DEF Returned
  <2>5. Stale(p, b) => Stale(q, a)
    BY <1>2, <1>6 DEF Stale
  <2>6. Early(q, a) \in SUBSET Logins /\ Returned(q, a) \in SUBSET Logins
    BY <2>2 DEF Early, Returned
  <2>7. p \in [Logins -> LoginRow]
    BY <1>1 DEF HistoryKept
  <2>8. e2 + r2 <= L - 1
    <3> DEFINE A == Early(p, b)
               B == Returned(p, b)
    <3>1. A \cap B = {}
      <4>1. ASSUME NEW k \in A, k \in B PROVE FALSE
        <5>1. p[k].at < LeastLock(b) /\ p[k].at >= LeastLock(b) /\ p[k].at \in Nat
          BY <2>7, <4>1 DEF Early, Returned, Passed, LoginRow
        <5>2. LeastLock(b) \in Int
          BY <1>4, <1>6, <1>7
        <5> QED BY <5>1, <5>2
      <4> QED BY <4>1
    <3>2. A \cup B \in SUBSET (Logins \ {l}) /\ A \in SUBSET Logins /\ B \in SUBSET Logins
      BY <2>3, <2>4, <2>6
    <3> HIDE DEF A, B
    <3>3. Cardinality(A \cup B) <= L - 1
      <4>1. Cardinality(Logins \ {l}) = L - 1
        BY RequestersCount DEF Requesters
      <4>2. Logins \ {l} \in SUBSET Logins
        OBVIOUS
      <4> QED BY <3>2, <4>1, <4>2, RequestersCount
    <3>4. Cardinality(A \cup B) = Cardinality(A) + Cardinality(B) - Cardinality(A \cap B)
      BY <3>2, RequestersCount, FS_Union
    <3>5. Cardinality(A \cap B) = 0
      BY <3>1, FS_EmptySet
    <3>6. Cardinality(A) = e2 /\ Cardinality(B) = r2
      BY DEF A, B
    <3> HIDE DEF e2, r2
    <3> QED BY <1>3, <2>1, <3>3, <3>4, <3>5, <3>6
  <2>9. at < LeastLock(a) => e2 = e - 1 /\ r2 = r
    <3> SUFFICES ASSUME at < LeastLock(a) PROVE e2 = e - 1 /\ r2 = r
      OBVIOUS
    <3>1. l \in Early(q, a) /\ l \notin Returned(q, a)
      BY <1>1, <1>4, <1>6, <1>7, <2>2 DEF Early, Returned
    <3>2. e2 = e - 1
      BY <2>3, <2>6, <3>1, RequestersCount
    <3>3. Returned(p, b) = Returned(q, a)
      BY <2>4, <3>1
    <3> QED BY <3>2, <3>3
  <2>10. at >= LeastLock(a) => e2 = e /\ r2 = r - 1
    <3> SUFFICES ASSUME at >= LeastLock(a) PROVE e2 = e /\ r2 = r - 1
      OBVIOUS
    <3>1. l \notin Early(q, a) /\ l \in Returned(q, a)
      BY <1>1, <1>4, <1>6, <1>7, <2>2 DEF Early, Returned
    <3>2. r2 = r - 1
      BY <2>4, <2>6, <3>1, RequestersCount
    <3>3. Early(p, b) = Early(q, a)
      BY <2>3, <3>1
    <3> QED BY <3>2, <3>3
  <2>11. f >= LoginMax =>
            /\ f + e + r <= WindowBound
            /\ a.lockedUntil < w + LoginWindow \/ Stale(q, a) => f + e <= LoginMax - 1 + L
            /\ f + e > LoginMax - 1 + L => now >= LeastLock(a)
    BY <1>5 DEF WavesCounted
  <2>12. at < w => Stale(q, a)
    BY <2>2 DEF Stale
  <2>13. at >= LeastLock(a) => ~Stale(p, b)
    <3> SUFFICES ASSUME at >= LeastLock(a), NEW k \in Passed(p), p[k].at < w PROVE FALSE
      BY <1>6 DEF Stale
    <3>1. p[k].at \in Nat /\ now <= p[k].at + MaxLoginDelay
      BY <1>1, <2>7 DEF HistoryKept, Passed, LoginRow
    <3> QED BY <1>1, <1>4, <1>6, <1>7, <3>1
  <2> SUFFICES ASSUME f + 1 >= LoginMax
               PROVE  /\ b.lockedUntil >= LeastLock(b)
                      /\ f + 1 + e2 + r2 <= WindowBound
                      /\ b.lockedUntil < w + LoginWindow \/ Stale(p, b)
                            => f + 1 + e2 <= LoginMax - 1 + L
                      /\ f + 1 + e2 > LoginMax - 1 + L => now >= LeastLock(b)
    BY <1>6 DEF WavesCounted
  <2>14. b.lockedUntil = at + LoginLock
    BY <1>6
  <2> HIDE DEF e, r, e2, r2, f, w, L, at
  <2>15. b.lockedUntil >= LeastLock(b)
    BY <1>1, <1>4, <1>6, <1>7, <2>14
  <2>16. CASE f < LoginMax
    <3>1. f + 1 = LoginMax
      BY <1>3, <1>6, <2>16
    <3> QED BY <1>3, <2>1, <2>8, <2>15, <3>1
  <2>17. CASE f >= LoginMax /\ at < LeastLock(a)
    <3>1. e2 = e - 1 /\ r2 = r
      BY <2>9, <2>17
    <3>2. f + 1 + e2 + r2 <= WindowBound
      BY <1>3, <1>6, <2>1, <2>11, <2>17, <3>1
    <3>3. ASSUME b.lockedUntil < w + LoginWindow \/ Stale(p, b)
          PROVE  f + 1 + e2 <= LoginMax - 1 + L
      <4>1. b.lockedUntil < w + LoginWindow => at < w
        BY <1>1, <1>4, <1>6, <2>14
      <4>2. Stale(q, a)
        BY <2>5, <2>12, <3>3, <4>1
      <4> QED BY <1>3, <1>6, <2>1, <2>11, <2>17, <3>1, <4>2
    <3>4. f + 1 + e2 > LoginMax - 1 + L => now >= LeastLock(b)
      BY <1>3, <1>6, <1>7, <2>1, <2>11, <2>17, <3>1
    <3> QED BY <2>15, <3>2, <3>3, <3>4
  <2>18. CASE f >= LoginMax /\ ~(at < LeastLock(a))
    <3>1. at >= LeastLock(a) /\ LeastLock(a) \in Int
      BY <1>1, <1>4, <1>6, <1>7, <2>18
    <3>2. e2 = e /\ r2 = r - 1
      BY <2>10, <3>1
    <3>3. f + 1 + e2 + r2 <= WindowBound
      BY <1>3, <1>6, <2>1, <2>11, <2>18, <3>2
    <3>4. ~(b.lockedUntil < w + LoginWindow) /\ ~Stale(p, b)
      <4>1. ~(b.lockedUntil < w + LoginWindow)
        BY <1>1, <1>4, <1>6, <1>7, <2>14, <3>1
      <4> QED BY <2>13, <3>1, <4>1
    <3>5. now >= LeastLock(b)
      BY <1>1, <1>4, <1>7, <3>1
    <3> QED BY <2>15, <3>3, <3>4, <3>5
  <2> QED BY <2>16, <2>17, <2>18, <1>3, <1>6
<1> QED BY <1>1, <1>8, <1>9, <1>10 DEF GuessSound

\* The guesses of the span, as the property adds them up.
LEMMA GuessesAreSpent ==
    ASSUME NEW g, g \in [LoginTimes -> Nat]
    PROVE  FoldFunction(+, 0, g) = Spent(g, 0)
<1> DEFINE Iterates(h) == h = [s \in SUBSET LoginTimes |-> IF s = {} THEN 0
                 ELSE g[CHOOSE x \in s : TRUE] + h[s \ {CHOOSE x \in s : TRUE}]]
           total == CHOOSE h : Iterates(h)
<1>1. DOMAIN g = LoginTimes /\ IsFiniteSet(LoginTimes)
  <2>1. MaxLoginTime \in Int
    BY AuthenticationAssumption
  <2>2. IsFiniteSet(LoginTimes)
    BY <2>1, FS_Interval DEF LoginTimes
  <2> QED BY <2>2
<1>2. FoldFunction(+, 0, g) = total[LoginTimes]
  BY <1>1 DEF FoldFunction, FoldFunctionOnSet, MapThenFoldSet
<1>3. ASSUME NEW h
      PROVE  Iterates(h) <=> Sums(h, g, LoginTimes)
  BY DEF Sums, OneOf
<1> HIDE DEF Iterates
<1>4. Iterates(total)
  <2>1. PICK h : Sums(h, g, LoginTimes)
    BY <1>1, SumsExist
  <2>2. Iterates(h)
    BY <1>3, <2>1
  <2> QED BY <2>2
<1>5. Sums(total, g, LoginTimes)
  BY <1>3, <1>4
<1> HIDE DEF total
<1>6. total[LoginTimes] = SumOf(g, LoginTimes)
  BY <1>1, <1>5, SumsGive
<1>7. SumOf(g, LoginTimes) = SumOf(Later(g, 0), LoginTimes)
  <2>1. \A s \in LoginTimes : g[s] = Later(g, 0)[s]
    BY AuthenticationAssumption DEF Later, LoginTimes
  <2> QED BY <1>1, <2>1, SumSame
<1> QED BY <1>2, <1>6, <1>7 DEF Spent

GuessesSound == GuessSound(authClock, guesses, attempt, login)

LEMMA GuessesSoundInit == LoginTiming /\ AuthInit => GuessesSound
<1> SUFFICES ASSUME AuthInit PROVE GuessesSound
  OBVIOUS
<1>1. /\ authClock = 1 /\ attempt = NoAttempt /\ login = [l \in Logins |-> Resting]
      /\ guesses = [t \in LoginTimes |-> 0]
  BY DEF AuthInit, LoginTimes
<1>2. Resting \in LoginRow /\ Resting.pc = "idle"
  BY DEF Resting, LoginRow
<1>3. guesses \in [LoginTimes -> Nat] /\ login \in [Logins -> LoginRow]
  BY <1>1, <1>2
<1> QED BY <1>1, <1>2, <1>3 DEF GuessesSound, GuessSound, HistoryKept

\* A row after a failed login counts it, and locks from the last that is allowed on.
LEMMA CountedFacts ==
    ASSUME LoginTiming, AuthSound, NEW now \in Nat, now > 0, now <= authClock
    PROVE  /\ LimitSound(authClock, Counted(now))
           /\ attempt = NoAttempt \/ attempt.window + LoginWindow <= now
                 => Counted(now).failed = 1 /\ Counted(now).window = now
           /\ attempt # NoAttempt /\ now < attempt.window + LoginWindow
                 => /\ Counted(now).failed = attempt.failed + 1
                    /\ Counted(now).window = attempt.window
                    /\ Counted(now).failed >= LoginMax
                          => Counted(now).lockedUntil = now + LoginLock
<1> DEFINE restarts == attempt = NoAttempt \/ attempt.window + LoginWindow <= now
           failed == IF restarts THEN 1 ELSE attempt.failed + 1
           window == IF restarts THEN now ELSE attempt.window
           until == IF attempt # NoAttempt /\ failed >= LoginMax THEN now + LoginLock ELSE 0
<1>1. Counted(now) = [failed |-> failed, window |-> window, lockedUntil |-> until]
  BY DEF Counted
<1>2. attempt \in AttemptRow /\ AttemptSound(attempt, authClock) /\ authClock \in Nat
  BY DEF AuthSound
<1>3. failed \in Nat /\ failed > 0
  BY <1>2 DEF AttemptRow
<1>4. window \in Nat /\ window > 0 /\ window <= authClock
  BY <1>2 DEF AttemptRow, AttemptSound
<1>5. until \in Nat
  BY AuthenticationAssumption
<1>6. restarts => failed = 1 /\ window = now
  OBVIOUS
<1>7. attempt # NoAttempt /\ now < attempt.window + LoginWindow
         => /\ failed = attempt.failed + 1 /\ window = attempt.window
            /\ failed >= LoginMax => until = now + LoginLock
  <2> SUFFICES ASSUME attempt # NoAttempt, now < attempt.window + LoginWindow
               PROVE  /\ failed = attempt.failed + 1 /\ window = attempt.window
                      /\ failed >= LoginMax => until = now + LoginLock
    OBVIOUS
  <2>1. ~restarts
    BY <1>2, AuthenticationAssumption DEF AttemptRow
  <2> QED BY <2>1
<1> HIDE DEF failed, window, until, restarts
<1>8. /\ Counted(now).failed = failed /\ Counted(now).window = window
      /\ Counted(now).lockedUntil = until
  BY <1>1
<1>9. Counted(now) \in AttemptRow
  BY <1>1, <1>3, <1>4, <1>5 DEF AttemptRow
<1>10. LimitSound(authClock, Counted(now))
  BY <1>3, <1>4, <1>8, <1>9 DEF LimitSound
<1> QED BY <1>6, <1>7, <1>8, <1>10 DEF restarts

\* A step of the way in keeps the counts sound.
LEMMA GuessesSoundStep ==
    ASSUME LoginTiming, AuthSound, GuessesSound, [AuthNext]_authVars
    PROVE  GuessesSound'
<1>1. GuessSound(authClock, guesses, attempt, login)
  BY DEF GuessesSound
<1>2. login \in [Logins -> LoginRow] /\ authClock \in Nat \ {0}
      /\ guesses \in [LoginTimes -> Nat]
  BY <1>1 DEF GuessSound, HistoryKept
<1>3. Resting \in LoginRow /\ Resting.pc = "idle"
  BY DEF Resting, LoginRow
<1>4. CASE AuthTick
  <2>1. /\ authClock' = authClock + 1 /\ attempt' = attempt /\ login' = login
        /\ \A l \in Logins : login[l].pc # "idle" => authClock < login[l].at + MaxLoginDelay
        /\ guesses' = [t \in LoginTimes |-> IF t + LoginWindow <= authClock + 1 THEN 0
                                            ELSE guesses[t]]
    BY <1>4 DEF AuthTick, LoginTimes
  <2>2. GuessSound(authClock + 1, guesses', attempt, login)
    BY <1>1, <2>1, ClockStep
  <2> QED BY <2>1, <2>2 DEF GuessesSound
<1>5. ASSUME NEW s \in Setups, CountUsers(s) \/ HashPassword(s) \/ InsertOwner(s)
      PROVE  GuessesSound'
  <2>1. authClock' = authClock /\ guesses' = guesses /\ attempt' = attempt /\ login' = login
    BY <1>5 DEF CountUsers, HashPassword, InsertOwner
  <2> QED BY <1>1, <2>1 DEF GuessesSound
<1>6. ASSUME NEW l \in Logins, SampleClock(l) PROVE GuessesSound'
  <2> DEFINE r == [login[l] EXCEPT !.pc = "sampled", !.at = authClock]
  <2>1. /\ login[l].pc = "idle" /\ login' = [login EXCEPT ![l] = r]
        /\ authClock' = authClock /\ guesses' = guesses /\ attempt' = attempt
    BY <1>6 DEF SampleClock
  <2>2. r \in LoginRow /\ r.pc = "sampled" /\ r.at = authClock
    BY <1>2 DEF LoginRow
  <2> HIDE DEF r
  <2>3. GuessSound(authClock, guesses, attempt, [login EXCEPT ![l] = r])
    BY <1>1, <2>1, <2>2, SampleStep
  <2> QED BY <2>1, <2>3 DEF GuessesSound
<1>7. ASSUME NEW l \in Logins, CheckLock(l) PROVE GuessesSound'
  <2>1. /\ login' = [login EXCEPT ![l] = IF Locked(l) THEN Resting
                                         ELSE [@ EXCEPT !.pc = "checked"]]
        /\ authClock' = authClock /\ guesses' = guesses /\ attempt' = attempt
        /\ login[l].pc = "sampled"
    BY <1>7 DEF CheckLock
  <2>2. CASE Locked(l)
    <3>1. GuessSound(authClock, guesses, attempt, [login EXCEPT ![l] = Resting])
      BY <1>1, <1>3, CalmStep
    <3> QED BY <2>1, <2>2, <3>1 DEF GuessesSound
  <2>3. CASE ~Locked(l)
    <3> DEFINE r == [login[l] EXCEPT !.pc = "checked"]
    <3>1. r \in LoginRow /\ r.pc = "checked" /\ r.at = login[l].at
      BY <1>2 DEF LoginRow
    <3>2. login' = [login EXCEPT ![l] = r]
      BY <2>1, <2>3
    <3> HIDE DEF r
    <3>3. attempt.lockedUntil <= login[l].at
      <4>1. attempt.lockedUntil \in Nat /\ login[l].at \in Nat
        BY <1>2 DEF AuthSound, AttemptRow, LoginRow
      <4> QED BY <2>3, <4>1 DEF Locked
    <3>4. login[l].pc # "idle"
      BY <2>1
    <3>5. GuessSound(authClock, guesses, attempt, [login EXCEPT ![l] = r])
      BY <1>1, <3>1, <3>3, <3>4, PassStep
    <3> QED BY <2>1, <3>2, <3>5 DEF GuessesSound
  <2> QED BY <2>2, <2>3
<1>8. ASSUME NEW l \in Logins, Verify(l) PROVE GuessesSound'
  <2>1. PICK spelled \in Spellings, password \in Passwords :
          login' = [login EXCEPT ![l].password = password,
                       ![l].pc = IF Credentials(spelled, password) THEN "verified" ELSE "failed"]
    BY <1>8 DEF Verify
  <2>2. authClock' = authClock /\ guesses' = guesses /\ attempt' = attempt
        /\ login[l].pc = "checked"
    BY <1>8 DEF Verify
  <2> DEFINE word == IF Credentials(spelled, password) THEN "verified" ELSE "failed"
             r == [login[l] EXCEPT !.pc = word, !.password = password]
  <2>3. word \in {"verified", "failed"}
    OBVIOUS
  <2>4. login' = [login EXCEPT ![l].password = password, ![l].pc = word]
    BY <2>1
  <2> HIDE DEF word
  <2>5. login' = [login EXCEPT ![l] = r] /\ r \in LoginRow /\ r.at = login[l].at
    BY <1>2, <2>3, <2>4 DEF LoginRow
  <2> HIDE DEF r
  <2>6. GuessSound(authClock, guesses, attempt, [login EXCEPT ![l] = r])
    BY <1>1, <2>2, <2>5, CalmStep
  <2> QED BY <2>2, <2>5, <2>6 DEF GuessesSound
<1>9. ASSUME NEW l \in Logins, RecordFailedLogin(l) PROVE GuessesSound'
  <2>1. /\ login[l].pc = "failed" /\ attempt' = Counted(login[l].at)
        /\ guesses' = GuessAdded(guesses, authClock) /\ login' = Rested(login, l)
        /\ authClock' = authClock
    BY <1>9 DEF RecordFailedLogin, GuessAdded, Rested
  <2> DEFINE at == login[l].at
             b == Counted(at)
  <2>2. at \in Nat /\ at > 0 /\ at <= authClock
    BY <1>1, <1>2, <2>1 DEF GuessSound, HistoryKept, LoginRow
  <2>3. /\ LimitSound(authClock, b)
        /\ attempt = NoAttempt \/ attempt.window + LoginWindow <= at
              => b.failed = 1 /\ b.window = at
        /\ attempt # NoAttempt /\ at < attempt.window + LoginWindow
              => /\ b.failed = attempt.failed + 1 /\ b.window = attempt.window
                 /\ b.failed >= LoginMax => b.lockedUntil = at + LoginLock
    BY <2>2, CountedFacts
  <2> HIDE DEF b
  <2>4. CASE attempt = NoAttempt \/ attempt.window + LoginWindow <= at
    <3>1. GuessSound(authClock, GuessAdded(guesses, authClock), b, Rested(login, l))
      BY <1>1, <2>1, <2>3, <2>4, WindowBegins
    <3> QED BY <2>1, <3>1 DEF GuessesSound, b
  <2>5. CASE ~(attempt = NoAttempt \/ attempt.window + LoginWindow <= at)
    <3>1. attempt # NoAttempt /\ at < attempt.window + LoginWindow
      <4>1. attempt.window \in Nat
        BY DEF AuthSound, AttemptRow
      <4> QED BY <2>2, <2>5, <4>1, AuthenticationAssumption
    <3>2. GuessSound(authClock, GuessAdded(guesses, authClock), b, Rested(login, l))
      BY <1>1, <2>1, <2>3, <3>1, WindowGoesOn
    <3> QED BY <2>1, <3>2 DEF GuessesSound, b
  <2> QED BY <2>4, <2>5
<1>10. ASSUME NEW l \in Logins, ClearLoginAttempts(l) PROVE GuessesSound'
  <2> DEFINE r == [login[l] EXCEPT !.pc = "cleared"]
  <2>1. /\ attempt' = NoAttempt /\ guesses' = [t \in LoginTimes |-> 0]
        /\ login' = [login EXCEPT ![l] = r] /\ authClock' = authClock
        /\ login[l].pc = "verified"
    BY <1>10 DEF ClearLoginAttempts, LoginTimes
  <2>2. r \in LoginRow /\ r.at = login[l].at /\ r.pc = "cleared"
    BY <1>2 DEF LoginRow
  <2> HIDE DEF r
  <2>3. GuessSound(authClock, guesses, attempt, [login EXCEPT ![l] = r])
    BY <1>1, <2>1, <2>2, CalmStep
  <2>4. HistoryKept(authClock, guesses', login')
    <3>1. guesses' \in [LoginTimes -> Nat] /\ \A s \in LoginTimes : guesses'[s] = 0
      BY <2>1
    <3> QED BY <2>1, <2>3, <3>1 DEF GuessSound, HistoryKept
  <2> QED BY <2>1, <2>4 DEF GuessesSound, GuessSound
<1>11. ASSUME NEW l \in Logins, CreateSession(l) \/ LoginBreaks(l) PROVE GuessesSound'
  <2>1. /\ login' = [login EXCEPT ![l] = Resting] /\ authClock' = authClock
        /\ guesses' = guesses /\ attempt' = attempt
    BY <1>11 DEF CreateSession, LoginBreaks
  <2>2. GuessSound(authClock, guesses, attempt, [login EXCEPT ![l] = Resting])
    BY <1>1, <1>3, CalmStep
  <2> QED BY <2>1, <2>2 DEF GuessesSound
<1>12. CASE UNCHANGED authVars
  BY <1>1, <1>12 DEF authVars, GuessesSound
<1>13. ASSUME NEW l \in Logins,
              \/ SampleClock(l) \/ CheckLock(l) \/ Verify(l)
              \/ RecordFailedLogin(l) \/ ClearLoginAttempts(l) \/ CreateSession(l)
              \/ LoginBreaks(l)
       PROVE  GuessesSound'
  BY <1>13, <1>6, <1>7, <1>8, <1>9, <1>10, <1>11
<1> QED BY <1>4, <1>5, <1>12, <1>13 DEF AuthNext

\* The lockout of auth-service.ts bounds the guesses however the requests interleave,
\* a row to those up to the lock and two of each request, a span as long as a window to
\* two rows; and the tables are sound with one owner.
THEOREM GuessesStayBounded ==
    ASSUME LoginTiming
    PROVE  AuthSpec => []AuthenticationInvariant
<1>1. AuthSpec => []AuthTypeInvariant /\ []OneOwner
  BY OneOwnerEver, PTL
<1>2. GuessesSound => GuessesBounded
  <2> SUFFICES ASSUME GuessesSound PROVE GuessesBounded
    OBVIOUS
  <2>1. GuessSound(authClock, guesses, attempt, login)
    BY DEF GuessesSound
  <2>2. attempt.failed <= WindowBound /\ Spent(guesses, 0) <= 2 * WindowBound
    BY <2>1, SoundIsBounded
  <2>3. FoldFunction(+, 0, guesses) = Spent(guesses, 0)
    BY <2>1, GuessesAreSpent DEF GuessSound, HistoryKept
  <2> QED BY <2>2, <2>3 DEF GuessesBounded
<1> DEFINE Both == AuthSound /\ GuessesSound
<1>3. AuthInit => Both
  BY AuthSoundInit, GuessesSoundInit
<1>4. Both /\ [AuthNext]_authVars => Both'
  BY AuthSoundStep, GuessesSoundStep
<1>5. Both => GuessesBounded
  BY <1>2
<1> HIDE DEF Both
<1>6. AuthSpec => []GuessesBounded
  BY <1>3, <1>4, <1>5, PTL DEF AuthSpec
<1> QED BY <1>1, <1>6, PTL DEF AuthenticationInvariant
=============================================================================
