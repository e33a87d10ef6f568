------------------------------ MODULE Freshness ------------------------------
(* What the browser says of the imported history: the coverage of a chosen *)
(* period, from the windows that synchronization has recorded, and the     *)
(* warning of DataFreshness. A status that was read earlier has fewer      *)
(* windows and the same algorithm, so the present one is looked at.        *)
EXTENDS TransactionSync, Sequences, SequencesExt

CONSTANT PeriodEnds     \* ends of the periods the owner may choose

ASSUME PeriodEndsAssumption == PeriodEnds \subseteq Int

ChosenPeriods == {p \in [dateFrom : PeriodEnds, dateTo : PeriodEnds] :
                     p.dateFrom <= p.dateTo}

\* listStatusByUser reads windows ORDER BY from_epoch_seconds; sorted again.
StartsBefore(a, b) == a.from < b.from \/ (a.from = b.from /\ a.to < b.to)
Sorted(intervals) ==
    [i \in 1..Cardinality(intervals) |->
        CHOOSE w \in intervals : Cardinality({v \in intervals : StartsBefore(v, w)}) = i - 1]

Smaller(x, y) == IF x <= y THEN x ELSE y
ElapsedEnd(range) == Smaller(range.dateTo, clock)

GapUnseen(interval, next) == FALSE          \* mutant: the loop goes on over a gap
Gap(interval, next) == interval.from > next

SecondAfter(interval) == interval.to + 1

Unfinished == "unfinished"

\* One turn of the loop; an answer is a return.
Scan(scan, interval, range) ==
    LET next == Larger(scan.next, SecondAfter(interval))
    IN  IF \/ scan.answer # Unfinished
           \/ interval.to < range.dateFrom \/ interval.from > ElapsedEnd(range)
        THEN scan
        ELSE IF Gap(interval, scan.next) THEN [scan EXCEPT !.answer = "partial"]
        ELSE [next |-> next, intersects |-> TRUE,
              answer |-> IF next > ElapsedEnd(range) THEN "covered" ELSE Unfinished]

PeriodCoverage(intervals, range) ==
    LET scanned == FoldLeft(LAMBDA scan, interval : Scan(scan, interval, range),
                            [next |-> range.dateFrom, intersects |-> FALSE,
                             answer |-> Unfinished],
                            Sorted(intervals))
    IN  IF range.dateFrom > clock THEN "future"
        ELSE IF intervals = {} THEN "unknown"
        ELSE IF scanned.answer # Unfinished THEN scanned.answer
        ELSE IF scanned.intersects THEN "partial" ELSE "unknown"

\* DataFreshness: a failed account is named before a gap.
Summary(selected, range) ==
    IF \E a \in selected : syncState[a].status = "failed" THEN "failed"
    ELSE IF \E a \in selected : PeriodCoverage(windows[a], range) = "partial"
    THEN "gaps" ELSE "fresh"

\* transactionSyncTone; the account has never been synchronized before its first window.
Tone(a) ==
    IF syncState[a].status = "failed" THEN "danger"
    ELSE IF syncState[a].status = "running" \/ windows[a] = {} THEN "neutral"
    ELSE "success"

-----------------------------------------------------------------------------
(* Properties *)

\* The seconds of the period that have passed.
Elapsed(range) == range.dateFrom..ElapsedEnd(range)

Covered(second, intervals) == \E w \in intervals : w.from <= second /\ second <= w.to

\* What periodCoverage is to compute, without a loop: of every set of windows that
\* synchronization records, in whatever order and however they overlap or touch.
CoverageExact ==
    \A a \in Accounts, range \in ChosenPeriods :
        LET covered == {s \in Elapsed(range) : Covered(s, windows[a])}
        IN  PeriodCoverage(windows[a], range) =
                IF Elapsed(range) = {} THEN "future"
                ELSE IF covered = Elapsed(range) THEN "covered"
                ELSE IF covered = {} THEN "unknown" ELSE "partial"

\* "Elapsed portion has verified import coverage" is never said of a period some
\* transaction of which is not imported: the owner is warned of a gap, of a failed
\* synchronization, or is told that the history is unknown.
GapsAreWarned ==
    \A a \in Accounts, range \in ChosenPeriods :
        (\E t \in Provider \ ledger : t.account = a /\ t.at \in Elapsed(range))
            => \/ Summary({a}, range) \in {"failed", "gaps"}
               \/ PeriodCoverage(windows[a], range) = "unknown"

\* "Transaction sync succeeded" and its tone are shown only of an account whose latest
\* run has ended: no run that holds its lease is under way.
SuccessIsSettled ==
    \A a \in Accounts : Tone(a) = "success" =>
        \A w \in Workers : ~(run[w].pc \in Holding /\ run[w].account = a)

\* What the pages say of an account's history is so: the coverage of a period, the
\* warning of a gap and the success of the latest synchronization.
FreshnessTruthful == CoverageExact /\ GapsAreWarned /\ SuccessIsSettled
=============================================================================
