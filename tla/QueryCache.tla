------------------------------ MODULE QueryCache ------------------------------
(* A query of TanStack Query, external, as the client's code relies on it: *)
(* one fetch at a time, which everyone who wants the data joins; an        *)
(* invalidation cancels it only when there are data to show meanwhile. A   *)
(* retry of a failed request is the same fetch, read later.                *)
(* Data are records with "at", the number of the change they are from.     *)
EXTENDS Integers

NoData == [at |-> -1]
Query == [data |-> NoData, phase |-> "idle", got |-> NoData, invalid |-> FALSE,
          failed |-> FALSE, cached |-> FALSE, overtaken |-> FALSE]

Has(q) == q.data # NoData
Fetching(q) == q.phase # "idle"

\* query.fetch(): a fetch under way is joined.
Fetch(q) == IF Fetching(q) THEN q
            ELSE [q EXCEPT !.phase = "sent", !.got = NoData, !.overtaken = FALSE]

\* An observer mounts: it fetches what is missing, invalid, or older than staleTime.
Observed(q, stale) == IF ~Has(q) \/ q.invalid \/ stale THEN Fetch(q) ELSE q

\* refetch(): asked by the user.
Refetched(q) == Fetch(IF Has(q) THEN [q EXCEPT !.phase = "idle"] ELSE q)

\* invalidateQueries: marks the query; an observed one is fetched again, over the
\* fetch under way if it has data to keep meanwhile. A fetch that goes on makes the
\* query look fresh with an answer of before.
Invalidated(q, active) ==
    LET marked == [q EXCEPT !.invalid = TRUE]
    IN IF Fetching(q) /\ ~(active /\ Has(q)) THEN [marked EXCEPT !.overtaken = TRUE]
       ELSE IF active THEN Refetched(marked)
       ELSE marked

\* The server has read what it will answer.
ReadAt(q, data) == [q EXCEPT !.phase = "read", !.got = data]
Received(q, data) == [q EXCEPT !.data = data, !.phase = "idle", !.got = NoData,
                               !.invalid = FALSE, !.failed = FALSE, !.cached = FALSE]
Failed(q) == [q EXCEPT !.phase = "idle", !.got = NoData, !.failed = TRUE]

\* setQueryData: an answer that leaves the fetch under way alone.
Written(q, data) == [q EXCEPT !.data = data, !.invalid = FALSE, !.failed = FALSE,
                              !.overtaken = Fetching(q)]
\* cancelQueries: the query as it was before the fetch.
Cancelled(q) == [q EXCEPT !.phase = "idle", !.got = NoData]

=============================================================================
