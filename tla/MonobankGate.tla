---------------------------- MODULE MonobankGate ----------------------------
(* The one-request-per-interval gate of the Monobank Personal API, shared  *)
(* by account synchronization and transaction synchronization of every     *)
(* isolate. A caller samples its clock, runs one D1 statement on the       *)
(* shared row, and only then sends its request; a 429 answer samples the   *)
(* clock again and defers the row. Any caller may be delayed between two   *)
(* of these steps.                                                         *)
EXTENDS RateLimitStore

CONSTANTS
    Callers,         \* HttpMonobankClient calls that may be under way
    Interval,        \* MONOBANK_MINIMUM_REQUEST_INTERVAL_SECONDS
    RetryAfters,     \* Retry-After values the provider may answer, in seconds
    MaxDelay,        \* bound: time between a clock reading and its use
    MaxTime          \* bound: the last clock value explored

ASSUME GateAssumption ==
    /\ Interval \in Nat \ {0}
    /\ RetryAfters \subseteq Nat
    /\ MaxDelay \in Nat
    /\ MaxTime \in Nat

VARIABLES
    clock,
    nextAllowedAt,   \* the row of scope personal-api
    caller,          \* [pc, at]: the step of a call and its clock reading
    lastReserved,    \* history: clock reading of the latest reservation
    lastSent,        \* history: when the latest request left
    deferredTo       \* history: the latest time a 429 asked to wait for

vars == <<clock, nextAllowedAt, caller, lastReserved, lastSent, deferredTo>>
history == <<lastReserved, lastSent, deferredTo>>

Steps == {"idle", "reserve", "send", "wait", "defer"}
Later(x, y) == IF x >= y THEN x ELSE y
Go(c, pc, at) == caller' = [caller EXCEPT ![c] = [pc |-> pc, at |-> at]]

Init ==
    /\ clock = Interval
    /\ nextAllowedAt = 0
    /\ caller = [c \in Callers |-> [pc |-> "idle", at |-> 0]]
    /\ lastReserved = 0
    /\ lastSent = 0
    /\ deferredTo = 0

\* acquire: const now = this.nowEpochSeconds()
Acquire(c) ==
    /\ caller[c].pc = "idle"
    /\ Go(c, "reserve", clock)
    /\ UNCHANGED <<clock, nextAllowedAt, history>>

ReserveUnconditionally(c) ==                \* mutant: no WHERE on the upsert
    /\ caller[c].pc = "reserve"
    /\ nextAllowedAt' = Reserved(caller[c].at, Interval)
    /\ lastReserved' = caller[c].at
    /\ Go(c, "send", caller[c].at)
    /\ UNCHANGED <<clock, lastSent, deferredTo>>

\* The conditional upsert returns a row: the interval is this caller's.
Reserve(c) ==
    /\ caller[c].pc = "reserve"
    /\ Free(nextAllowedAt, caller[c].at)
    /\ nextAllowedAt' = Reserved(caller[c].at, Interval)
    /\ lastReserved' = caller[c].at
    /\ Go(c, "send", caller[c].at)
    /\ UNCHANGED <<clock, lastSent, deferredTo>>

\* It returns none: the call fails with rate_limit.
Refused(c) ==
    /\ caller[c].pc = "reserve"
    /\ ~Free(nextAllowedAt, caller[c].at)
    /\ Go(c, "idle", 0)
    /\ UNCHANGED <<clock, nextAllowedAt, history>>

Send(c) ==
    /\ caller[c].pc = "send"
    /\ lastSent' = clock
    /\ Go(c, "wait", clock)
    /\ UNCHANGED <<clock, nextAllowedAt, lastReserved, deferredTo>>

\* Any answer but 429, a timeout included, or the isolate is gone.
Answered(c) ==
    /\ caller[c].pc \in {"send", "wait", "defer"}
    /\ Go(c, "idle", 0)
    /\ UNCHANGED <<clock, nextAllowedAt, history>>

\* 429: gate.defer samples the clock and adds Retry-After.
TooManyRequests(c) ==
    /\ caller[c].pc = "wait"
    /\ \E retryAfter \in RetryAfters : Go(c, "defer", clock + retryAfter)
    /\ UNCHANGED <<clock, nextAllowedAt, history>>

DeferOverwrites(c) ==                       \* mutant: SET without MAX
    /\ caller[c].pc = "defer"
    /\ nextAllowedAt' = caller[c].at
    /\ deferredTo' = Later(deferredTo, caller[c].at)
    /\ Go(c, "idle", 0)
    /\ UNCHANGED <<clock, lastReserved, lastSent>>

Defer(c) ==
    /\ caller[c].pc = "defer"
    /\ nextAllowedAt' = Deferred(nextAllowedAt, caller[c].at)
    /\ deferredTo' = Later(deferredTo, caller[c].at)
    /\ Go(c, "idle", 0)
    /\ UNCHANGED <<clock, lastReserved, lastSent>>

\* Time passes while no reserving caller is delayed longer than MaxDelay.
Tick ==
    /\ clock < MaxTime
    /\ \A c \in Callers :
         caller[c].pc \in {"reserve", "send"} => clock < caller[c].at + MaxDelay
    /\ clock' = clock + 1
    /\ UNCHANGED <<nextAllowedAt, caller, history>>

Call(c) ==
    \/ Acquire(c) \/ Reserve(c) \/ Refused(c) \/ Send(c)
    \/ Answered(c) \/ TooManyRequests(c) \/ Defer(c)

Next == Tick \/ \E c \in Callers : Call(c)

Spec == Init /\ [][Next]_vars

-----------------------------------------------------------------------------
TypeInvariant ==
    /\ {clock, nextAllowedAt, lastReserved, lastSent, deferredTo} \subseteq Nat
    /\ caller \in [Callers -> [pc : Steps, at : Nat]]

Granting(c) == caller[c].pc = "reserve" /\ caller'[c].pc = "send"
Sending(c) == caller[c].pc = "send" /\ caller'[c].pc = "wait"

\* README, "one-request-per-60-seconds gate": the clock readings of any two
\* reservations are an interval apart, in whatever order their statements reach
\* the database.
ReservationsSpaced ==
    [][\A c \in Callers : Granting(c) => caller[c].at >= lastReserved + Interval]_vars

\* After a 429 was recorded no call is let through before its Retry-After ends,
\* even if shorter deferrals or older reservations arrive later.
DeferralHonoured ==
    [][\A c \in Callers : Granting(c) => caller[c].at >= deferredTo]_vars

\* What the gate gives the provider: requests may leave closer together than the
\* interval, but only by the delay of the earlier one.
RequestsSpaced ==
    [][\A c \in Callers : Sending(c) => clock >= lastSent + Interval - MaxDelay]_vars
=============================================================================
