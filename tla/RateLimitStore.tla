-------------------------- MODULE RateLimitStore --------------------------
(* The row of monobank_api_rate_limits that every Worker isolate shares,   *)
(* and the two statements D1MonobankRateLimitStore runs on it. A row that  *)
(* does not exist yet is the value 0: both statements treat the two alike, *)
(* since no clock reading is below 0.                                      *)
EXTENDS Integers

\* WHERE monobank_api_rate_limits.next_allowed_at <= now
Free(nextAllowedAt, now) == nextAllowedAt <= now

ReservedShort(now, interval) == now + interval - 1     \* mutant: off by one

\* The value a successful reservation stores.
Reserved(now, interval) == now + interval

\* next_allowed_at = MAX(stored, excluded)
Deferred(nextAllowedAt, until) ==
    IF until > nextAllowedAt THEN until ELSE nextAllowedAt
=============================================================================
