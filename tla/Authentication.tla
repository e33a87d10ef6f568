--------------------------- MODULE Authentication ---------------------------
(* The single owner and the way in: POST /api/auth/setup and /login, each  *)
(* in its awaits, for several requests at once that share one failed-login *)
(* row (one client and email) and the table of users. Password hashes are  *)
(* kept as what parsePasswordHash can tell of them, tokens as the login    *)
(* that minted them. Verification of a session is in PrivateSession and    *)
(* ApiRouter.                                                              *)
EXTENDS Naturals, FiniteSets, Sequences, Functions

CONSTANTS
    Logins,         \* login requests that may be under way
    Setups,         \* setup requests, each sent once
    Emails,         \* addresses, as validateEmail returns them
    LoginEmail,     \* the address of the failed-login row that is modelled
    LoginMax,       \* LOGIN_MAX_ATTEMPTS
    LoginWindow,    \* LOGIN_WINDOW_SECONDS
    LoginLock,      \* LOGIN_LOCK_SECONDS
    MaxLoginDelay,  \* bound: the clock's advance while a login is under way
    MaxLoginTime    \* bound: the clock

ASSUME AuthenticationAssumption ==
    /\ LoginEmail \in Emails
    /\ LoginMax \in Nat \ {0}
    /\ LoginWindow \in Nat \ {0} /\ LoginLock \in Nat \ {0}
    /\ MaxLoginDelay \in Nat /\ MaxLoginTime \in Nat

VARIABLES
    authClock,      \* Clock.now()
    user,           \* users: [email, hash] rows
    setup,          \* [pc, email, password, hash, answer] of each setup request
    attempt,        \* login_rate_limits of the identifier, or NoAttempt
    login,          \* [pc, at, password] of each login request
    session,        \* sessions: expires_at of the newest row, 0 when there is none
    guesses         \* history: logins answered 401 in the last window, since a success

authVars == <<authClock, user, setup, attempt, login, session, guesses>>

SESSION_TTL == 3 * LoginLock
Passwords == {"secret", "guess"}
NoAttempt == [failed |-> 0, window |-> 0, lockedUntil |-> 0]
Resting == [pc |-> "idle", at |-> 0, password |-> ""]

(* Base64url without padding: lengths are all parsePasswordHash looks at.  *)
Encoded(bytes) == (4 * bytes + 2) \div 3

\* '==='.slice((length + 3) % 4)
Padding(length) == 3 - ((length + 3) % 4)

\* atob takes whole groups of four with at most two padding characters.
NoBytes == 0
Decoded(length) ==
    LET padded == length + Padding(length)
    IN IF length > 0 /\ padded % 4 = 0 /\ Padding(length) <= 2
       THEN 3 * (padded \div 4) - Padding(length) ELSE NoBytes

\* WebCryptoPasswordHasher.hash, and DUMMY_PASSWORD_HASH with its 22 and 43 letters.
HashOf(password) == [of |-> password, iterations |-> 100000,
                     salt |-> Encoded(16), hash |-> Encoded(32)]
DummyHash == [of |-> "nobody's", iterations |-> 100000, salt |-> 22, hash |-> 43]

\* parsePasswordHash accepts it.
HashParses(h) == /\ h.iterations >= 100000
                 /\ Decoded(h.salt) >= 16 /\ Decoded(h.hash) = 32

PasswordVerified(password, h) == HashParses(h) /\ h.of = password

\* The ways an address is typed; validateEmail trims and lowers it.
Spellings == {"plain", "spaced", "upper"}
AsTyped(email, spelled) == <<email, spelled>>    \* mutant: compared as typed
ValidateEmail(email, spelled) == <<email, "plain">>

AuthInit ==
    /\ authClock = 1
    /\ user = {} /\ session = 0
    /\ setup = [s \in Setups |-> [pc |-> "idle", email |-> <<>>, password |-> "",
                                  hash |-> DummyHash, answer |-> 0]]
    /\ attempt = NoAttempt
    /\ login = [l \in Logins |-> Resting]
    /\ guesses = [t \in 1..MaxLoginTime |-> 0]

(* Setup. A wrong X-Setup-Token, a foreign Origin or invalid credentials   *)
(* answer before anything is read.                                         *)
CountUsers(s) ==
    /\ setup[s].pc = "idle"
    /\ \E email \in Emails, spelled \in Spellings :
          setup' = [setup EXCEPT ![s] =
              [@ EXCEPT !.email = ValidateEmail(email, spelled), !.password = "secret",
                        !.pc = IF user = {} THEN "counted" ELSE "answered",
                        !.answer = IF user = {} THEN 0 ELSE 409]]
    /\ UNCHANGED <<authClock, user, attempt, login, session, guesses>>

HashPassword(s) ==
    /\ setup[s].pc = "counted"
    /\ setup' = [setup EXCEPT ![s] =
          [@ EXCEPT !.pc = "hashed", !.hash = HashOf(setup[s].password)]]
    /\ UNCHANGED <<authClock, user, attempt, login, session, guesses>>

EmailTaken(email) ==                 \* mutant: only the email is unique
    \E u \in user : u.email = email

\* users: is_application_owner and email are each UNIQUE; the former is always 1.
UserConflicts(email) == \/ user # {}
                        \/ \E u \in user : u.email = email

InsertOwner(s) ==
    /\ setup[s].pc = "hashed"
    /\ LET free == ~UserConflicts(setup[s].email)
       IN /\ user' = IF free THEN user \cup {[email |-> setup[s].email, hash |-> setup[s].hash]}
                     ELSE user
          /\ setup' = [setup EXCEPT ![s] =
                [@ EXCEPT !.pc = "answered", !.answer = IF free THEN 201 ELSE 409]]
    /\ UNCHANGED <<authClock, attempt, login, session, guesses>>

(* Login: the clock is sampled first, then the row is read.                *)
SampleClock(l) ==
    /\ login[l].pc = "idle"
    /\ login' = [login EXCEPT ![l].pc = "sampled", ![l].at = authClock]
    /\ UNCHANGED <<authClock, user, setup, attempt, session, guesses>>

\* findLoginAttempt, compared with the clock of before.
Locked(l) == attempt.lockedUntil > login[l].at

CheckLock(l) ==
    /\ login[l].pc = "sampled"
    /\ login' = [login EXCEPT ![l] = IF Locked(l) THEN Resting
                                     ELSE [@ EXCEPT !.pc = "checked"]]
    /\ UNCHANGED <<authClock, user, setup, attempt, session, guesses>>

\* findUserByEmail and verify; an unknown address is verified with the dummy.
Credentials(spelled, password) ==
    LET found == {u \in user : u.email = ValidateEmail(LoginEmail, spelled)}
    IN /\ found # {}
       /\ \A u \in found : PasswordVerified(password, u.hash)

Verify(l) ==
    /\ login[l].pc = "checked"
    /\ \E spelled \in Spellings, password \in Passwords :
          login' = [login EXCEPT ![l].password = password,
                       ![l].pc = IF Credentials(spelled, password) THEN "verified" ELSE "failed"]
    /\ UNCHANGED <<authClock, user, setup, attempt, session, guesses>>

\* The row after INSERT ... ON CONFLICT(identifier_hash) DO UPDATE.
Counted(now) ==
    LET restarts == attempt = NoAttempt \/ attempt.window + LoginWindow <= now
        failed == IF restarts THEN 1 ELSE attempt.failed + 1
        locks == attempt # NoAttempt /\ failed >= LoginMax
    IN [failed |-> failed, window |-> IF restarts THEN now ELSE attempt.window,
        lockedUntil |-> IF locks THEN now + LoginLock ELSE 0]

RecordFailedLogin(l) ==
    /\ login[l].pc = "failed"
    /\ attempt' = Counted(login[l].at)
    /\ guesses' = [guesses EXCEPT ![authClock] = @ + 1]
    /\ login' = [login EXCEPT ![l] = Resting]
    /\ UNCHANGED <<authClock, user, setup, session>>

ClearLoginAttempts(l) ==
    /\ login[l].pc = "verified"
    /\ attempt' = NoAttempt
    /\ guesses' = [t \in 1..MaxLoginTime |-> 0]
    /\ login' = [login EXCEPT ![l].pc = "cleared"]
    /\ UNCHANGED <<authClock, user, setup, session>>

CreateSession(l) ==
    /\ login[l].pc = "cleared"
    /\ session' = login[l].at + SESSION_TTL
    /\ login' = [login EXCEPT ![l] = Resting]
    /\ UNCHANGED <<authClock, user, setup, attempt, guesses>>

\* A statement fails and the login answers 500; what was written stays.
LoginBreaks(l) ==
    /\ login[l].pc # "idle"
    /\ login' = [login EXCEPT ![l] = Resting]
    /\ UNCHANGED <<authClock, user, setup, attempt, session, guesses>>

AuthTick ==
    /\ authClock < MaxLoginTime
    /\ \A l \in Logins : login[l].pc # "idle" => authClock < login[l].at + MaxLoginDelay
    /\ authClock' = authClock + 1
    /\ guesses' = [t \in 1..MaxLoginTime |-> IF t + LoginWindow <= authClock' THEN 0
                                             ELSE guesses[t]]
    /\ UNCHANGED <<user, setup, attempt, login, session>>

AuthNext ==
    \/ AuthTick
    \/ \E s \in Setups : CountUsers(s) \/ HashPassword(s) \/ InsertOwner(s)
    \/ \E l \in Logins :
          \/ SampleClock(l) \/ CheckLock(l) \/ Verify(l)
          \/ RecordFailedLogin(l) \/ ClearLoginAttempts(l) \/ CreateSession(l)
          \/ LoginBreaks(l)

AuthSpec == AuthInit /\ [][AuthNext]_authVars

Addresses == {ValidateEmail(e, "plain") : e \in Emails}

\* Every row is one its table accepts: a count above zero, a lock no longer than
\* LOGIN_LOCK_SECONDS from a request's clock; a session is the owner's.
AuthTypeInvariant ==
    /\ authClock \in 1..MaxLoginTime \/ authClock = 1
    /\ attempt = NoAttempt \/ /\ attempt.failed > 0 /\ attempt.window \in 1..authClock
                              /\ attempt.lockedUntil \in 0..(authClock + LoginLock)
    /\ \A u \in user : u.email \in Addresses
    /\ session # 0 => user # {}
    /\ \A l \in Logins : /\ login[l].pc \in {"idle", "sampled", "checked", "verified",
                                            "failed", "cleared"}
                         /\ login[l].at \in 0..authClock

\* README: the setup endpoint answers 409 after an owner exists, and the application
\* has a single owner, however many setup requests counted no user at once.
OneOwner ==
    /\ Cardinality(user) <= 1
    /\ Cardinality({s \in Setups : setup[s].answer = 201}) = Cardinality(user)

\* README: five failed logins within fifteen minutes trigger a lockout. Requests under
\* way at once pass the check together; one that straddles the end of a window restarts
\* the count; one from before the restart locks for less than the window. So the row of
\* a window counts the guesses up to the lock and at most two of each request, and no
\* span as long as a window has more guesses than two rows.
WindowBound == LoginMax - 1 + 2 * Cardinality(Logins)
GuessesBounded == /\ attempt.failed <= WindowBound
                  /\ FoldFunction(+, 0, guesses) <= 2 * WindowBound

\* However setups and logins interleave, the tables hold what they accept, one owner
\* whom exactly one setup was told to be, and the guesses of a span are bounded.
AuthenticationInvariant == AuthTypeInvariant /\ OneOwner /\ GuessesBounded
=============================================================================
