--------------------------- MODULE PrivateSession ---------------------------
(* The signed-in state of every tab of one browser. Tabs share the session  *)
(* cookie and a stored notification of the last session end; they tell each *)
(* other of session ends over two media, and their requests to the server   *)
(* may be answered after the session that sent them has ended.              *)
EXTENDS Naturals, FiniteSets

CONSTANTS
    Tabs,
    Media,           \* the media that work: "channel" and "storage"
    MaxSessions,     \* bound: sessions the server ever creates
    MaxRequests,     \* bound: requests of a tab in flight at once
    MaxEvents        \* bound: session ends ever published

ASSUME SessionAssumption ==
    /\ Media \subseteq {"channel", "storage"} /\ Media # {}
    /\ MaxSessions \in Nat /\ MaxRequests \in Nat /\ MaxEvents \in Nat

VARIABLES
    issued,          \* sessions the server has created, from 1
    server,          \* those neither revoked nor expired
    expired,
    cookie,          \* the session cookie, 0 if none
    stored,          \* is a session end stored for tabs opened later?
    events,          \* session ends published, from 1
    pending,         \* copies of them on their way to a tab: <<event, medium>>
    seen,            \* events a tab published or received
    tab,             \* status and server session of each tab
    request,         \* its requests in flight, by kind
    locked,          \* history: a session end was published since the last sign-in
    accepted         \* history: events published when a tab asked for its session

serverVars == <<issued, server, expired, cookie>>
eventVars == <<stored, events, pending, seen, locked>>
vars == <<serverVars, eventVars, tab, request, accepted>>

Kinds == {"verify", "login", "logout", "fetch"}
None == [reply |-> "none"]
Replies == {"sent", "ok", "denied", "failed"}
\* since: history, the events published when it was sent
Request == [current : BOOLEAN, session : 0..MaxSessions, reply : Replies,
            since : 0..MaxEvents]
Statuses == {"loading", "authenticated", "unauthenticated", "unavailable"}

Init ==
    /\ issued = 0 /\ server = {} /\ expired = {} /\ cookie = 0
    /\ stored = FALSE /\ events = 0
    /\ pending = [t \in Tabs |-> {}] /\ seen = [t \in Tabs |-> {}]
    /\ tab = [t \in Tabs |-> [status |-> "loading", session |-> 0]]
    /\ request = [r \in Tabs \X Kinds |-> None]
    /\ locked = FALSE
    /\ accepted = [t \in Tabs |-> 0]

-----------------------------------------------------------------------------
(* What ends and opens the private session of a tab *)

\* Its generation changes: requests in flight are no longer current. The
\* request r, if any, is answered.
NewGeneration(t, done) ==
    request' = [r \in Tabs \X Kinds |->
        IF r[1] # t \/ request[r] = None THEN request[r]
        ELSE IF r[2] \in done THEN None
        ELSE [request[r] EXCEPT !.current = FALSE]]

Answered(t, kind) == request' = [request EXCEPT ![<<t, kind>>] = None]

Lock(t) ==
    tab' = [tab EXCEPT ![t] = [status |-> "unauthenticated", session |-> 0]]

EndTellsOpenTabs(t, done) ==                \* mutant: a loading tab is not told
    /\ events < MaxEvents
    /\ events' = events + 1
    /\ pending' = [u \in Tabs |->
         IF tab[u].status # "authenticated" \/ u = t THEN pending[u]
         ELSE pending[u] \cup {<<events + 1, medium>> : medium \in Media}]
    /\ seen' = [seen EXCEPT ![t] = @ \cup {events + 1}]
    /\ stored' = (stored \/ "storage" \in Media)
    /\ locked' = TRUE
    /\ Lock(t)
    /\ NewGeneration(t, done)
    /\ UNCHANGED accepted

\* endPrivateSession in this tab: the listener of AuthProvider publishes the end
EndPrivateSession(t, done) ==
    /\ events < MaxEvents
    /\ events' = events + 1
    /\ pending' = [u \in Tabs |->
         IF u = t THEN pending[t]
         ELSE pending[u] \cup {<<events + 1, medium>> : medium \in Media}]
    /\ seen' = [seen EXCEPT ![t] = @ \cup {events + 1}]
    /\ stored' = (stored \/ "storage" \in Media)
    /\ locked' = TRUE
    /\ Lock(t)
    /\ NewGeneration(t, done)
    /\ UNCHANGED accepted

\* acceptSession of a verified or new session; a sign-in unlocks the browser
AcceptSession(t, kind) ==
    /\ stored' = FALSE
    /\ locked' = (locked /\ kind # "login")
    /\ tab' = [tab EXCEPT ![t] = [status |-> "authenticated",
                                   session |-> request[<<t, kind>>].session]]
    /\ accepted' = [accepted EXCEPT ![t] = request[<<t, kind>>].since]
    /\ NewGeneration(t, {kind})
    /\ UNCHANGED <<events, pending, seen>>

-----------------------------------------------------------------------------
(* Requests of a tab and their answers *)

Send(t, kind) ==
    /\ request[<<t, kind>>] = None
    /\ Cardinality({k \in Kinds : request[<<t, k>>] # None}) < MaxRequests
    /\ request' = [request EXCEPT ![<<t, kind>>] =
                     [current |-> TRUE, session |-> cookie, reply |-> "sent",
                      since |-> events]]

\* retrySession after a page load or a failed verification
Verify(t) ==
    /\ tab[t].status \in {"loading", "unavailable"}
    /\ request[<<t, "verify">>] = None
    /\ UNCHANGED serverVars
    /\ \/ stored /\ EndPrivateSession(t, {})
       \/ /\ ~stored
          /\ Send(t, "verify")
          /\ tab' = [tab EXCEPT ![t] = [status |-> "loading", session |-> 0]]
          /\ UNCHANGED <<eventVars, accepted>>

Login(t) ==
    /\ tab[t].status = "unauthenticated"
    /\ Send(t, "login")
    /\ UNCHANGED <<serverVars, eventVars, tab, accepted>>

\* The owner signs out, or the app asks for private data.
Ask(t, kind) ==
    /\ kind \in {"logout", "fetch"}
    /\ tab[t].status = "authenticated"
    /\ Send(t, kind)
    /\ UNCHANGED <<serverVars, eventVars, tab, accepted>>

Reply(t, kind, reply, session) ==
    request' = [request EXCEPT ![<<t, kind>>] =
                  [current |-> request[<<t, kind>>].current, session |-> session,
                   reply |-> reply, since |-> request[<<t, kind>>].since]]

IsSent(t, kind) ==
    request[<<t, kind>>] # None /\ request[<<t, kind>>].reply = "sent"

\* currentSession and the check before every private route
ServeCheck(t, kind) ==
    LET session == request[<<t, kind>>].session IN
    /\ kind \in {"verify", "fetch"} /\ IsSent(t, kind)
    /\ IF session \in server
       THEN Reply(t, kind, "ok", session)
       ELSE Reply(t, kind, "denied", 0)
    /\ UNCHANGED <<serverVars, eventVars, tab, accepted>>

ServeLogin(t) ==
    /\ IsSent(t, "login") /\ issued < MaxSessions
    /\ issued' = issued + 1
    /\ server' = server \cup {issued + 1}
    /\ cookie' = issued + 1
    /\ Reply(t, "login", "ok", issued + 1)
    /\ locked' = FALSE
    /\ UNCHANGED <<expired, stored, events, pending, seen, tab, accepted>>

ServeLogout(t) ==
    LET session == request[<<t, "logout">>].session IN
    /\ IsSent(t, "logout")
    /\ server' = server \ {session}
    /\ cookie' = 0
    /\ Reply(t, "logout", "ok", 0)
    /\ UNCHANGED <<issued, expired, eventVars, tab, accepted>>

\* The request is refused or lost, or its answer is, the session revoked or not.
Lose(t, kind) ==
    LET session == request[<<t, kind>>].session IN
    /\ IsSent(t, kind)
    /\ Reply(t, kind, "failed", 0)
    /\ server' \in {server} \cup (IF kind = "logout" THEN {server \ {session}} ELSE {})
    /\ UNCHANGED <<issued, expired, cookie, eventVars, tab, accepted>>

\* What the tab makes of an answer: a session that expired on its way is an error.
Outcome(t, kind) ==
    IF request[<<t, kind>>].reply = "ok" /\ request[<<t, kind>>].session \in expired
       /\ kind \in {"verify", "login"}
    THEN "failed" ELSE request[<<t, kind>>].reply

IsAnswered(t, kind, replies) ==
    request[<<t, kind>>] # None /\ Outcome(t, kind) \in replies

\* An answer from before a session end, or a failure, changes nothing else.
Ignore(t, kind) ==
    /\ \/ IsAnswered(t, kind, {"ok", "denied", "failed"})
          /\ kind # "logout" /\ ~request[<<t, kind>>].current
       \/ IsAnswered(t, kind, {"failed"}) /\ kind # "verify"
       \/ IsAnswered(t, kind, {"ok"}) /\ kind = "fetch"
    /\ Answered(t, kind)
    /\ UNCHANGED <<serverVars, eventVars, tab, accepted>>

ReceiveSession(t, kind) ==
    /\ kind \in {"verify", "login"}
    /\ IsAnswered(t, kind, {"ok"}) /\ request[<<t, kind>>].current
    /\ AcceptSession(t, kind)
    /\ UNCHANGED serverVars

\* A current 401 ends the session; a completed sign-out does so unconditionally.
ReceiveEnd(t, kind) ==
    /\ \/ /\ kind \in {"verify", "fetch"}
          /\ IsAnswered(t, kind, {"denied"}) /\ request[<<t, kind>>].current
       \/ kind = "logout" /\ IsAnswered(t, kind, {"ok"})
    /\ EndPrivateSession(t, {kind})
    /\ UNCHANGED serverVars

StillLoading(t) ==                          \* mutant: the status is not set
    /\ IsAnswered(t, "verify", {"failed"}) /\ request[<<t, "verify">>].current
    /\ Answered(t, "verify")
    /\ UNCHANGED <<serverVars, eventVars, tab, accepted>>

ReceiveUnavailable(t) ==
    /\ IsAnswered(t, "verify", {"failed"}) /\ request[<<t, "verify">>].current
    /\ tab' = [tab EXCEPT ![t] = [status |-> "unavailable", session |-> 0]]
    /\ Answered(t, "verify")
    /\ UNCHANGED <<serverVars, eventVars, accepted>>

-----------------------------------------------------------------------------
(* Time, other tabs, page loads *)

Expire(session) ==
    /\ session \in server
    /\ server' = server \ {session}
    /\ expired' = expired \cup {session}
    /\ UNCHANGED <<issued, cookie, eventVars, tab, request, accepted>>

\* The timer, or an assertion that notices the deadline first
SessionExpires(t) ==
    /\ tab[t].status = "authenticated" /\ tab[t].session \in expired
    /\ EndPrivateSession(t, {})
    /\ UNCHANGED serverVars

ReceiveAgain(t, event, medium) ==           \* mutant: copies are not recognised
    /\ <<event, medium>> \in pending[t]
    /\ pending' = [pending EXCEPT ![t] = @ \ {<<event, medium>>}]
    /\ seen' = [seen EXCEPT ![t] = @ \cup {event}]
    /\ Lock(t)
    /\ NewGeneration(t, {})
    /\ UNCHANGED <<serverVars, stored, events, locked, accepted>>

\* The end published elsewhere, once however many copies arrive, without an echo
Receive(t, event, medium) ==
    /\ <<event, medium>> \in pending[t]
    /\ pending' = [pending EXCEPT ![t] = @ \ {<<event, medium>>}]
    /\ IF event \in seen[t]
       THEN UNCHANGED <<seen, tab, request>>
       ELSE /\ seen' = [seen EXCEPT ![t] = @ \cup {event}]
            /\ Lock(t)
            /\ NewGeneration(t, {})
    /\ UNCHANGED <<serverVars, stored, events, locked, accepted>>

Load(t) ==
    /\ tab' = [tab EXCEPT ![t] = [status |-> "loading", session |-> 0]]
    /\ pending' = [pending EXCEPT ![t] = {}]
    /\ seen' = [seen EXCEPT ![t] = {}]
    /\ NewGeneration(t, Kinds)
    /\ UNCHANGED <<serverVars, stored, events, locked, accepted>>

Answer(t, kind) ==
    \/ ServeCheck(t, kind) \/ Lose(t, kind)
    \/ Ignore(t, kind) \/ ReceiveSession(t, kind) \/ ReceiveEnd(t, kind)

TabStep(t) ==
    \/ Verify(t) \/ Login(t) \/ ServeLogin(t) \/ ServeLogout(t)
    \/ ReceiveUnavailable(t) \/ SessionExpires(t) \/ Load(t)
    \/ \E kind \in Kinds : Ask(t, kind) \/ Answer(t, kind)
    \/ \E copy \in pending[t] : Receive(t, copy[1], copy[2])

Next ==
    \/ \E session \in server : Expire(session)
    \/ \E t \in Tabs : TabStep(t)

\* The first verification starts with the page, requests end, events arrive.
Fairness ==
    \A t \in Tabs :
      /\ WF_vars(tab[t].status = "loading" /\ Verify(t))
      /\ \A kind \in Kinds : WF_vars(Answer(t, kind))
      /\ WF_vars(ReceiveUnavailable(t))

Spec == Init /\ [][Next]_vars /\ Fairness

-----------------------------------------------------------------------------
TypeInvariant ==
    /\ issued \in 0..MaxSessions
    /\ server \subseteq 1..issued /\ expired \subseteq 1..issued
    /\ cookie \in 0..issued
    /\ stored \in BOOLEAN /\ locked \in BOOLEAN
    /\ events \in 0..MaxEvents
    /\ pending \in [Tabs -> SUBSET ((1..events) \X Media)]
    /\ seen \in [Tabs -> SUBSET (1..events)]
    /\ tab \in [Tabs -> [status : Statuses, session : 0..issued]]
    /\ request \in [Tabs \X Kinds -> Request \cup {None}]
    /\ accepted \in [Tabs -> 0..events]

\* README, "lock private screens across tabs": of every session end published
\* after a tab asked for its session, that tab still has a copy to come that it
\* will not take for an old one.
WillArrive(t, event) ==
    /\ event \notin seen[t]
    /\ \E medium \in Media : <<event, medium>> \in pending[t]
EndsReachEveryTab ==
    \A t \in Tabs : tab[t].status = "authenticated" =>
      \A event \in (accepted[t] + 1)..events : WillArrive(t, event)

\* The last of several copies of an end does not end the session that the owner
\* may have opened since the first.
EndsOnce ==
    [][\A t \in Tabs : \A copy \in pending[t] \ pending'[t] :
         /\ tab'[t].status # "loading"
         /\ \E medium \in Media : <<copy[1], medium>> \notin pending[t]
         => tab'[t] = tab[t]]_vars

\* README, "a stored session-end notification prevents automatic reopening until
\* an explicit successful sign-in": after a session end and before a sign-in no
\* tab stays open once the events it was sent have arrived.
StaysLocked ==
    \A t \in Tabs :
      locked /\ pending[t] = {} => tab[t].status # "authenticated"

\* Verification never leaves a page loading for ever, unless it is reloaded over
\* and over (or the bound on events stops the end of its session).
LoadingEnds ==
    \A t \in Tabs :
      \/ []<><<Load(t)>>_vars
      \/ tab[t].status = "loading" ~>
           tab[t].status # "loading" \/ events = MaxEvents
=============================================================================
