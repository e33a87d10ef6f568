------------------------------ MODULE ApiRouter ------------------------------
(* One request to /api after another, and several at once, through the     *)
(* Worker's router: the two middlewares, the session they require, the     *)
(* handler, and the answers of routes that do not exist and of errors that *)
(* nothing caught. A handler is its effect on the sessions, or the one     *)
(* fact that it changed the ledger. Modelled with the log of an error; the *)
(* headers that every answer gets alike are left out.                      *)
EXTENDS Naturals, FiniteSets, Sequences

CONSTANTS
    Requests,       \* requests under way; each is answered once
    Tokens,         \* values the session cookie may have
    Sent,           \* <<method, path>> pairs that are requested
    Thrown,         \* errors a handler may throw, each as its chain of causes
    ChainDepth      \* causes d1ErrorLogFields looks at, 8 in the code

ASSUME ChainDepthAssumption == ChainDepth \in Nat /\ ChainDepth >= 2

\* A token is 32 random bytes: neither a missing cookie nor one that was made up is one.
ASSUME TokensAssumption == {"no cookie", "forged"} \cap Tokens = {}

VARIABLES
    request,        \* [pc, sent, origin, cookie, wasLive, answer] of each
    sessionRow,     \* sessions: "none", "live", "revoked" or "expired" of each token
    changedBy,      \* history: the requests whose handler changed a table
    logged          \* history: the messages of errors in the log

routerVars == <<request, sessionRow, changedBy, logged>>

NoCookie == "no cookie"
Forged == "forged"                   \* a cookie no login ever set
Get(path) == <<"GET", path>>
Post(path) == <<"POST", path>>
Put(path) == <<"PUT", path>>
Delete(path) == <<"DELETE", path>>

publicApiPaths == {"auth/login", "auth/logout", "auth/session", "auth/setup", "health"}

PublicRoutes == {Get("health"), Post("auth/setup"), Post("auth/login"),
                 Post("auth/logout"), Get("auth/session")}

PrivateRoutes ==
    {Get(p) : p \in {"accounts", "transactions", "analytics/overview",
        "analytics/breakdowns", "analytics/trends", "preferences/currency",
        "categories", "category-sources", "transactions/:id/compensations",
        "sync/transactions/status"}}
    \cup {Post(p) : p \in {"exchange-rates/sync", "categories", "categories/:id/merge",
        "transactions/:id/compensations", "sync/accounts", "sync/transactions"}}
    \cup (UNION {{Put(p), Delete(p)} : p \in {"category-sources/:code", "categories/:id",
        "transactions/:id/category", "transactions/:id/adjustment",
        "transactions/:id/exclusion"}})
    \cup {Put("preferences/currency"), Delete("transactions/:id/compensations/:link")}

Mounted == PublicRoutes \cup PrivateRoutes
Public(r) == request[r].sent[2] \in publicApiPaths
SafeMethods == {"GET", "HEAD", "OPTIONS"}
Unsafe(r) == request[r].sent[1] \notin SafeMethods

\* assertSameOrigin: no Origin header passes.
SameOrigin(r) == request[r].origin \in {"none", "own"}

RowFound(r) ==                       \* mutant: revoked_at is not looked at
    /\ request[r].cookie \in Tokens
    /\ sessionRow[request[r].cookie] \in {"live", "revoked"}

\* requireSession, with its clock and its two reads.
SessionLive(r) == /\ request[r].cookie \in Tokens
                  /\ sessionRow[request[r].cookie] = "live"

Waiting == [pc |-> "idle", sent |-> Get("health"), origin |-> "none", cookie |-> NoCookie,
            wasLive |-> FALSE, answer |-> 0]

RouterInit ==
    /\ request = [r \in Requests |-> Waiting]
    /\ sessionRow \in [Tokens -> {"none", "live"}]
    /\ changedBy = {} /\ logged = {}

Answered(r, status) ==
    [request EXCEPT ![r].pc = "answered", ![r].answer = status]

Arrive(r) ==
    /\ request[r].pc = "idle"
    /\ \E sent \in Sent, origin \in {"none", "own", "foreign"},
          cookie \in {t \in Tokens : sessionRow[t] # "none"} \cup {NoCookie, Forged} :
          request' = [request EXCEPT ![r] = [Waiting EXCEPT !.pc = "arrived", !.sent = sent,
              !.origin = origin, !.cookie = cookie,
              !.wasLive = cookie \in Tokens /\ sessionRow[cookie] = "live"]]
    /\ UNCHANGED <<sessionRow, changedBy, logged>>

\* The second middleware, up to next().
Admit(r) ==
    /\ request[r].pc = "arrived"
    /\ request' =
           IF Public(r) THEN [request EXCEPT ![r].pc = "admitted"]
           ELSE IF Unsafe(r) /\ ~SameOrigin(r) THEN Answered(r, 400)
           ELSE IF ~SessionLive(r) THEN Answered(r, 401)
           ELSE [request EXCEPT ![r].pc = "admitted"]
    /\ UNCHANGED <<sessionRow, changedBy, logged>>

NotFound(r) ==
    /\ request[r].pc = "admitted" /\ request[r].sent \notin Mounted
    /\ request' = Answered(r, 404)
    /\ UNCHANGED <<sessionRow, changedBy, logged>>

\* A private handler: what it does to the ledger is in the other modules.
HandlePrivate(r) ==
    /\ request[r].pc = "admitted" /\ request[r].sent \in PrivateRoutes
    /\ request' = Answered(r, 200)
    /\ changedBy' = IF Unsafe(r) THEN changedBy \cup {r} ELSE changedBy
    /\ UNCHANGED <<sessionRow, logged>>

\* The authentication handlers assert the origin themselves; setup and login may
\* also be refused for what Authentication says of them.
RefusedOrigin(r) ==
    /\ request[r].pc = "admitted" /\ request[r].sent \in PublicRoutes
    /\ Unsafe(r) /\ ~SameOrigin(r)
    /\ request' = Answered(r, 400)
    /\ UNCHANGED <<sessionRow, changedBy, logged>>

RefusedCredentials(r) ==
    /\ request[r].pc = "admitted"
    /\ request[r].sent \in {Post("auth/setup"), Post("auth/login")} /\ SameOrigin(r)
    /\ \E status \in IF request[r].sent = Post("auth/setup") THEN {400, 409}
                     ELSE {400, 401, 429} : request' = Answered(r, status)
    /\ UNCHANGED <<sessionRow, changedBy, logged>>

LoginSucceeds(r) ==
    /\ request[r].pc = "admitted" /\ request[r].sent = Post("auth/login") /\ SameOrigin(r)
    /\ \E token \in Tokens : /\ sessionRow[token] = "none"
                             /\ sessionRow' = [sessionRow EXCEPT ![token] = "live"]
    /\ request' = Answered(r, 200)
    /\ changedBy' = changedBy \cup {r}
    /\ UNCHANGED logged

Logout(r) ==
    /\ request[r].pc = "admitted" /\ request[r].sent = Post("auth/logout") /\ SameOrigin(r)
    /\ sessionRow' = [t \in Tokens |-> IF t = request[r].cookie /\ sessionRow[t] = "live"
                                       THEN "revoked" ELSE sessionRow[t]]
    /\ changedBy' = IF sessionRow' # sessionRow THEN changedBy \cup {r} ELSE changedBy
    /\ request' = Answered(r, 200)
    /\ UNCHANGED logged

\* currentSession and health only read.
HandlePublicRead(r) ==
    /\ request[r].pc = "admitted" /\ request[r].sent \in PublicRoutes /\ ~Unsafe(r)
    /\ request' = Answered(r, IF request[r].sent = Get("auth/session") /\ ~SessionLive(r)
                              THEN 401 ELSE 200)
    /\ UNCHANGED <<sessionRow, changedBy, logged>>

\* errors.some of the first eight of the chain
(* Errors nothing caught. A chain is the sequence of an error and its      *)
(* causes; the message of a "d1" error quotes SQL and bound values.        *)
IsD1Failure(chain) ==
    \E i \in DOMAIN chain : i <= ChainDepth /\ chain[i] = "d1"

\* safeErrorLogFields: the messages of the error and of its cause, unless D1's.
MessagesLogged(chain) ==
    IF IsD1Failure(chain) THEN {} ELSE {chain[i] : i \in DOMAIN chain \cap {1, 2}}

HandlerThrows(r) ==
    /\ request[r].pc \in {"arrived", "admitted"}
    /\ request[r].pc = "arrived" => ~Public(r) /\ request[r].cookie # NoCookie
                                    /\ (Unsafe(r) => SameOrigin(r))
    /\ request[r].sent \in Mounted /\ request[r].sent # Get("health")
    /\ \E chain \in Thrown : logged' = logged \cup MessagesLogged(chain)
    /\ request' = Answered(r, 500)
    /\ UNCHANGED <<sessionRow, changedBy>>

SessionExpires ==
    /\ \E t \in Tokens : /\ sessionRow[t] = "live"
                         /\ sessionRow' = [sessionRow EXCEPT ![t] = "expired"]
    /\ UNCHANGED <<request, changedBy, logged>>

RouterNext ==
    \/ SessionExpires
    \/ \E r \in Requests :
          \/ Arrive(r) \/ Admit(r) \/ NotFound(r) \/ HandlePrivate(r)
          \/ RefusedOrigin(r) \/ RefusedCredentials(r) \/ LoginSucceeds(r)
          \/ Logout(r) \/ HandlePublicRead(r) \/ HandlerThrows(r)

RouterSpec == RouterInit /\ [][RouterNext]_routerVars

Asked(r) == request[r].pc = "answered"

\* README: all financial endpoints require the authenticated owner session: a request
\* that comes with a session that was over when it arrived is answered 400 or 401,
\* on paths that do not exist too, whatever other requests do meanwhile.
PrivateNeedsSession ==
    \A r \in Requests :
        (Asked(r) /\ ~Public(r) /\ ~request[r].wasLive) => request[r].answer \in {400, 401, 500}

\* README: unsafe requests enforce same-origin checks: one of another origin changes
\* neither the ledger nor a session.
ForeignChangesNothing == \A r \in changedBy : request[r].origin # "foreign"

\* README: logs omit SQL messages, those of the causes of an error included.
LogsNoSql == "d1" \notin logged

\* Middleware and handlers in their order keep what the README promises of every
\* request: who may ask, from where, and what is logged of it.
RouterInvariant ==
    PrivateNeedsSession /\ ForeignChangesNothing /\ LogsNoSql
=============================================================================
