---------------------------- MODULE OfflineCache ----------------------------
(* The encrypted snapshots that tabs keep in one IndexedDB database. Reads  *)
(* and writes of a tab run through many awaits, while sessions end, begin   *)
(* again and delete the database from any tab. An operation carries the     *)
(* generation of the private session it started in, and a database handle   *)
(* that a deletion closes under it.                                         *)
EXTENDS Naturals, FiniteSets

CONSTANTS
    Tabs,
    Operations,      \* slots for getOfflineApiData calls in flight
    MaxGeneration,   \* bound: the private session's generation in a tab
    MaxKeys          \* bound: keys ever generated

ASSUME CacheAssumption == MaxGeneration \in Nat /\ MaxKeys \in Nat

VARIABLES
    status,          \* of each tab: loading, authenticated or ended
    generation,      \* of the private session of each tab
    cleanup,         \* AuthProvider's cleanup of each tab: idle, running, failed
    connection,      \* of each tab: closed, queued or open
    behind,          \* the deletions that the queued open of a tab waits for
    deleting,        \* tabs with an unfinished deleteDatabase request
    key,             \* the key in the database, 0 if none
    keys,            \* how many keys were generated
    records,         \* the keys that the records in the database are encrypted with
    operation,       \* the calls in flight
    shown            \* generation that the data on a tab's screen came from, or 0

session == <<status, generation, cleanup, shown>>
database == <<key, keys, records>>
requests == <<connection, behind, deleting>>
vars == <<session, database, requests, operation>>

Free == [phase |-> "free"]
Phases == {"fetch", "open", "get", "key", "generate", "store", "decrypt"}
Call == [tab : Tabs, generation : 0..MaxGeneration, phase : Phases,
         writes : BOOLEAN, usable : BOOLEAN, keySession : 0..MaxGeneration,
         key : 0..MaxKeys, record : 0..MaxKeys]

Init ==
    /\ status = [t \in Tabs |-> "loading"]
    /\ generation = [t \in Tabs |-> 0]
    /\ cleanup = [t \in Tabs |-> "idle"]
    /\ connection = [t \in Tabs |-> "closed"]
    /\ behind = [t \in Tabs |-> {}]
    /\ deleting = {}
    /\ key = 0 /\ keys = 0 /\ records = {}
    /\ operation = [o \in Operations |-> Free]
    /\ shown = [t \in Tabs |-> 0]

Calls(t) == {o \in Operations : operation[o] # Free /\ operation[o].tab = t}

\* assertPrivateSession(session.generation)
Live(c) == status[c.tab] = "authenticated" /\ generation[c.tab] = c.generation

-----------------------------------------------------------------------------
(* Sessions and cleanup *)

\* A call whose handle is closed fails at its next use of it, so nothing but its
\* tab and session tells it from another one; decryption needs no handle.
Orphan(c) ==
    IF c.phase = "decrypt" THEN [c EXCEPT !.usable = FALSE]
    ELSE [c EXCEPT !.usable = FALSE, !.phase = "open",
                   !.keySession = 0, !.key = 0, !.record = 0]

\* The handles and the awaited open of a tab stop working.
Close(t) ==
    /\ connection' = [connection EXCEPT ![t] = "closed"]
    /\ behind' = [behind EXCEPT ![t] = {}]
    /\ operation' = [o \in Operations |->
         IF o \in Calls(t) /\ operation[o].phase # "fetch"
         THEN Orphan(operation[o])
         ELSE operation[o]]

\* retryCleanup and clearOfflineCache: join the running cleanup, fail again
\* behind a blocked deletion, or close the database and delete it
Cleanup(t) ==
    \/ /\ cleanup[t] = "running"
       /\ UNCHANGED <<cleanup, requests, operation>>
    \/ /\ cleanup[t] # "running" /\ t \in deleting
       /\ cleanup' = [cleanup EXCEPT ![t] = "failed"]
       /\ UNCHANGED <<requests, operation>>
    \/ /\ cleanup[t] # "running" /\ t \notin deleting
       /\ cleanup' = [cleanup EXCEPT ![t] = "running"]
       /\ deleting' = deleting \cup {t}
       /\ Close(t)

\* A login, which waits for the cleanup, or a successful verification
AcceptSession(t) ==
    /\ status[t] # "authenticated" /\ cleanup[t] = "idle"
    /\ generation[t] < MaxGeneration
    /\ status' = [status EXCEPT ![t] = "authenticated"]
    /\ generation' = [generation EXCEPT ![t] = @ + 1]
    /\ UNCHANGED <<cleanup, shown, database, requests, operation>>

\* Logout, expiry, a 401 or the event of another tab
EndPrivateSession(t) ==
    /\ generation[t] < MaxGeneration
    /\ status' = [status EXCEPT ![t] = "ended"]
    /\ generation' = [generation EXCEPT ![t] = @ + 1]
    /\ shown' = [shown EXCEPT ![t] = 0]
    /\ Cleanup(t)
    /\ UNCHANGED database

\* The logout request failed: the session stays, the snapshots go.
FailedLogout(t) ==
    /\ status[t] = "authenticated"
    /\ Cleanup(t)
    /\ UNCHANGED <<status, generation, shown, database>>

RetryCleanup(t) ==
    /\ cleanup[t] = "failed"
    /\ Cleanup(t)
    /\ UNCHANGED <<status, generation, shown, database>>

\* A reload forgets all of the page, its deletion request included.
Load(t) ==
    /\ status' = [status EXCEPT ![t] = "loading"]
    /\ generation' = [generation EXCEPT ![t] = 0]
    /\ cleanup' = [cleanup EXCEPT ![t] = "idle"]
    /\ shown' = [shown EXCEPT ![t] = 0]
    /\ connection' = [connection EXCEPT ![t] = "closed"]
    /\ behind' = [u \in Tabs |-> IF u = t THEN {} ELSE behind[u] \ {t}]
    /\ deleting' = deleting \ {t}
    /\ operation' = [o \in Operations |->
                       IF o \in Calls(t) THEN Free ELSE operation[o]]
    /\ UNCHANGED database

-----------------------------------------------------------------------------
(* The database *)

\* An open waits for the deletions requested before it.
OpenSucceeds(t) ==
    /\ connection[t] = "queued" /\ behind[t] = {}
    /\ connection' = [connection EXCEPT ![t] = "open"]
    /\ UNCHANGED <<session, database, behind, deleting, operation>>

OpenFails(t) ==
    /\ connection[t] = "queued"
    /\ Close(t)
    /\ UNCHANGED <<session, database, deleting>>

\* onversionchange: another tab deletes the database
VersionChange(t) ==
    /\ connection[t] = "open" /\ deleting # {}
    /\ Close(t)
    /\ UNCHANGED <<session, database, deleting>>

\* A deletion waits for open connections and the opens requested before it.
DeletionSucceeds(t) ==
    /\ t \in deleting
    /\ \A u \in Tabs : \/ connection[u] = "closed"
                       \/ connection[u] = "queued" /\ t \in behind[u]
    /\ deleting' = deleting \ {t}
    /\ behind' = [u \in Tabs |-> behind[u] \ {t}]
    /\ key' = 0 /\ records' = {}
    /\ cleanup' = [cleanup EXCEPT ![t] = IF @ = "running" THEN "idle" ELSE @]
    /\ UNCHANGED <<status, generation, shown, connection, keys, operation>>

DeletionFails(t) ==
    /\ t \in deleting
    /\ deleting' = deleting \ {t}
    /\ behind' = [u \in Tabs |-> behind[u] \ {t}]
    /\ cleanup' = [cleanup EXCEPT ![t] = "failed"]
    /\ UNCHANGED <<status, generation, shown, connection, database, operation>>

BlockedResolves(t) ==                       \* mutant: taken for a success
    /\ t \in deleting /\ cleanup[t] = "running"
    /\ cleanup' = [cleanup EXCEPT ![t] = "idle"]
    /\ UNCHANGED <<status, generation, shown, database, requests, operation>>

\* onblocked: a connection is not closed yet; the deletion stays queued
DeletionBlocked(t) ==
    /\ t \in deleting /\ cleanup[t] = "running"
    /\ cleanup' = [cleanup EXCEPT ![t] = "failed"]
    /\ UNCHANGED <<status, generation, shown, database, requests, operation>>

-----------------------------------------------------------------------------
(* getOfflineApiData: load from the network, then store or read a snapshot *)

Advance(o, c) == operation' = [operation EXCEPT ![o] = c]

Show(c) == shown' = [shown EXCEPT ![c.tab] = generation[c.tab]]

FinishUnchecked(o) ==                       \* mutant: no assertion after the cache
    LET c == operation[o] IN
    /\ Advance(o, Free)
    /\ IF c.writes THEN Show(c) ELSE UNCHANGED shown

\* The call ends; a live value from the network is shown without the cache.
Finish(o) ==
    LET c == operation[o] IN
    /\ Advance(o, Free)
    /\ IF c.writes /\ Live(c) THEN Show(c) ELSE UNCHANGED shown

Begin(o, t) ==
    /\ operation[o] = Free /\ status[t] = "authenticated"
    /\ Advance(o, [tab |-> t, generation |-> generation[t], phase |-> "fetch",
                   writes |-> FALSE, usable |-> TRUE, keySession |-> 0,
                   key |-> 0, record |-> 0])
    /\ UNCHANGED <<session, database, requests>>

OpenBehind(o, writes) ==                    \* mutant: opens behind the deletion
    LET c == operation[o]
        t == c.tab IN
    /\ Advance(o, [c EXCEPT !.phase = "open", !.writes = writes])
    /\ IF connection[t] = "closed"
       THEN /\ connection' = [connection EXCEPT ![t] = "queued"]
            /\ behind' = [behind EXCEPT ![t] = deleting]
       ELSE UNCHANGED <<connection, behind>>
    /\ UNCHANGED <<shown, deleting>>

\* getDatabase: refused behind the tab's own deletion, else a shared open
GetDatabase(o, writes) ==
    LET c == operation[o]
        t == c.tab IN
    IF t \in deleting
    THEN /\ Advance(o, Free)
         /\ IF writes THEN Show(c) ELSE UNCHANGED shown
         /\ UNCHANGED requests
    ELSE /\ Advance(o, [c EXCEPT !.phase = "open", !.writes = writes])
         /\ IF connection[t] = "closed"
            THEN /\ connection' = [connection EXCEPT ![t] = "queued"]
                 /\ behind' = [behind EXCEPT ![t] = deleting]
            ELSE UNCHANGED <<connection, behind>>
         /\ UNCHANGED <<shown, deleting>>

\* The network answers, or fails with a TypeError.
Fetched(o) ==
    LET c == operation[o] IN
    /\ c # Free /\ c.phase = "fetch" /\ Live(c)
    /\ \E writes \in BOOLEAN : GetDatabase(o, writes)
    /\ UNCHANGED <<status, generation, cleanup, database>>

\* A 401 ends the session; any other failure is an error on the screen.
FetchRefused(o) ==
    LET c == operation[o] IN
    /\ c # Free /\ c.phase = "fetch"
    /\ Live(c)
    /\ EndPrivateSession(c.tab)

AtPhase(o, phase) == operation[o] # Free /\ operation[o].phase = phase

Opened(o) ==
    LET c == operation[o] IN
    /\ AtPhase(o, "open") /\ c.usable /\ connection[c.tab] = "open"
    /\ Advance(o, [c EXCEPT !.phase = IF c.writes THEN "key" ELSE "get"])
    /\ UNCHANGED <<session, database, requests>>

\* readOfflineData finds one of the records; without one, the call fails.
GetRecord(o) ==
    LET c == operation[o] IN
    /\ AtPhase(o, "get") /\ c.usable /\ Live(c)
    /\ \E record \in records :
         Advance(o, [c EXCEPT !.phase = "key", !.record = record])
    /\ UNCHANGED <<session, database, requests>>

KeyPhase(c) == IF c.writes THEN "store" ELSE "decrypt"

\* getEncryptionKey: read the key, generate one outside the transaction, and
\* keep the one another call stored meanwhile
ReadKey(o) ==
    LET c == operation[o] IN
    /\ AtPhase(o, "key") /\ c.usable /\ status[c.tab] = "authenticated"
    /\ Advance(o, IF key # 0
                  THEN [c EXCEPT !.phase = KeyPhase(c), !.key = key]
                  ELSE [c EXCEPT !.phase = "generate",
                                 !.keySession = generation[c.tab]])
    /\ UNCHANGED <<session, database, requests>>

StoreKeyOver(o) ==                          \* mutant: no second look at the key
    LET c == operation[o] IN
    /\ AtPhase(o, "generate") /\ c.usable
    /\ status[c.tab] = "authenticated" /\ generation[c.tab] = c.keySession
    /\ keys < MaxKeys
    /\ keys' = keys + 1
    /\ key' = keys + 1
    /\ Advance(o, [c EXCEPT !.phase = KeyPhase(c), !.key = key'])
    /\ UNCHANGED <<session, records, requests>>

StoreKey(o) ==
    LET c == operation[o] IN
    /\ AtPhase(o, "generate") /\ c.usable
    /\ status[c.tab] = "authenticated" /\ generation[c.tab] = c.keySession
    /\ keys < MaxKeys
    /\ keys' = keys + 1
    /\ key' = IF key = 0 THEN keys + 1 ELSE key
    /\ Advance(o, [c EXCEPT !.phase = KeyPhase(c), !.key = key'])
    /\ UNCHANGED <<session, records, requests>>

StoreRecord(o) ==
    LET c == operation[o] IN
    /\ AtPhase(o, "store") /\ c.usable /\ Live(c)
    /\ records' = records \cup {c.key}
    /\ Finish(o)
    /\ UNCHANGED <<status, generation, cleanup, key, keys, requests>>

Decrypt(o) ==
    LET c == operation[o] IN
    /\ AtPhase(o, "decrypt") /\ Live(c) /\ c.key = c.record
    /\ Advance(o, Free)
    /\ Show(c)
    /\ UNCHANGED <<status, generation, cleanup, database, requests>>

\* An assertion, a closed handle or the storage fails; fetch and decryption too.
Fail(o) ==
    /\ operation[o] # Free
    /\ Finish(o)
    /\ UNCHANGED <<status, generation, cleanup, database, requests>>

-----------------------------------------------------------------------------
TabStep(t) ==
    \/ AcceptSession(t) \/ EndPrivateSession(t) \/ FailedLogout(t)
    \/ RetryCleanup(t) \/ Load(t)
    \/ OpenSucceeds(t) \/ OpenFails(t) \/ VersionChange(t)
    \/ DeletionSucceeds(t) \/ DeletionFails(t) \/ DeletionBlocked(t)

OperationStep(o) ==
    \/ \E t \in Tabs : Begin(o, t)
    \/ Fetched(o) \/ FetchRefused(o) \/ Opened(o) \/ GetRecord(o)
    \/ ReadKey(o) \/ StoreKey(o) \/ StoreRecord(o) \/ Decrypt(o) \/ Fail(o)

Next ==
    \/ \E t \in Tabs : TabStep(t)
    \/ \E o \in Operations : OperationStep(o)

Spec == Init /\ [][Next]_vars

-----------------------------------------------------------------------------
TypeInvariant ==
    /\ status \in [Tabs -> {"loading", "authenticated", "ended"}]
    /\ generation \in [Tabs -> 0..MaxGeneration]
    /\ cleanup \in [Tabs -> {"idle", "running", "failed"}]
    /\ connection \in [Tabs -> {"closed", "queued", "open"}]
    /\ behind \in [Tabs -> SUBSET deleting]
    /\ deleting \subseteq Tabs
    /\ keys \in 0..MaxKeys /\ key \in 0..keys /\ records \subseteq 1..keys
    /\ operation \in [Operations -> Call \cup {Free}]
    /\ shown \in [Tabs -> 0..MaxGeneration]

\* README, "logout deletes the IndexedDB database and encryption key": once the
\* session has ended in every tab and their cleanups are done, nothing is left
\* behind, whatever calls were in flight in whichever tab.
Erased ==
    (\A t \in Tabs : status[t] = "ended" /\ cleanup[t] = "idle") =>
      records = {} /\ key = 0

\* Every stored snapshot can be decrypted with the stored key, whichever tabs
\* generated keys at once and deleted the database in between; nor does a call
\* that found a record get another key than the record's.
Decryptable ==
    /\ records \subseteq {key}
    /\ \A o \in Operations :
         AtPhase(o, "decrypt") => operation[o].key = operation[o].record

\* README, "late responses and offline cache operations from an ended session
\* are rejected": what a screen shows was requested in the session it is in.
ShownIsLive ==
    \A t \in Tabs : shown[t] # 0 =>
      status[t] = "authenticated" /\ generation[t] = shown[t]

\* encrypted-offline-cache.ts, "do not reopen the database behind it": a tab that
\* waits for its own deletion has no connection and no usable handle.
LockedWhileDeleting ==
    \A t \in deleting :
      /\ connection[t] = "closed"
      /\ \A o \in Calls(t) : operation[o].phase # "fetch" => ~operation[o].usable
=============================================================================
