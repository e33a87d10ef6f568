---------------------------- MODULE ClientProofs ----------------------------
(* The browser's screens. What they show is live, what is stored can be      *)
(* decrypted, and what was stored is erased, for every number of tabs, calls,*)
(* keys and sessions; the dialogs and the bank types of the categories page  *)
(* and the links of an expense follow what was stored, for any number of     *)
(* changes, pages, saves and requests.                                       *)
EXTENDS OfflineCache, CompensationClient, BankTypes, DataTheorems, TLAPS


Same == operation' = operation /\ UNCHANGED requests

\* A usable handle is connected, so that the key a call holds is the stored one.
Connected(c) ==
    c.usable /\ c.phase \notin {"fetch", "open"} => connection[c.tab] = "open"
Keyed(c) ==
    /\ c.usable /\ c.phase = "store" => key # 0 /\ c.key = key
    /\ c.usable /\ ~c.writes /\ c.phase \in {"key", "generate"} =>
         c.record \in records
    /\ c.phase = "decrypt" => c.key = c.record

Handled ==
    /\ \A o \in Operations :
         operation[o] # Free => Connected(operation[o]) /\ Keyed(operation[o])
    /\ records \subseteq {key}

LEMMA PhaseNames ==
    /\ "fetch" \in Phases /\ "open" \in Phases /\ "get" \in Phases /\ "key" \in Phases
    /\ "generate" \in Phases /\ "store" \in Phases /\ "decrypt" \in Phases
  BY DEF Phases

LEMMA CallOpens ==
    ASSUME NEW c, c \in Call, NEW writes \in BOOLEAN
    PROVE  LET n == [c EXCEPT !.phase = "open", !.writes = writes]
           IN n \in Call /\ n.phase = "open"
<1> DEFINE n == [c EXCEPT !.phase = "open", !.writes = writes]
           G == 0..MaxGeneration
           K == 0..MaxKeys
           calls == [tab : Tabs, generation : G, phase : Phases, writes : BOOLEAN,
                     usable : BOOLEAN, keySession : G, key : K, record : K]
<1>1. Call = calls
  BY DEF Call
<1> HIDE DEF G, K
<1>2. n \in calls /\ n.phase = "open"
  BY <1>1, PhaseNames
<1> HIDE DEF n, calls
<1>3. n \in Call /\ n.phase = "open"
  BY <1>1, <1>2
<1> QED BY <1>3 DEF n

LEMMA CallFields ==
    ASSUME NEW o \in Operations, TypeInvariant, operation[o] # Free
    PROVE  operation[o] \in Call
  BY DEF TypeInvariant

LEMMA Closed ==
    ASSUME TypeInvariant, NEW t \in Tabs, Close(t)
    PROVE  /\ connection' \in [Tabs -> {"closed", "queued", "open"}]
           /\ \A u \in Tabs : behind'[u] \subseteq behind[u]
           /\ behind' \in [Tabs -> SUBSET deleting]
           /\ operation' \in [Operations -> Call \cup {Free}]
<1>1. ASSUME NEW o \in Operations, o \in Calls(t)
      PROVE  Orphan(operation[o]) \in Call
  <2>1. operation[o] \in Call
    BY <1>1, CallFields DEF Calls
  <2>2. 0 \in 0..MaxGeneration /\ 0 \in 0..MaxKeys /\ "open" \in Phases
    BY CacheAssumption DEF Phases
  <2>3. CASE operation[o].phase = "decrypt"
    BY <2>1, <2>3 DEF Call, Orphan
  <2>4. CASE operation[o].phase # "decrypt"
    BY <2>1, <2>2, <2>4 DEF Call, Orphan
  <2> QED
    BY <2>3, <2>4
<1> QED
  BY <1>1 DEF Close, TypeInvariant

\* All that Cleanup does, in one of three ways
LEMMA Cleaned ==
    ASSUME TypeInvariant, NEW t \in Tabs, Cleanup(t)
    PROVE  /\ cleanup' \in [Tabs -> {"idle", "running", "failed"}]
           /\ cleanup'[t] # "idle"
           /\ connection' \in [Tabs -> {"closed", "queued", "open"}]
           /\ deleting' \subseteq Tabs
           /\ behind' \in [Tabs -> SUBSET deleting']
           /\ operation' \in [Operations -> Call \cup {Free}]
           /\ \/ Same
              \/ Close(t) /\ deleting' = deleting \cup {t}
<1>1. CASE cleanup[t] = "running" /\ UNCHANGED <<cleanup, requests, operation>>
  BY <1>1 DEF TypeInvariant, requests, Same
<1>2. CASE /\ cleanup' = [cleanup EXCEPT ![t] = "failed"]
           /\ UNCHANGED <<requests, operation>>
  BY <1>2 DEF TypeInvariant, requests, Same
<1>3. CASE /\ cleanup' = [cleanup EXCEPT ![t] = "running"]
           /\ deleting' = deleting \cup {t}
           /\ Close(t)
  <2>1. /\ connection' \in [Tabs -> {"closed", "queued", "open"}]
        /\ behind' \in [Tabs -> SUBSET deleting]
        /\ operation' \in [Operations -> Call \cup {Free}]
    BY <1>3, Closed
  <2> QED
    BY <1>3, <2>1 DEF TypeInvariant
<1> QED
  BY <1>1, <1>2, <1>3 DEF Cleanup

-----------------------------------------------------------------------------
(* Types *)

LEMMA TypeInit == Init => TypeInvariant
  BY CacheAssumption DEF Init, TypeInvariant

\* What a step of call o leaves: a call or a free slot.
LEMMA Advanced ==
    ASSUME TypeInvariant, NEW o \in Operations, NEW c \in Call \cup {Free},
           Advance(o, c)
    PROVE  operation' \in [Operations -> Call \cup {Free}]
  BY DEF Advance, TypeInvariant

LEMMA Shown ==
    ASSUME TypeInvariant, NEW o \in Operations,
           \/ UNCHANGED shown
           \/ operation[o] # Free /\ Show(operation[o])
    PROVE  shown' \in [Tabs -> 0..MaxGeneration]
<1>1. CASE operation[o] # Free /\ Show(operation[o])
  <2>1. operation[o].tab \in Tabs
    BY <1>1, CallFields DEF Call
  <2> QED
    BY <1>1, <2>1 DEF Show, TypeInvariant
<1> QED
  BY <1>1 DEF TypeInvariant

LEMMA Finished ==
    ASSUME TypeInvariant, NEW o \in Operations, operation[o] # Free, Finish(o)
    PROVE  /\ operation' \in [Operations -> Call \cup {Free}]
           /\ shown' \in [Tabs -> 0..MaxGeneration]
<1>1. Advance(o, Free) /\ (UNCHANGED shown \/ Show(operation[o]))
  BY DEF Finish
<1> QED
  BY <1>1, Advanced, Shown

LEMMA TabStepType ==
    ASSUME TypeInvariant, NEW t \in Tabs, TabStep(t)
    PROVE  TypeInvariant'
<1> USE CacheAssumption
<1>1. CASE AcceptSession(t)
  BY <1>1 DEF AcceptSession, TypeInvariant, database, requests
<1>2. CASE EndPrivateSession(t)
  <2>1. Cleanup(t)
    BY <1>2 DEF EndPrivateSession
  <2> QED
    BY <1>2, <2>1, Cleaned DEF EndPrivateSession, TypeInvariant, database
<1>3. CASE FailedLogout(t)
  <2>1. Cleanup(t)
    BY <1>3 DEF FailedLogout
  <2> QED
    BY <1>3, <2>1, Cleaned DEF FailedLogout, TypeInvariant, database
<1>4. CASE RetryCleanup(t)
  <2>1. Cleanup(t)
    BY <1>4 DEF RetryCleanup
  <2> QED
    BY <1>4, <2>1, Cleaned DEF RetryCleanup, TypeInvariant, database
<1>5. CASE Load(t)
  BY <1>5 DEF Load, TypeInvariant, database
<1>6. CASE OpenSucceeds(t)
  BY <1>6 DEF OpenSucceeds, TypeInvariant, session, database
<1>7. CASE OpenFails(t) \/ VersionChange(t)
  <2>1. Close(t)
    BY <1>7 DEF OpenFails, VersionChange
  <2> QED
    BY <1>7, <2>1, Closed
    DEF OpenFails, VersionChange, TypeInvariant, session, database
<1>8. CASE DeletionSucceeds(t)
  BY <1>8 DEF DeletionSucceeds, TypeInvariant
<1>9. CASE DeletionFails(t)
  BY <1>9 DEF DeletionFails, TypeInvariant, database
<1>10. CASE DeletionBlocked(t)
  BY <1>10 DEF DeletionBlocked, TypeInvariant, database, requests
<1> QED
  BY <1>1, <1>2, <1>3, <1>4, <1>5, <1>6, <1>7, <1>8, <1>9, <1>10 DEF TabStep

\* Fetched passes the call to GetDatabase, which drops it or lets it wait.
LEMMA DatabaseAsked ==
    ASSUME TypeInvariant, NEW o \in Operations, operation[o] # Free,
           NEW writes \in BOOLEAN, GetDatabase(o, writes)
    PROVE  LET c == operation[o] IN
           /\ \/ c.tab \in deleting /\ Advance(o, Free) /\ UNCHANGED requests
              \/ /\ c.tab \notin deleting
                 /\ Advance(o, [c EXCEPT !.phase = "open", !.writes = writes])
                 /\ UNCHANGED <<shown, deleting>>
                 /\ \/ UNCHANGED <<connection, behind>>
                    \/ /\ connection[c.tab] = "closed"
                       /\ connection' = [connection EXCEPT ![c.tab] = "queued"]
                       /\ behind' = [behind EXCEPT ![c.tab] = deleting]
           /\ UNCHANGED shown \/ Show(c)
  BY DEF GetDatabase, requests

LEMMA OperationStepType ==
    ASSUME TypeInvariant, Handled, NEW o \in Operations, OperationStep(o)
    PROVE  TypeInvariant'
<1> DEFINE c == operation[o]
<1>0. c # Free => c \in Call
  BY CallFields
<1> USE CacheAssumption
<1>1. CASE \E t \in Tabs : Begin(o, t)
  <2>1. PICK t \in Tabs : Begin(o, t)
    BY <1>1
  <2> DEFINE n == [tab |-> t, generation |-> generation[t], phase |-> "fetch",
                   writes |-> FALSE, usable |-> TRUE, keySession |-> 0,
                   key |-> 0, record |-> 0]
  <2>2. n \in Call
    BY DEF Call, Phases, TypeInvariant
  <2>3. operation' \in [Operations -> Call \cup {Free}]
    BY <2>1, <2>2, Advanced DEF Begin
  <2> QED
    BY <2>1, <2>3 DEF Begin, TypeInvariant, session, database, requests
<1>2. CASE Fetched(o)
  <2>1. PICK writes \in BOOLEAN : GetDatabase(o, writes)
    BY <1>2 DEF Fetched
  <2>2. c # Free /\ c \in Call
    BY <1>0, <1>2 DEF Fetched
  <2>3. [c EXCEPT !.phase = "open", !.writes = writes] \in Call
    BY <2>2, CallOpens
  <2>4. operation' \in [Operations -> Call \cup {Free}]
    BY <2>1, <2>2, <2>3, DatabaseAsked, Advanced
  <2>5. shown' \in [Tabs -> 0..MaxGeneration]
    BY <2>1, <2>2, DatabaseAsked, Shown
  <2>6. /\ connection' \in [Tabs -> {"closed", "queued", "open"}]
        /\ behind' \in [Tabs -> SUBSET deleting']
        /\ deleting' = deleting
    <3>1. /\ deleting' = deleting
          /\ \/ connection' = connection /\ behind' = behind
             \/ /\ connection' = [connection EXCEPT ![c.tab] = "queued"]
                /\ behind' = [behind EXCEPT ![c.tab] = deleting]
      BY <2>1, <2>2, DatabaseAsked DEF requests
    <3>2. /\ connection \in [Tabs -> {"closed", "queued", "open"}]
          /\ behind \in [Tabs -> SUBSET deleting]
      BY DEF TypeInvariant
    <3> HIDE DEF c
    <3>3. connection' \in [Tabs -> {"closed", "queued", "open"}]
      BY <3>1, <3>2
    <3>4. behind' \in [Tabs -> SUBSET deleting]
      BY <3>1, <3>2
    <3> QED BY <3>1, <3>3, <3>4
  <2> QED
    BY <1>2, <2>4, <2>5, <2>6 DEF Fetched, TypeInvariant, database
<1>3. CASE FetchRefused(o)
  <2>1. c \in Call /\ EndPrivateSession(c.tab)
    BY <1>0, <1>3 DEF FetchRefused
  <2>2. c.tab \in Tabs
    BY <2>1 DEF Call
  <2> QED
    BY <2>1, <2>2, TabStepType DEF TabStep
<1>4. CASE Opened(o)
  <2>1. [c EXCEPT !.phase = IF c.writes THEN "key" ELSE "get"] \in Call
    BY <1>0, <1>4 DEF Opened, AtPhase, Call, Phases
  <2>2. operation' \in [Operations -> Call \cup {Free}]
    BY <1>4, <2>1, Advanced DEF Opened
  <2> QED
    BY <1>4, <2>2 DEF Opened, TypeInvariant, session, database, requests
<1>5. CASE GetRecord(o)
  <2>1. PICK record \in records :
          Advance(o, [c EXCEPT !.phase = "key", !.record = record])
    BY <1>5 DEF GetRecord
  <2>2. record \in 0..MaxKeys
    BY <2>1 DEF TypeInvariant
  <2>3. [c EXCEPT !.phase = "key", !.record = record] \in Call
    BY <1>0, <1>5, <2>2 DEF GetRecord, AtPhase, Call, Phases
  <2>4. operation' \in [Operations -> Call \cup {Free}]
    BY <2>1, <2>3, Advanced
  <2> QED
    BY <1>5, <2>4 DEF GetRecord, TypeInvariant, session, database, requests
<1>6. CASE ReadKey(o)
  <2>1. c \in Call
    BY <1>0, <1>6 DEF ReadKey, AtPhase
  <2>2. /\ key \in 0..MaxKeys
        /\ generation[c.tab] \in 0..MaxGeneration
    BY <2>1 DEF TypeInvariant, Call
  <2>3. [c EXCEPT !.phase = KeyPhase(c), !.key = key] \in Call
    BY <2>1, <2>2 DEF Call, Phases, KeyPhase
  <2>4. [c EXCEPT !.phase = "generate", !.keySession = generation[c.tab]] \in Call
    BY <2>1, <2>2 DEF Call, Phases
  <2>5. operation' \in [Operations -> Call \cup {Free}]
    BY <1>6, <2>3, <2>4, Advanced DEF ReadKey
  <2> QED
    BY <1>6, <2>5 DEF ReadKey, TypeInvariant, session, database, requests
<1>7. CASE StoreKey(o)
  <2>1. c \in Call
    BY <1>0, <1>7 DEF StoreKey, AtPhase
  <2>2. keys' \in 0..MaxKeys /\ key' \in 0..keys' /\ records' \subseteq 1..keys'
    BY <1>7 DEF StoreKey, TypeInvariant
  <2>3. \A k \in 0..MaxKeys :
          [c EXCEPT !.phase = KeyPhase(c), !.key = k] \in Call
    BY <2>1 DEF Call, Phases, KeyPhase
  <2>4. key' \in 0..MaxKeys
    BY <2>2
  <2>5. operation' \in [Operations -> Call \cup {Free}]
    BY <1>7, <2>3, <2>4, Advanced DEF StoreKey
  <2> QED
    BY <1>7, <2>2, <2>5 DEF StoreKey, TypeInvariant, session, requests
<1>8. CASE StoreRecord(o)
  <2>1. c \in Call /\ c # Free /\ Finish(o)
    BY <1>0, <1>8 DEF StoreRecord, AtPhase
  <2>2. key \in 1..keys /\ c.key = key
    BY <1>8, <2>1 DEF StoreRecord, AtPhase, Handled, Keyed, TypeInvariant
  <2>3. records' \subseteq 1..keys
    BY <1>8, <2>2 DEF StoreRecord, TypeInvariant
  <2> QED
    BY <1>8, <2>1, <2>3, Finished DEF StoreRecord, TypeInvariant, requests
<1>9. CASE Decrypt(o)
  <2>1. Advance(o, Free) /\ Show(c) /\ c # Free
    BY <1>9 DEF Decrypt, AtPhase
  <2>2. /\ operation' \in [Operations -> Call \cup {Free}]
        /\ shown' \in [Tabs -> 0..MaxGeneration]
    BY <2>1, Advanced, Shown
  <2> QED
    BY <1>9, <2>2 DEF Decrypt, TypeInvariant, database, requests
<1>10. CASE Fail(o)
  BY <1>10, Finished DEF Fail, TypeInvariant, database, requests
<1> QED
  BY <1>1, <1>2, <1>3, <1>4, <1>5, <1>6, <1>7, <1>8, <1>9, <1>10
  DEF OperationStep

-----------------------------------------------------------------------------
(* Handles *)

\* A step that leaves the calls alone or only takes handles away, and keeps
\* the connections of the calls that still have one.
LEMMA HandlesKept ==
    ASSUME TypeInvariant, Handled, UNCHANGED <<key, records>>,
           NEW t \in Tabs,
           \/ operation' = operation /\ UNCHANGED connection
           \/ Close(t)
    PROVE  Handled'
<1>1. CASE operation' = operation /\ UNCHANGED connection
  BY <1>1 DEF Handled, Connected, Keyed
<1>2. CASE Close(t)
  <2>1. ASSUME NEW o \in Operations, operation'[o] # Free
        PROVE  Connected(operation[o])' /\ Keyed(operation[o])'
    <3>1. CASE o \in Calls(t) /\ operation[o].phase # "fetch"
      <4>1. operation[o] \in Call
        BY <3>1, CallFields DEF Calls
      <4>2. operation'[o] = Orphan(operation[o])
        BY <1>2, <3>1 DEF Close
      <4>3. CASE operation[o].phase = "decrypt"
        BY <3>1, <4>1, <4>2, <4>3
        DEF Orphan, Handled, Connected, Keyed, Call, Calls
      <4>4. CASE operation[o].phase # "decrypt"
        <5>1. ~operation'[o].usable /\ operation'[o].phase = "open"
          BY <4>1, <4>2, <4>4 DEF Orphan, Call
        <5> QED
          BY <5>1 DEF Connected, Keyed
      <4> QED
        BY <4>3, <4>4
    <3>2. CASE ~(o \in Calls(t) /\ operation[o].phase # "fetch")
      <4>1. operation'[o] = operation[o]
        BY <1>2, <3>2 DEF Close
      <4>2. operation[o] \in Call
        BY <2>1, <4>1, CallFields
      <4> QED
        BY <1>2, <2>1, <3>2, <4>1, <4>2
        DEF Close, Handled, Connected, Keyed, Call, Calls, TypeInvariant
    <3> QED
      BY <3>1, <3>2
  <2> QED
    BY <2>1 DEF Handled
<1> QED
  BY <1>1, <1>2

LEMMA TabStepHandled ==
    ASSUME TypeInvariant, Handled, NEW t \in Tabs, TabStep(t)
    PROVE  Handled'
<1>1. CASE AcceptSession(t) \/ DeletionBlocked(t)
  BY <1>1, HandlesKept
  DEF AcceptSession, DeletionBlocked, database, requests
<1>2. CASE EndPrivateSession(t) \/ FailedLogout(t) \/ RetryCleanup(t)
  <2>1. Cleanup(t) /\ UNCHANGED database
    BY <1>2 DEF EndPrivateSession, FailedLogout, RetryCleanup
  <2>2. Same \/ Close(t)
    BY <2>1, Cleaned
  <2> QED
    BY <2>1, <2>2, HandlesKept DEF Same, requests, database
<1>3. CASE OpenFails(t) \/ VersionChange(t)
  BY <1>3, HandlesKept DEF OpenFails, VersionChange, database
<1>4. CASE DeletionFails(t)
  BY <1>4, HandlesKept DEF DeletionFails, database
<1>5. CASE Load(t)
  <2>1. ASSUME NEW o \in Operations, operation'[o] # Free
        PROVE  Connected(operation[o])' /\ Keyed(operation[o])'
    <3>1. o \notin Calls(t) /\ operation'[o] = operation[o]
      BY <1>5, <2>1 DEF Load
    <3>2. operation[o] \in Call /\ operation[o].tab # t
      BY <2>1, <3>1, CallFields DEF Calls
    <3> QED
      BY <1>5, <2>1, <3>1, <3>2
      DEF Load, Handled, Connected, Keyed, Call, database, TypeInvariant
  <2> QED
    BY <1>5, <2>1 DEF Load, Handled, database
<1>6. CASE OpenSucceeds(t)
  <2>1. ASSUME NEW o \in Operations, operation[o] # Free
        PROVE  Connected(operation[o])' /\ Keyed(operation[o])'
    <3>1. operation[o] \in Call
      BY <2>1, CallFields
    <3> QED
      BY <1>6, <2>1, <3>1
      DEF OpenSucceeds, Handled, Connected, Keyed, Call, database, TypeInvariant
  <2> QED
    BY <1>6, <2>1 DEF OpenSucceeds, Handled, database
<1>7. CASE DeletionSucceeds(t)
  <2>1. ASSUME NEW o \in Operations, operation[o] # Free
        PROVE  Connected(operation[o])' /\ Keyed(operation[o])'
    <3>1. operation[o] \in Call
      BY <2>1, CallFields
    <3>2. connection[operation[o].tab] # "open"
      BY <1>7, <3>1 DEF DeletionSucceeds, Call
    <3> QED
      BY <1>7, <2>1, <3>1, <3>2
      DEF DeletionSucceeds, Handled, Connected, Keyed, Call
  <2> QED
    BY <1>7, <2>1 DEF DeletionSucceeds, Handled
<1> QED
  BY <1>1, <1>2, <1>3, <1>4, <1>5, <1>6, <1>7 DEF TabStep

\* A step of one call that keeps connections open, and the key if there is one.
LEMMA CallMoved ==
    ASSUME TypeInvariant, Handled, NEW o \in Operations,
           NEW n \in Call \cup {Free}, Advance(o, n),
           n # Free => Connected(n)' /\ Keyed(n)',
           \A u \in Tabs : connection[u] = "open" => connection'[u] = "open",
           key # 0 => key' = key,
           records \subseteq records', records' \subseteq {key'}
    PROVE  Handled'
<1>1. ASSUME NEW p \in Operations, operation'[p] # Free
      PROVE  Connected(operation[p])' /\ Keyed(operation[p])'
  <2>1. CASE p = o
    <3>1. operation'[p] = n
      BY <2>1 DEF Advance, TypeInvariant
    <3> QED
      BY <1>1, <3>1 DEF Connected, Keyed
  <2>2. CASE p # o
    <3>1. operation'[p] = operation[p]
      BY <2>2 DEF Advance, TypeInvariant
    <3>2. operation[p] \in Call
      BY <1>1, <3>1, CallFields
    <3>3. Connected(operation[p]) /\ Keyed(operation[p])
      BY <1>1, <3>1 DEF Handled
    <3> QED
      BY <3>1, <3>2, <3>3 DEF Connected, Keyed, Call
  <2> QED
    BY <2>1, <2>2
<1> QED
  BY <1>1 DEF Handled

LEMMA OperationStepHandled ==
    ASSUME TypeInvariant, Handled, NEW o \in Operations, OperationStep(o)
    PROVE  Handled'
<1> USE CacheAssumption
<1> DEFINE c == operation[o]
<1>0. c # Free => c \in Call /\ Connected(c) /\ Keyed(c)
  BY CallFields DEF Handled
<1>1. CASE \E t \in Tabs : Begin(o, t)
  <2>1. PICK t \in Tabs : Begin(o, t)
    BY <1>1
  <2>0. PICK n : n = [tab |-> t, generation |-> generation[t], phase |-> "fetch",
                   writes |-> FALSE, usable |-> TRUE, keySession |-> 0,
                   key |-> 0, record |-> 0]
    OBVIOUS
  <2>2. n \in Call /\ n.phase = "fetch"
    BY <2>0 DEF Call, Phases, TypeInvariant
  <2>3. Connected(n)' /\ Keyed(n)'
    BY <2>2 DEF Connected, Keyed
  <2> QED
    BY <2>0, <2>1, <2>2, <2>3, CallMoved DEF Begin, database, requests, Handled
<1>2. CASE Fetched(o)
  <2>1. PICK writes \in BOOLEAN : GetDatabase(o, writes)
    BY <1>2 DEF Fetched
  <2>2. c # Free /\ c \in Call /\ UNCHANGED database
    BY <1>0, <1>2 DEF Fetched
  <2>0. PICK n : n = [c EXCEPT !.phase = "open", !.writes = writes]
    OBVIOUS
  <2>3. n \in Call /\ n.phase = "open"
    BY <2>0, <2>2, CallOpens
  <2>4. Connected(n)' /\ Keyed(n)'
    BY <2>3 DEF Connected, Keyed
  <2>5. Advance(o, Free) \/ Advance(o, n)
    BY <2>0, <2>1, <2>2, DatabaseAsked
  <2>6. \A u \in Tabs : connection[u] = "open" => connection'[u] = "open"
    <3>1. \/ connection' = connection
          \/ /\ connection[c.tab] = "closed"
             /\ connection' = [connection EXCEPT ![c.tab] = "queued"]
      BY <2>1, <2>2, DatabaseAsked DEF requests
    <3>2. connection \in [Tabs -> {"closed", "queued", "open"}]
      BY DEF TypeInvariant
    <3> HIDE DEF c
    <3> QED BY <3>1, <3>2
  <2> QED
    BY <2>2, <2>3, <2>4, <2>5, <2>6, CallMoved DEF database, Handled
<1>3. CASE FetchRefused(o)
  <2>1. c \in Call /\ EndPrivateSession(c.tab)
    BY <1>0, <1>3 DEF FetchRefused
  <2>2. c.tab \in Tabs
    BY <2>1 DEF Call
  <2> QED
    BY <2>1, <2>2, TabStepHandled DEF TabStep
<1>4. CASE Opened(o)
  <2>1. /\ c \in Call /\ c.usable /\ connection[c.tab] = "open"
        /\ UNCHANGED <<database, requests>>
    BY <1>0, <1>4 DEF Opened, AtPhase
  <2>2. CASE c.writes
    <3>0. PICK n : n = [c EXCEPT !.phase = "key"]
      OBVIOUS
    <3>1. Advance(o, n)
      BY <1>4, <2>2, <3>0 DEF Opened
    <3>2. n \in Call /\ n.writes /\ n.phase = "key" /\ n.tab = c.tab
      BY <2>1, <2>2, <3>0 DEF Call, Phases
    <3>3. Connected(n)' /\ Keyed(n)'
      BY <2>1, <3>2 DEF Connected, Keyed, requests
    <3> QED
      BY <2>1, <3>1, <3>2, <3>3, CallMoved DEF database, requests, Handled
  <2>3. CASE ~c.writes
    <3>0. PICK n : n = [c EXCEPT !.phase = "get"]
      OBVIOUS
    <3>1. Advance(o, n)
      BY <1>4, <2>3, <3>0 DEF Opened
    <3>2. n \in Call /\ n.phase = "get" /\ n.tab = c.tab
      BY <2>1, <3>0 DEF Call, Phases
    <3>3. Connected(n)' /\ Keyed(n)'
      BY <2>1, <3>2 DEF Connected, Keyed, requests
    <3> QED
      BY <2>1, <3>1, <3>2, <3>3, CallMoved DEF database, requests, Handled
  <2> QED
    BY <2>2, <2>3
<1>5. CASE GetRecord(o)
  <2>1. PICK record \in records :
          Advance(o, [c EXCEPT !.phase = "key", !.record = record])
    BY <1>5 DEF GetRecord
  <2>2. /\ c \in Call /\ c.usable /\ Connected(c) /\ c.phase = "get"
        /\ UNCHANGED <<database, requests>>
    BY <1>0, <1>5 DEF GetRecord, AtPhase
  <2>5. record \in 0..MaxKeys
    BY <2>1 DEF TypeInvariant
  <2>0. PICK n : n = [c EXCEPT !.phase = "key", !.record = record]
    OBVIOUS
  <2>3. /\ n \in Call /\ n.phase = "key" /\ n.tab = c.tab
        /\ n.record \in records
    BY <2>0, <2>1, <2>2, <2>5 DEF Call, Phases
  <2>4. Connected(n)' /\ Keyed(n)'
    BY <2>2, <2>3 DEF Connected, Keyed, requests, database
  <2> QED
    BY <2>0, <2>1, <2>2, <2>3, <2>4, CallMoved DEF database, requests, Handled
<1>6. CASE ReadKey(o)
  <2>1. /\ c \in Call /\ c.usable /\ Connected(c) /\ Keyed(c) /\ c.phase = "key"
        /\ UNCHANGED <<database, requests>>
    BY <1>0, <1>6 DEF ReadKey, AtPhase
  <2>2. key \in 0..MaxKeys /\ generation[c.tab] \in 0..MaxGeneration
    BY <2>1 DEF TypeInvariant, Call
  <2>3. CASE key # 0
    <3>0. PICK n : n = [c EXCEPT !.phase = KeyPhase(c), !.key = key]
      OBVIOUS
    <3>1. Advance(o, n)
      BY <1>6, <2>3, <3>0 DEF ReadKey
    <3>2. /\ n \in Call /\ n.tab = c.tab /\ n.key = key /\ n.record = c.record
          /\ n.phase = KeyPhase(c) /\ n.writes = c.writes
      BY <2>1, <2>2, <3>0 DEF Call, Phases, KeyPhase
    <3>3. ~c.writes => c.record = key
      BY <2>1 DEF Keyed, Handled
    <3>4. Connected(n)' /\ Keyed(n)'
      BY <2>1, <2>3, <3>2, <3>3
      DEF Connected, Keyed, KeyPhase, requests, database
    <3> QED
      BY <2>1, <3>1, <3>2, <3>4, CallMoved DEF database, requests, Handled
  <2>4. CASE key = 0
    <3>0. PICK n : n = [c EXCEPT !.phase = "generate", !.keySession = generation[c.tab]]
      OBVIOUS
    <3>1. Advance(o, n)
      BY <1>6, <2>4, <3>0 DEF ReadKey
    <3>2. /\ n \in Call /\ n.tab = c.tab /\ n.record = c.record
          /\ n.phase = "generate" /\ n.writes = c.writes
      BY <2>1, <2>2, <3>0 DEF Call, Phases
    <3>3. Connected(n)' /\ Keyed(n)'
      BY <2>1, <3>2 DEF Connected, Keyed, requests, database
    <3> QED
      BY <2>1, <3>1, <3>2, <3>3, CallMoved DEF database, requests, Handled
  <2> QED
    BY <2>3, <2>4
<1>7. CASE StoreKey(o)
  <2>1. /\ c \in Call /\ c.usable /\ Connected(c) /\ Keyed(c)
        /\ c.phase = "generate" /\ UNCHANGED <<records, requests>>
    BY <1>0, <1>7 DEF StoreKey, AtPhase
  <2>2. key' \in 1..MaxKeys /\ (key # 0 => key' = key)
    BY <1>7 DEF StoreKey, TypeInvariant
  <2>3. records \subseteq {key'}
    BY <2>2 DEF Handled, TypeInvariant
  <2>4. ~c.writes => c.record = key'
    BY <2>1, <2>3 DEF Keyed
  <2>5. PICK k \in 0..MaxKeys : k = key'
    BY <2>2
  <2>0. PICK n : n = [c EXCEPT !.phase = KeyPhase(c), !.key = k]
    OBVIOUS
  <2>6. /\ n \in Call /\ n.tab = c.tab /\ n.key = key' /\ n.record = c.record
        /\ n.phase = KeyPhase(c)
    BY <2>0, <2>1, <2>5 DEF Call, Phases, KeyPhase
  <2>8. Advance(o, n)
    BY <1>7, <2>0, <2>5 DEF StoreKey
  <2>7. Connected(n)' /\ Keyed(n)'
    BY <2>1, <2>2, <2>4, <2>6 DEF Connected, Keyed, KeyPhase, requests
  <2> QED
    BY <2>1, <2>2, <2>3, <2>6, <2>7, <2>8, CallMoved DEF requests
<1>8. CASE StoreRecord(o)
  <2>1. /\ Advance(o, Free) /\ c.key = key
        /\ records' = records \cup {key}
        /\ UNCHANGED <<key, requests>>
    BY <1>0, <1>8 DEF StoreRecord, AtPhase, Keyed, Finish
  <2> QED
    BY <2>1, CallMoved DEF requests, Handled
<1>9. CASE Decrypt(o) \/ Fail(o)
  <2>1. Advance(o, Free) /\ UNCHANGED <<database, requests>>
    BY <1>9 DEF Decrypt, Fail, Finish
  <2> QED
    BY <2>1, CallMoved DEF requests, database, Handled
<1> QED
  BY <1>1, <1>2, <1>3, <1>4, <1>5, <1>6, <1>7, <1>8, <1>9 DEF OperationStep

LEMMA HandledInit == Init => Handled
  BY DEF Init, Handled

LEMMA HandledNext ==
    TypeInvariant /\ Handled /\ [Next]_vars => TypeInvariant' /\ Handled'
<1> SUFFICES ASSUME TypeInvariant, Handled, [Next]_vars
             PROVE  TypeInvariant' /\ Handled'
  OBVIOUS
<1>1. CASE Next
  BY <1>1, TabStepType, TabStepHandled, OperationStepType, OperationStepHandled
  DEF Next
<1>2. CASE UNCHANGED vars
  BY <1>2 DEF vars, session, database, requests, TypeInvariant, Handled,
              Connected, Keyed
<1> QED
  BY <1>1, <1>2

LEMMA InvHolds == Spec => [](TypeInvariant /\ Handled)
<1>1. Init => TypeInvariant /\ Handled
  BY TypeInit, HandledInit
<1> QED
  BY <1>1, HandledNext, PTL DEF Spec

\* Every stored record can be decrypted with the stored key, and every call that
\* decrypts one has its key.
THEOREM SnapshotsDecryptable == Spec => []Decryptable
<1>1. Handled => Decryptable
  BY DEF Handled, Keyed, Decryptable, AtPhase
<1> QED
  BY <1>1, InvHolds, PTL

-----------------------------------------------------------------------------
(* Erasure *)

\* As long as something is stored, a tab may still erase it.
SomeoneErases ==
    \/ records = {} /\ key = 0
    \/ \E t \in Tabs : status[t] # "ended" \/ cleanup[t] # "idle"

\* A tab whose cleanup has not finished, or whose session has not ended, suffices.
LEMMA Witness ==
    ASSUME NEW t \in Tabs, (status[t] # "ended" \/ cleanup[t] # "idle")'
    PROVE  SomeoneErases'
  BY DEF SomeoneErases

LEMMA TabStepErases ==
    ASSUME TypeInvariant, SomeoneErases, NEW t \in Tabs, TabStep(t)
    PROVE  SomeoneErases'
<1>1. CASE AcceptSession(t) \/ Load(t)
  <2>1. status'[t] # "ended"
    BY <1>1 DEF AcceptSession, Load, TypeInvariant
  <2> QED
    BY <2>1, Witness
<1>2. CASE EndPrivateSession(t) \/ FailedLogout(t) \/ RetryCleanup(t)
  <2>1. Cleanup(t)
    BY <1>2 DEF EndPrivateSession, FailedLogout, RetryCleanup
  <2> QED
    BY <2>1, Cleaned, Witness
<1>3. CASE OpenSucceeds(t) \/ OpenFails(t) \/ VersionChange(t)
  BY <1>3 DEF OpenSucceeds, OpenFails, VersionChange, session, database, SomeoneErases
<1>4. CASE DeletionSucceeds(t)
  BY <1>4 DEF DeletionSucceeds, SomeoneErases
<1>5. CASE DeletionFails(t) \/ DeletionBlocked(t)
  <2>1. cleanup'[t] = "failed"
    BY <1>5 DEF DeletionFails, DeletionBlocked, TypeInvariant
  <2> QED
    BY <2>1, Witness
<1> QED
  BY <1>1, <1>2, <1>3, <1>4, <1>5 DEF TabStep

LEMMA OperationStepErases ==
    ASSUME TypeInvariant, SomeoneErases, NEW o \in Operations, OperationStep(o)
    PROVE  SomeoneErases'
<1>0. operation[o] # Free => operation[o].tab \in Tabs
  BY CallFields DEF Call
<1>1. CASE UNCHANGED <<status, cleanup, key, records>>
  BY <1>1 DEF SomeoneErases
<1>2. CASE FetchRefused(o)
  BY <1>0, <1>2, TabStepErases DEF FetchRefused, TabStep
<1>3. CASE StoreKey(o)
  BY <1>0, <1>3, Witness DEF StoreKey, AtPhase, session
<1>4. CASE StoreRecord(o)
  BY <1>0, <1>4, Witness DEF StoreRecord, AtPhase, Live
<1> QED
  BY <1>1, <1>2, <1>3, <1>4
  DEF OperationStep, Begin, Fetched, Opened, GetRecord, ReadKey, Decrypt, Fail,
      session, database

\* Once every tab has ended its session and cleaned up, nothing is stored.
THEOREM SnapshotsErased == Spec => []Erased
<1>1. Init => SomeoneErases
  BY DEF Init, SomeoneErases
<1>2. TypeInvariant /\ SomeoneErases /\ [Next]_vars => SomeoneErases'
  <2> SUFFICES ASSUME TypeInvariant, SomeoneErases, [Next]_vars
               PROVE  SomeoneErases'
    OBVIOUS
  <2>1. CASE Next
    BY <2>1, TabStepErases, OperationStepErases DEF Next
  <2>2. CASE UNCHANGED vars
    BY <2>2 DEF vars, session, database, SomeoneErases
  <2> QED
    BY <2>1, <2>2
<1>3. SomeoneErases => Erased
  BY DEF SomeoneErases, Erased
<1> QED
  BY <1>1, <1>2, <1>3, InvHolds, PTL DEF Spec

-----------------------------------------------------------------------------
(* Screens *)

LEMMA TabStepShows ==
    ASSUME TypeInvariant, ShownIsLive, NEW t \in Tabs, TabStep(t)
    PROVE  ShownIsLive'
<1>1. CASE AcceptSession(t)
  BY <1>1 DEF AcceptSession, TypeInvariant, ShownIsLive
<1>2. CASE EndPrivateSession(t)
  BY <1>2 DEF EndPrivateSession, TypeInvariant, ShownIsLive
<1>3. CASE Load(t)
  BY <1>3 DEF Load, TypeInvariant, ShownIsLive
<1>4. CASE UNCHANGED <<status, generation, shown>>
  BY <1>4 DEF ShownIsLive
<1> QED
  BY <1>1, <1>2, <1>3, <1>4
  DEF TabStep, FailedLogout, RetryCleanup, OpenSucceeds, OpenFails, VersionChange,
      DeletionSucceeds, DeletionFails, DeletionBlocked, session

LEMMA OperationStepShows ==
    ASSUME TypeInvariant, ShownIsLive, NEW o \in Operations, OperationStep(o)
    PROVE  ShownIsLive'
<1> DEFINE c == operation[o]
<1>0. c # Free => c.tab \in Tabs
  BY CallFields DEF Call
<1>1. CASE UNCHANGED <<status, generation, shown>>
  BY <1>1 DEF ShownIsLive
<1>2. CASE c # Free /\ Live(c) /\ Show(c) /\ UNCHANGED <<status, generation>>
  BY <1>0, <1>2 DEF Live, Show, TypeInvariant, ShownIsLive
<1>3. CASE FetchRefused(o)
  BY <1>0, <1>3, TabStepShows DEF FetchRefused, TabStep
<1>4. CASE Fetched(o)
  BY <1>1, <1>2, <1>4 DEF Fetched, GetDatabase
<1> QED
  BY <1>1, <1>2, <1>3, <1>4
  DEF OperationStep, Begin, Opened, GetRecord, ReadKey, StoreKey, StoreRecord,
      Decrypt, Fail, Finish, AtPhase, session

\* What a screen shows was requested in the session that the screen is in.
THEOREM ScreensAreLive == Spec => []ShownIsLive
<1>1. Init => ShownIsLive
  BY DEF Init, ShownIsLive
<1>2. TypeInvariant /\ ShownIsLive /\ [Next]_vars => ShownIsLive'
  <2> SUFFICES ASSUME TypeInvariant, ShownIsLive, [Next]_vars
               PROVE  ShownIsLive'
    OBVIOUS
  <2>1. CASE Next
    BY <2>1, TabStepShows, OperationStepShows DEF Next
  <2>2. CASE UNCHANGED vars
    BY <2>2 DEF vars, session, ShownIsLive
  <2> QED
    BY <2>1, <2>2
<1> QED
  BY <1>1, <1>2, InvHolds, PTL DEF Spec

-----------------------------------------------------------------------------
(* Deletions *)

\* A call that has asked for the database holds no usable handle of a tab that
\* waits for its own deletion.
LEMMA HandleUnlocked ==
    ASSUME LockedWhileDeleting, NEW o \in Operations, operation[o] # Free,
           operation[o].phase # "fetch", operation[o].usable
    PROVE  operation[o].tab \notin deleting
  BY DEF LockedWhileDeleting, Calls

\* Closing the handles of a tab locks it, and no other tab's deletion begins.
LEMMA CloseLocks ==
    ASSUME TypeInvariant, LockedWhileDeleting, NEW t \in Tabs, Close(t),
           deleting' \subseteq deleting \cup {t}
    PROVE  LockedWhileDeleting'
<1> SUFFICES ASSUME NEW u \in deleting'
             PROVE  /\ connection'[u] = "closed"
                    /\ \A o \in Operations :
                         operation'[o] # Free /\ operation'[o].tab = u
                         /\ operation'[o].phase # "fetch" => ~operation'[o].usable
  BY DEF LockedWhileDeleting, Calls
<1>0. u \in Tabs /\ (u # t => u \in deleting)
  BY DEF TypeInvariant
<1>1. connection'[u] = "closed"
  BY <1>0 DEF Close, LockedWhileDeleting, TypeInvariant
<1>2. ASSUME NEW o \in Operations, operation'[o] # Free, operation'[o].tab = u,
             operation'[o].phase # "fetch"
      PROVE  ~operation'[o].usable
  <2>1. CASE o \in Calls(t) /\ operation[o].phase # "fetch"
    <3>1. operation'[o] = Orphan(operation[o])
      BY <2>1 DEF Close
    <3>2. operation[o] \in Call
      BY <2>1, CallFields DEF Calls
    <3> QED
      BY <3>1, <3>2 DEF Orphan, Call
  <2>2. CASE ~(o \in Calls(t) /\ operation[o].phase # "fetch")
    <3>1. operation'[o] = operation[o]
      BY <2>2 DEF Close
    <3>2. u # t
      BY <1>2, <2>2, <3>1 DEF Calls
    <3> QED
      BY <1>0, <1>2, <3>1, <3>2 DEF LockedWhileDeleting, Calls
  <2> QED
    BY <2>1, <2>2
<1> QED
  BY <1>1, <1>2

LEMMA TabStepLocks ==
    ASSUME TypeInvariant, LockedWhileDeleting, NEW t \in Tabs, TabStep(t)
    PROVE  LockedWhileDeleting'
<1>1. CASE UNCHANGED <<connection, operation>> /\ deleting' \subseteq deleting
  BY <1>1 DEF LockedWhileDeleting, Calls
<1>2. CASE EndPrivateSession(t) \/ FailedLogout(t) \/ RetryCleanup(t)
  <2>1. Cleanup(t)
    BY <1>2 DEF EndPrivateSession, FailedLogout, RetryCleanup
  <2>2. \/ UNCHANGED <<connection, operation, deleting>>
        \/ Close(t) /\ deleting' = deleting \cup {t}
    BY <2>1 DEF Cleanup, requests
  <2> QED
    BY <1>1, <2>2, CloseLocks
<1>3. CASE OpenFails(t) \/ VersionChange(t)
  BY <1>3, CloseLocks DEF OpenFails, VersionChange
<1>4. CASE Load(t)
  <2>1. \A o \in Operations : operation'[o] # Free =>
           operation'[o] = operation[o] /\ operation[o].tab # t
    BY <1>4 DEF Load, Calls
  <2>2. deleting' = deleting \ {t} /\ \A u \in deleting' : connection'[u] = connection[u]
    BY <1>4 DEF Load, TypeInvariant
  <2> QED
    BY <2>1, <2>2 DEF LockedWhileDeleting, Calls
<1>5. CASE OpenSucceeds(t)
  <2>1. t \notin deleting
    BY <1>5 DEF OpenSucceeds, LockedWhileDeleting
  <2>2. /\ UNCHANGED <<deleting, operation>>
        /\ \A u \in deleting : connection'[u] = connection[u]
    BY <1>5, <2>1 DEF OpenSucceeds, TypeInvariant
  <2> QED
    BY <2>2 DEF LockedWhileDeleting, Calls
<1> QED
  BY <1>1, <1>2, <1>3, <1>4, <1>5
  DEF TabStep, AcceptSession, DeletionSucceeds, DeletionFails, DeletionBlocked, requests

\* A step of one call that leaves it without a handle, or with one of a tab that
\* is not waiting for a deletion.
LEMMA CallLocks ==
    ASSUME TypeInvariant, LockedWhileDeleting, NEW o \in Operations,
           NEW n, Advance(o, n), UNCHANGED deleting,
           n # Free => n.phase = "fetch" \/ n.tab \notin deleting,
           \A u \in deleting : connection'[u] = connection[u]
    PROVE  LockedWhileDeleting'
<1>1. \A p \in Operations : operation'[p] = IF p = o THEN n ELSE operation[p]
  BY DEF Advance, TypeInvariant
<1> QED
  BY <1>1 DEF LockedWhileDeleting, Calls

LEMMA OperationStepLocks ==
    ASSUME TypeInvariant, LockedWhileDeleting, NEW o \in Operations, OperationStep(o)
    PROVE  LockedWhileDeleting'
<1> DEFINE c == operation[o]
<1>0. c # Free => c \in Call
  BY CallFields
<1>a. Advance(o, Free) /\ UNCHANGED requests => LockedWhileDeleting'
  BY CallLocks DEF requests
<1>b. ASSUME NEW n \in Call, Advance(o, n), n.tab = c.tab, UNCHANGED requests,
             c # Free, c.phase # "fetch", c.usable
      PROVE  LockedWhileDeleting'
  BY <1>b, CallLocks, HandleUnlocked DEF requests
<1>1. CASE \E t \in Tabs : Begin(o, t)
  <2>1. PICK t \in Tabs : Begin(o, t)
    BY <1>1
  <2>2. PICK n : n = [tab |-> t, generation |-> generation[t], phase |-> "fetch",
                      writes |-> FALSE, usable |-> TRUE, keySession |-> 0,
                      key |-> 0, record |-> 0]
    OBVIOUS
  <2> QED
    BY <2>1, <2>2, CallLocks DEF Begin, requests
<1>2. CASE Fetched(o)
  <2>1. PICK writes \in BOOLEAN : GetDatabase(o, writes)
    BY <1>2 DEF Fetched
  <2>2. c # Free /\ c \in Call
    BY <1>0, <1>2 DEF Fetched
  <2>3. PICK n : n = [c EXCEPT !.phase = "open", !.writes = writes]
    OBVIOUS
  <2>4. n.tab = c.tab
    BY <2>2, <2>3 DEF Call
  <2>5. CASE Advance(o, Free) /\ UNCHANGED requests
    BY <1>a, <2>5
  <2>6. CASE c.tab \notin deleting /\ Advance(o, n) /\ UNCHANGED deleting
             /\ \A u \in deleting : connection'[u] = connection[u]
    BY <2>4, <2>6, CallLocks
  <2>7. \/ Advance(o, Free) /\ UNCHANGED requests
        \/ /\ c.tab \notin deleting /\ Advance(o, n) /\ UNCHANGED deleting
           /\ \/ UNCHANGED connection
              \/ connection' = [connection EXCEPT ![c.tab] = "queued"]
    <3>1. \/ Advance(o, Free) /\ UNCHANGED requests
          \/ /\ c.tab \notin deleting
             /\ Advance(o, [c EXCEPT !.phase = "open", !.writes = writes])
             /\ UNCHANGED <<shown, deleting>>
             /\ \/ UNCHANGED <<connection, behind>>
                \/ connection' = [connection EXCEPT ![c.tab] = "queued"]
      BY <2>1, <2>2, DatabaseAsked
    <3> QED
      BY <2>3, <3>1
  <2>8. connection \in [Tabs -> {"closed", "queued", "open"}] /\ deleting \subseteq Tabs
    BY DEF TypeInvariant
  <2> QED
    BY <2>5, <2>6, <2>7, <2>8
<1>3. CASE FetchRefused(o)
  <2>1. c.tab \in Tabs /\ EndPrivateSession(c.tab)
    BY <1>0, <1>3 DEF FetchRefused, Call
  <2> QED
    BY <2>1, TabStepLocks DEF TabStep
<1>4. CASE Opened(o)
  <2>1. PICK n : n = [c EXCEPT !.phase = IF c.writes THEN "key" ELSE "get"]
    OBVIOUS
  <2>2. n \in Call /\ n.tab = c.tab
    BY <1>0, <1>4, <2>1 DEF Opened, AtPhase, Call, Phases
  <2>3. /\ Advance(o, n) /\ UNCHANGED requests
        /\ c # Free /\ c.phase # "fetch" /\ c.usable
    BY <1>4, <2>1 DEF Opened, AtPhase
  <2> QED
    BY <1>b, <2>2, <2>3
<1>5. CASE GetRecord(o)
  <2>1. PICK record \in records :
          Advance(o, [c EXCEPT !.phase = "key", !.record = record])
    BY <1>5 DEF GetRecord
  <2>2. record \in 0..MaxKeys
    BY <2>1, CacheAssumption DEF TypeInvariant
  <2>3. PICK n : n = [c EXCEPT !.phase = "key", !.record = record]
    OBVIOUS
  <2>4. n \in Call /\ n.tab = c.tab
    BY <1>0, <1>5, <2>2, <2>3 DEF GetRecord, AtPhase, Call, Phases
  <2> QED
    BY <1>5, <1>b, <2>1, <2>3, <2>4 DEF GetRecord, AtPhase
<1>6. ASSUME AtPhase(o, "key") \/ AtPhase(o, "generate"), c.usable, UNCHANGED requests,
             NEW k \in 0..MaxKeys, Advance(o, [c EXCEPT !.phase = KeyPhase(c), !.key = k])
      PROVE  LockedWhileDeleting'
  <2>1. PICK n : n = [c EXCEPT !.phase = KeyPhase(c), !.key = k]
    OBVIOUS
  <2>2. n \in Call /\ n.tab = c.tab
    BY <1>0, <1>6, <2>1 DEF AtPhase, Call, Phases, KeyPhase
  <2> QED
    BY <1>6, <1>b, <2>1, <2>2 DEF AtPhase
<1>7. CASE ReadKey(o)
  <2>1. key \in 0..MaxKeys
    BY CacheAssumption DEF TypeInvariant
  <2>2. CASE key # 0
    <3>1. Advance(o, [c EXCEPT !.phase = KeyPhase(c), !.key = key])
      BY <1>7, <2>2 DEF ReadKey
    <3>2. AtPhase(o, "key") /\ c.usable /\ UNCHANGED requests
      BY <1>7 DEF ReadKey
    <3> QED
      BY <1>6, <2>1, <3>1, <3>2
  <2>3. CASE key = 0
    <3>1. PICK n : n = [c EXCEPT !.phase = "generate", !.keySession = generation[c.tab]]
      OBVIOUS
    <3>2. generation[c.tab] \in 0..MaxGeneration
      BY <1>0, <1>7 DEF ReadKey, AtPhase, Call, TypeInvariant
    <3>3. n \in Call /\ n.tab = c.tab
      BY <1>0, <1>7, <3>1, <3>2 DEF ReadKey, AtPhase, Call, Phases
    <3> QED
      BY <1>7, <1>b, <2>3, <3>1, <3>3 DEF ReadKey, AtPhase
  <2> QED
    BY <2>2, <2>3
<1>8. CASE StoreKey(o)
  <2>1. key' \in 0..MaxKeys
    BY <1>8, CacheAssumption DEF StoreKey, TypeInvariant
  <2>2. PICK k \in 0..MaxKeys : k = key'
    BY <2>1
  <2>3. /\ Advance(o, [c EXCEPT !.phase = KeyPhase(c), !.key = k])
        /\ AtPhase(o, "generate") /\ c.usable /\ UNCHANGED requests
    BY <1>8, <2>2 DEF StoreKey
  <2> QED
    BY <1>6, <2>3
<1>9. CASE StoreRecord(o) \/ Decrypt(o) \/ Fail(o)
  BY <1>9, <1>a DEF StoreRecord, Decrypt, Fail, Finish
<1> QED
  BY <1>1, <1>2, <1>3, <1>4, <1>5, <1>7, <1>8, <1>9 DEF OperationStep

\* A tab that waits for the deletion of its database neither holds nor opens it, for
\* any number of tabs and calls.
THEOREM DeletionLocks == Spec => []LockedWhileDeleting
<1>1. Init => LockedWhileDeleting
  BY DEF Init, LockedWhileDeleting
<1>2. TypeInvariant /\ LockedWhileDeleting /\ [Next]_vars => LockedWhileDeleting'
  <2> SUFFICES ASSUME TypeInvariant, LockedWhileDeleting, [Next]_vars
               PROVE  LockedWhileDeleting'
    OBVIOUS
  <2>1. CASE Next
    BY <2>1, TabStepLocks, OperationStepLocks DEF Next
  <2>2. CASE UNCHANGED vars
    BY <2>2 DEF vars, requests, LockedWhileDeleting, Calls
  <2> QED
    BY <2>1, <2>2
<1> QED
  BY <1>1, <1>2, InvHolds, PTL DEF Spec
-----------------------------------------------------------------------------
(* Queries *)

QueryPhases == {"idle", "sent", "read"}
QueryRow(D) == [data : D, phase : QueryPhases, got : D, invalid : BOOLEAN,
                failed : BOOLEAN, cached : BOOLEAN, overtaken : BOOLEAN]

\* A query that shows old data is fetched, or says so; the mark alone is not enough
\* for one that is watched: it is fetched again.
Excused(q, watched) ==
    \/ Fetching(q) \/ q.failed = TRUE \/ q.overtaken = TRUE
    \/ q.invalid = TRUE /\ ~watched

\* What is kept is not from before the change own, or this can be told; and what a
\* fetch brings is not, unless it was overtaken.
Kept(q, own, watched) == Has(q) /\ q.data.at < own => Excused(q, watched)
Brought(q, own) == q.phase = "read" /\ q.got.at < own => q.overtaken = TRUE
Caught(q, own, watched) == Kept(q, own, watched) /\ Brought(q, own)

LEMMA QueryTyped ==
    ASSUME NEW D, NoData \in D, NEW q, q \in QueryRow(D)
    PROVE  /\ Query \in QueryRow(D)
           /\ Fetch(q) \in QueryRow(D) /\ Failed(q) \in QueryRow(D)
           /\ \A stale : Observed(q, stale) \in QueryRow(D)
           /\ \A active : Invalidated(q, active) \in QueryRow(D)
           /\ \A d \in D : /\ ReadAt(q, d) \in QueryRow(D) /\ Received(q, d) \in QueryRow(D)
                           /\ Written(q, d) \in QueryRow(D)
<1>1. Query \in QueryRow(D)
  BY DEF Query, QueryRow, QueryPhases
<1>2. ASSUME NEW p, p \in QueryRow(D) PROVE Fetch(p) \in QueryRow(D)
  BY <1>2 DEF Fetch, QueryRow, QueryPhases
<1>3. Failed(q) \in QueryRow(D)
  BY DEF Failed, QueryRow, QueryPhases
<1>4. ASSUME NEW stale PROVE Observed(q, stale) \in QueryRow(D)
  BY <1>2 DEF Observed
<1>5. ASSUME NEW p, p \in QueryRow(D) PROVE Refetched(p) \in QueryRow(D)
  <2>1. [p EXCEPT !.phase = "idle"] \in QueryRow(D)
    BY <1>5 DEF QueryRow, QueryPhases
  <2> QED BY <1>2, <1>5, <2>1 DEF Refetched
<1>6. ASSUME NEW active PROVE Invalidated(q, active) \in QueryRow(D)
  <2> DEFINE marked == [q EXCEPT !.invalid = TRUE]
             late == [marked EXCEPT !.overtaken = TRUE]
  <2>1. marked \in QueryRow(D)
    BY DEF QueryRow
  <2>2. late \in QueryRow(D)
    BY <2>1 DEF QueryRow
  <2>3. Invalidated(q, active) \in {late, Refetched(marked), marked}
    BY DEF Invalidated
  <2> HIDE DEF marked, late
  <2>4. Refetched(marked) \in QueryRow(D)
    BY <1>5, <2>1
  <2> QED BY <2>1, <2>2, <2>3, <2>4
<1>7. ASSUME NEW d \in D
      PROVE  /\ ReadAt(q, d) \in QueryRow(D) /\ Received(q, d) \in QueryRow(D)
             /\ Written(q, d) \in QueryRow(D)
  <2>1. ReadAt(q, d) \in QueryRow(D)
    BY DEF ReadAt, QueryRow, QueryPhases
  <2>2. Received(q, d) \in QueryRow(D)
    BY DEF Received, QueryRow, QueryPhases
  <2>3. Written(q, d) \in QueryRow(D)
    <3> DEFINE busy == Fetching(q)
    <3>1. busy \in BOOLEAN /\ Written(q, d) = [q EXCEPT !.data = d, !.invalid = FALSE,
                                         !.failed = FALSE, !.overtaken = busy]
      BY DEF Written, Fetching
    <3> HIDE DEF busy
    <3> QED BY <3>1 DEF QueryRow
  <2> QED BY <2>1, <2>2, <2>3
<1> QED BY <1>1, <1>2, <1>3, <1>4, <1>6, <1>7

\* What each operation does to the parts that the proofs read.
LEMMA QueryParts ==
    ASSUME NEW D, NoData \in D, NEW q, q \in QueryRow(D)
    PROVE  /\ Fetch(q).data = q.data /\ Failed(q).data = q.data
           /\ Fetching(Fetch(q))
           /\ Fetching(q) => Fetch(q) = q
           /\ ~Fetching(q) => Fetch(q).phase = "sent"
           /\ Failed(q).phase = "idle" /\ Failed(q).failed = TRUE
           /\ \A stale : Observed(q, stale).data = q.data
           /\ \A d : /\ ReadAt(q, d).data = q.data /\ ReadAt(q, d).phase = "read"
                     /\ ReadAt(q, d).got = d
                     /\ Received(q, d).data = d /\ Received(q, d).phase = "idle"
                     /\ Received(q, d).overtaken = q.overtaken
                     /\ Written(q, d).data = d
<1>1. ASSUME NEW p, p \in QueryRow(D)
      PROVE  /\ Fetch(p).data = p.data /\ Fetching(Fetch(p))
             /\ Fetching(p) => Fetch(p) = p
             /\ ~Fetching(p) => Fetch(p).phase = "sent"
  BY <1>1 DEF Fetch, Fetching, QueryRow
<1>2. Failed(q).data = q.data /\ Failed(q).phase = "idle" /\ Failed(q).failed = TRUE
  BY DEF Failed, QueryRow
<1>3. ASSUME NEW stale PROVE Observed(q, stale).data = q.data
  BY <1>1 DEF Observed
<1>4. ASSUME NEW d
      PROVE  /\ ReadAt(q, d).data = q.data /\ ReadAt(q, d).phase = "read"
             /\ ReadAt(q, d).got = d
             /\ Received(q, d).data = d /\ Received(q, d).phase = "idle"
             /\ Received(q, d).overtaken = q.overtaken
             /\ Written(q, d).data = d
  BY DEF ReadAt, Received, Written, QueryRow
<1> QED BY <1>1, <1>2, <1>3, <1>4

LEMMA InvalidatedData ==
    ASSUME NEW D, NEW q, q \in QueryRow(D), NEW active
    PROVE  Invalidated(q, active).data = q.data
<1>1. ASSUME NEW p, p \in QueryRow(D) PROVE Refetched(p).data = p.data
  <2>1. [p EXCEPT !.phase = "idle"] \in QueryRow(D)
        /\ [p EXCEPT !.phase = "idle"].data = p.data
    BY <1>1 DEF QueryRow, QueryPhases
  <2> QED BY <1>1, <2>1 DEF Refetched, Fetch, Fetching, QueryRow
<1> DEFINE marked == [q EXCEPT !.invalid = TRUE]
           late == [marked EXCEPT !.overtaken = TRUE]
<1>2. marked \in QueryRow(D) /\ marked.data = q.data
  BY DEF QueryRow
<1>3. late.data = q.data
  BY <1>2 DEF QueryRow
<1>4. Invalidated(q, active) \in {late, Refetched(marked), marked}
  BY DEF Invalidated
<1> HIDE DEF marked, late
<1>5. Refetched(marked).data = q.data
  BY <1>1, <1>2
<1> QED BY <1>2, <1>3, <1>4, <1>5

\* A query stays caught up through whatever is done to it.
LEMMA CaughtLess ==
    ASSUME NEW q, NEW own, NEW s, NEW t, t => s, Caught(q, own, s) PROVE Caught(q, own, t)
BY DEF Caught, Kept, Excused

LEMMA CaughtFetched ==
    ASSUME NEW D, NoData \in D, NEW q, q \in QueryRow(D), NEW own, NEW s,
           Fetching(q) => Caught(q, own, s)
    PROVE  \A t : Caught(Fetch(q), own, t)
<1> SUFFICES ASSUME NEW t PROVE Caught(Fetch(q), own, t)
  OBVIOUS
<1>1. Kept(Fetch(q), own, t)
  <2>1. Fetching(Fetch(q))
    BY QueryParts, Zenon
  <2> QED BY <2>1, Zenon DEF Kept, Excused
<1>2. Brought(Fetch(q), own)
  <2>1. CASE Fetching(q)
    <3>1. Fetch(q) = q
      BY <2>1 DEF Fetch
    <3> QED BY <2>1, <3>1 DEF Caught
  <2>2. CASE ~Fetching(q)
    <3>1. Fetch(q).phase = "sent"
      BY <2>2 DEF Fetch, QueryRow
    <3> QED BY <3>1 DEF Brought
  <2> QED BY <2>1, <2>2
<1> QED BY <1>1, <1>2 DEF Caught

LEMMA CaughtObserved ==
    ASSUME NEW D, NoData \in D, NEW q, q \in QueryRow(D), NEW own,
           Caught(q, own, FALSE), NEW stale
    PROVE  \A t : Caught(Observed(q, stale), own, t)
<1>1. CASE ~Has(q) \/ q.invalid \/ stale
  <2>1. Observed(q, stale) = Fetch(q)
    BY <1>1 DEF Observed
  <2>2. \A t : Caught(Fetch(q), own, t)
    BY CaughtFetched
  <2> QED BY <2>1, <2>2
<1>2. CASE ~(~Has(q) \/ q.invalid \/ stale)
  <2>1. Observed(q, stale) = q
    BY <1>2 DEF Observed
  <2>2. q.invalid = FALSE
    BY <1>2 DEF QueryRow
  <2>3. \A t : Excused(q, FALSE) => Excused(q, t)
    BY <2>2 DEF Excused
  <2>4. \A t : Caught(q, own, t)
    BY <2>3 DEF Caught, Kept
  <2> QED BY <2>1, <2>4
<1> QED BY <1>1, <1>2

LEMMA CaughtFailed ==
    ASSUME NEW D, NoData \in D, NEW q, q \in QueryRow(D), NEW own
    PROVE  \A t : Caught(Failed(q), own, t)
<1>1. Failed(q).phase = "idle" /\ Failed(q).failed = TRUE
  BY DEF Failed, QueryRow
<1> QED BY <1>1 DEF Caught, Kept, Brought, Excused

\* A server's answer is of now.
LEMMA CaughtRead ==
    ASSUME NEW D, NoData \in D, NEW q, q \in QueryRow(D), NEW own, NEW d,
           ~(d.at < own)
    PROVE  \A t : Caught(ReadAt(q, d), own, t)
<1>1. ReadAt(q, d).phase = "read" /\ ReadAt(q, d).got = d
  BY DEF ReadAt, QueryRow
<1>2. Fetching(ReadAt(q, d))
  BY <1>1 DEF Fetching
<1>3. Brought(ReadAt(q, d), own)
  BY <1>1 DEF Brought
<1> HIDE DEF Brought
<1> QED BY <1>2, <1>3 DEF Caught, Kept, Excused

LEMMA CaughtReceived ==
    ASSUME NEW D, NoData \in D, NEW q, q \in QueryRow(D), NEW own, NEW s,
           q.phase = "read", Caught(q, own, s)
    PROVE  \A t : Caught(Received(q, q.got), own, t)
<1> DEFINE p == Received(q, q.got)
<1>1. p.data = q.got /\ p.phase = "idle" /\ p.overtaken = q.overtaken
  BY DEF Received, QueryRow
<1>2. q.got.at < own => q.overtaken = TRUE
  BY DEF Caught, Brought
<1> HIDE DEF p
<1>3. \A t : Kept(p, own, t)
  BY <1>1, <1>2 DEF Kept, Excused
<1>4. Brought(p, own)
  BY <1>1 DEF Brought
<1> QED BY <1>3, <1>4 DEF Caught, p

LEMMA CaughtInvalidated ==
    ASSUME NEW D, NoData \in D, NEW q, q \in QueryRow(D), NEW own, NEW active \in BOOLEAN
    PROVE  Caught(Invalidated(q, active), own, active)
<1> DEFINE marked == [q EXCEPT !.invalid = TRUE]
           late == [marked EXCEPT !.overtaken = TRUE]
           idle == [marked EXCEPT !.phase = "idle"]
<1>1. /\ marked \in QueryRow(D) /\ marked.data = q.data /\ marked.phase = q.phase
      /\ marked.invalid = TRUE
  BY DEF QueryRow
<1>2. late.overtaken = TRUE
  BY <1>1 DEF QueryRow
<1>3. idle \in QueryRow(D) /\ idle.phase = "idle"
  BY <1>1 DEF QueryRow, QueryPhases
<1>4. Has(marked) <=> Has(q)
  BY <1>1 DEF Has
<1> HIDE DEF marked, late, idle
<1>5. CASE Fetching(q) /\ ~(active /\ Has(q))
  <2>1. Invalidated(q, active) = late
    BY <1>5 DEF Invalidated, late, marked
  <2> QED BY <1>2, <2>1 DEF Caught, Kept, Brought, Excused
<1>6. CASE ~(Fetching(q) /\ ~(active /\ Has(q))) /\ active
  <2> DEFINE base == IF Has(marked) THEN idle ELSE marked
  <2>1. Invalidated(q, active) = Fetch(base)
    BY <1>6 DEF Invalidated, Refetched, idle, marked
  <2>2. base \in QueryRow(D) /\ ~Fetching(base)
    BY <1>1, <1>3, <1>4, <1>6 DEF Fetching
  <2> HIDE DEF base
  <2>3. \A t : Caught(Fetch(base), own, t)
    BY <2>2, CaughtFetched
  <2> QED BY <2>1, <2>3
<1>7. CASE ~(Fetching(q) /\ ~(active /\ Has(q))) /\ ~active
  <2>1. Invalidated(q, active) = marked /\ q.phase = "idle"
    BY <1>7 DEF Invalidated, Fetching, marked
  <2> QED BY <1>1, <1>7, <2>1 DEF Caught, Kept, Brought, Excused
<1> QED BY <1>5, <1>6, <1>7
-----------------------------------------------------------------------------
(* The dialogs of the categories page *)

CategoryRow == [id : Int, edit : Nat]
ListData == {NoData} \cup [at : Nat, rows : SUBSET CategoryRow]
DialogKinds == {"create", "edit", "delete", "merge"}
DialogRow == [kind : DialogKinds \cup {"none"}, id : Int, target : Int]
MutationRow ==
    [phase : {"idle", "sent", "stored", "refreshing", "refreshed", "success", "error"},
     kind : DialogKinds \cup {"none"}, id : Int, target : Int, made : Nat]

\* The list is of a change that was made, does not go back, and has the change that a
\* dialog closed upon.
ListSound(q, change, closed) ==
    /\ q \in QueryRow(ListData)
    /\ q.data.at <= change /\ q.got.at <= change
    /\ q.phase = "read" => q.got # NoData
    /\ q.phase = "read" => q.data.at <= q.got.at
    /\ closed = 0 \/ closed <= q.data.at

\* The refetch that a dialog waits for is under way; when it brought the list, it
\* brought the dialog's change.
MutationSound(m, q, change) ==
    /\ m \in MutationRow
    /\ m.made <= change
    /\ m.phase = "refreshing" => Fetching(q)
    /\ m.phase = "refreshing" /\ q.phase = "read"
          => q.overtaken = TRUE \/ m.made <= q.got.at
    /\ m.phase = "refreshed" => m.made = 0 \/ m.made <= q.data.at

\* The dialog of a request under way is the one that sent it.
Waiting(m) == m.phase \notin {"idle", "error", "success"}
DialogSound(d, m) ==
    /\ d \in DialogRow
    /\ d.kind = "none" => d = NoDialog
    /\ Waiting(m) => m.kind # "none" /\ d.kind = m.kind /\ d.id = m.id

DialogsSound ==
    /\ rows \subseteq CategoryRow /\ edits \in 0..MaxEdits
    /\ shownEdit \in Nat
    /\ ListSound(listed, edits, shownEdit)
    /\ MutationSound(mutation, listed, edits)
    /\ DialogSound(dialog, mutation)

LEMMA ListDatum ==
    /\ NoData \in ListData /\ NoData.at = -1
    /\ \A d \in ListData : d.at \in Int
    /\ \A d \in ListData : d # NoData => d.at \in Nat
    /\ \A d \in ListData : d # NoData => d.rows \in SUBSET CategoryRow
    /\ \A n \in Nat, r \in SUBSET CategoryRow :
          [at |-> n, rows |-> r] \in ListData
    /\ \A r : \A n \in Nat : [at |-> n, rows |-> r] # NoData
<1>1. \A r : \A n \in Nat : [at |-> n, rows |-> r] # NoData
  <2> SUFFICES ASSUME NEW n, n \in Nat, NEW r, [at |-> n, rows |-> r] = NoData PROVE FALSE
    OBVIOUS
  <2>1. [at |-> n, rows |-> r].at = NoData.at
    OBVIOUS
  <2> QED BY <2>1 DEF NoData
<1> QED BY <1>1 DEF ListData, NoData

LEMMA ListSoundKept ==
    ASSUME NEW q, NEW change, change \in Nat, NEW closed, closed \in Nat,
           ListSound(q, change, closed)
    PROVE  /\ ListSound(Fetch(q), change, closed)
           /\ ListSound(Failed(q), change, closed)
           /\ ListSound(Invalidated(q, TRUE), change, closed)
           /\ \A r \in SUBSET CategoryRow :
                 ListSound(ReadAt(q, [at |-> change, rows |-> r]), change, closed)
           /\ q.phase = "read" => ListSound(Received(q, q.got), change, closed)
<1> DEFINE D == ListData
<1>1. /\ NoData \in D /\ NoData.at = -1 /\ q \in QueryRow(D)
      /\ q.data \in D /\ q.got \in D /\ q.data.at \in Int /\ q.got.at \in Int
      /\ q.phase \in QueryPhases
  BY ListDatum DEF ListSound, QueryRow
<1>2. /\ Fetch(q) \in QueryRow(D) /\ Failed(q) \in QueryRow(D)
      /\ Invalidated(q, TRUE) \in QueryRow(D)
      /\ \A d \in D : ReadAt(q, d) \in QueryRow(D) /\ Received(q, d) \in QueryRow(D)
  BY <1>1, QueryTyped
<1> HIDE DEF D
<1>3. ASSUME NEW p, p \in QueryRow(D), p.data = q.data, p.got = q.got \/ p.got = NoData,
             p.phase # "read" \/ (p.phase = q.phase /\ p.got = q.got)
      PROVE  ListSound(p, change, closed)
  BY <1>1, <1>3 DEF ListSound, D
<1>4. ListSound(Fetch(q), change, closed)
  <2>1. CASE Fetching(q)
    BY <2>1 DEF Fetch
  <2>2. CASE ~Fetching(q)
    <3>1. /\ Fetch(q).data = q.data /\ Fetch(q).got = NoData /\ Fetch(q).phase = "sent"
      BY <1>1, <2>2 DEF Fetch, QueryRow
    <3> QED BY <1>2, <1>3, <3>1
  <2> QED BY <2>1, <2>2
<1>5. ListSound(Failed(q), change, closed)
  <2>1. Failed(q).data = q.data /\ Failed(q).got = NoData /\ Failed(q).phase = "idle"
    BY <1>1 DEF Failed, QueryRow
  <2> QED BY <1>2, <1>3, <2>1
<1>6. ListSound(Invalidated(q, TRUE), change, closed)
  <2> DEFINE p == Invalidated(q, TRUE)
  <2>1. CASE Fetching(q) /\ ~Has(q)
    <3>1. p.data = q.data /\ p.got = q.got /\ p.phase = q.phase
      BY <1>1, <2>1 DEF Invalidated, QueryRow
    <3> QED BY <1>2, <1>3, <3>1
  <2>2. CASE ~(Fetching(q) /\ ~Has(q))
    <3>1. p.data = q.data /\ p.got = NoData /\ p.phase = "sent"
      BY <1>1, <2>2 DEF Invalidated, Refetched, Fetch, Fetching, Has, QueryRow
    <3> QED BY <1>2, <1>3, <3>1
  <2> QED BY <2>1, <2>2
<1>7. ASSUME NEW r, r \in SUBSET CategoryRow
      PROVE  ListSound(ReadAt(q, [at |-> change, rows |-> r]), change, closed)
  <2> DEFINE d == [at |-> change, rows |-> r]
             p == ReadAt(q, d)
  <2>1. d \in D /\ d # NoData /\ d.at = change
    BY <1>7, ListDatum DEF D
  <2> HIDE DEF d
  <2>2. p.data = q.data /\ p.got = d /\ p.phase = "read"
    BY <1>1 DEF ReadAt, QueryRow
  <2>3. p \in QueryRow(D)
    BY <1>2, <2>1
  <2>4. q.data.at <= change /\ (closed = 0 \/ closed <= q.data.at)
    BY DEF ListSound
  <2> HIDE DEF p
  <2>5. ListSound(p, change, closed)
    BY <1>1, <2>1, <2>2, <2>3, <2>4 DEF ListSound, D
  <2> QED BY <2>5 DEF p, d
<1>8. ASSUME q.phase = "read" PROVE ListSound(Received(q, q.got), change, closed)
  <2> DEFINE p == Received(q, q.got)
  <2>1. p.data = q.got /\ p.got = NoData /\ p.phase = "idle"
    BY <1>1 DEF Received, QueryRow
  <2>2. p \in QueryRow(D)
    BY <1>1, <1>2
  <2>3. /\ q.data.at <= q.got.at /\ q.got.at <= change /\ (closed = 0 \/ closed <= q.data.at)
    BY <1>8 DEF ListSound
  <2> HIDE DEF p
  <2>4. ListSound(p, change, closed)
    BY <1>1, <2>1, <2>2, <2>3 DEF ListSound, D
  <2> QED BY <2>4 DEF p
<1> QED BY <1>4, <1>5, <1>6, <1>7, <1>8

LEMMA DialogsSoundInit == DialogsInit => DialogsSound
<1> SUFFICES ASSUME DialogsInit PROVE DialogsSound
  OBVIOUS
<1>1. /\ rows = {[id |-> -1, edit |-> 0], [id |-> -2, edit |-> 0]} /\ edits = 0
      /\ listed = Fetch(Query) /\ dialog = NoDialog /\ mutation = NoMutation
      /\ shownEdit = 0
  BY DEF DialogsInit
<1>2. rows \subseteq CategoryRow /\ edits \in 0..MaxEdits
  BY <1>1, DialogsAssumption DEF CategoryRow
<1>3. ListSound(Query, 0, 0)
  <2>1. Query \in QueryRow(ListData)
    BY ListDatum DEF Query, QueryRow, QueryPhases
  <2>2. Query.data = NoData /\ Query.got = NoData /\ Query.phase = "idle"
    BY DEF Query
  <2> QED BY <2>1, <2>2, ListDatum DEF ListSound
<1>4. ListSound(listed, edits, shownEdit)
  BY <1>1, <1>3, ListSoundKept
<1>5. MutationSound(mutation, listed, edits) /\ DialogSound(dialog, mutation)
  BY <1>1 DEF NoMutation, NoDialog, MutationSound, MutationRow, DialogSound, DialogRow, Waiting
<1> QED BY <1>1, <1>2, <1>4, <1>5 DEF DialogsSound

\* Rows stay rows.
LEMMA RowsStay ==
    ASSUME rows \subseteq CategoryRow, edits \in Nat, NEW id, id \in Int,
           CreateRow \/ UpdateRow(id) \/ DeleteRow(id)
    PROVE  rows' \subseteq CategoryRow
<1>1. /\ [id |-> edits + 1, edit |-> edits + 1] \in CategoryRow
      /\ [id |-> id, edit |-> edits + 1] \in CategoryRow
  BY DEF CategoryRow
<1> QED BY <1>1 DEF CreateRow, UpdateRow, DeleteRow

\* What the screens know of the changes holds on when there is one more.
LEMMA LaterChange ==
    ASSUME NEW q, NEW m, NEW closed, NEW change, change \in Nat,
           ListSound(q, change, closed), MutationSound(m, q, change)
    PROVE  ListSound(q, change + 1, closed) /\ MutationSound(m, q, change + 1)
<1>1. /\ q.data.at \in Int /\ q.got.at \in Int
  BY ListDatum DEF ListSound, QueryRow
<1>2. m.made \in Nat
  BY DEF MutationSound, MutationRow
<1>3. ListSound(q, change + 1, closed)
  BY <1>1 DEF ListSound
<1>4. MutationSound(m, q, change + 1)
  BY <1>2 DEF MutationSound
<1> QED BY <1>3, <1>4

\* A list that is neither answered nor lost leaves the mutation waiting.
LEMMA DialogsSoundStep == DialogsSound /\ [DialogsNext]_dialogsVars => DialogsSound'
<1> SUFFICES ASSUME DialogsSound, [DialogsNext]_dialogsVars PROVE DialogsSound'
  OBVIOUS
<1>1. /\ rows \subseteq CategoryRow /\ edits \in 0..MaxEdits /\ edits \in Nat
      /\ shownEdit \in Nat /\ ListSound(listed, edits, shownEdit)
      /\ MutationSound(mutation, listed, edits) /\ DialogSound(dialog, mutation)
      /\ mutation \in MutationRow /\ dialog \in DialogRow
  BY DialogsAssumption DEF DialogsSound, MutationSound, DialogSound
<1>2. /\ listed \in QueryRow(ListData) /\ listed.phase \in QueryPhases
      /\ listed.data \in ListData /\ listed.got \in ListData
      /\ listed.data.at \in Int /\ listed.got.at \in Int
  BY <1>1, ListDatum DEF ListSound, QueryRow
<1>3. /\ mutation.made \in Nat /\ mutation.made <= edits /\ mutation.id \in Int
      /\ mutation.target \in Int /\ mutation.kind \in DialogKinds \cup {"none"}
  BY <1>1 DEF MutationSound, MutationRow
<1>4. NoMutation \in MutationRow /\ NoMutation.phase = "idle" /\ NoMutation.made = 0
  BY DEF NoMutation, MutationRow
<1>5. SubmitPending <=> Waiting(mutation)
  BY DEF SubmitPending, Waiting
<1>6. \A id \in ListedIds : id \in Int
  <2> SUFFICES ASSUME NEW id \in ListedIds PROVE id \in Int
    OBVIOUS
  <2>1. Has(listed) /\ id \in {r.id : r \in listed.data.rows}
    BY DEF ListedIds
  <2>2. listed.data.rows \in SUBSET CategoryRow
    BY <2>1, <1>2, ListDatum DEF Has
  <2> QED BY <2>1, <2>2 DEF CategoryRow
<1>7. CASE OpenDialog
  <2>1. dialog' \in DialogRow /\ dialog'.kind # "none"
    <3>1. CASE dialog' = [NoDialog EXCEPT !.kind = "create"]
      BY <3>1 DEF NoDialog, DialogRow, DialogKinds
    <3>2. CASE ~(dialog' = [NoDialog EXCEPT !.kind = "create"])
      <4>1. PICK id \in ListedIds : \E kind \in {"edit", "delete", "merge"} :
                   dialog' = [NoDialog EXCEPT !.kind = kind, !.id = id]
        BY <1>7, <3>2 DEF OpenDialog
      <4>2. PICK kind \in {"edit", "delete", "merge"} :
                   dialog' = [NoDialog EXCEPT !.kind = kind, !.id = id]
        BY <4>1
      <4>3. id \in Int
        BY <1>6
      <4>4. dialog' = [kind |-> kind, id |-> id, target |-> 0]
        BY <4>2 DEF NoDialog
      <4> QED BY <4>3, <4>4 DEF DialogRow, DialogKinds
    <3> QED BY <3>1, <3>2
  <2>2. mutation' = NoMutation /\ UNCHANGED <<rows, edits, listed, shownEdit>>
    BY <1>7 DEF OpenDialog
  <2>3. MutationSound(NoMutation, listed, edits) /\ DialogSound(dialog', NoMutation)
    BY <2>1, <1>4, <1>1 DEF MutationSound, DialogSound, Waiting
  <2> QED BY <1>1, <2>2, <2>3 DEF DialogsSound
<1>8. CASE ChooseTarget
  <2>1. PICK target \in (ListedIds \ {dialog.id}) \cup {0} :
                dialog' = [dialog EXCEPT !.target = target]
    BY <1>8 DEF ChooseTarget
  <2>2. target \in Int
    BY <1>6
  <2>3. /\ dialog' \in DialogRow /\ dialog'.kind = dialog.kind /\ dialog'.id = dialog.id
    BY <1>1, <2>1, <2>2 DEF DialogRow
  <2>4. DialogSound(dialog', mutation)
    BY <1>1, <1>8, <2>3 DEF DialogSound, ChooseTarget
  <2>5. UNCHANGED <<rows, edits, listed, mutation, shownEdit>>
    BY <1>8 DEF ChooseTarget
  <2> QED BY <1>1, <2>4, <2>5 DEF DialogsSound
<1>9. CASE CloseDialog
  <2>1. /\ dialog' = NoDialog /\ ~Waiting(mutation)
        /\ UNCHANGED <<rows, edits, listed, mutation, shownEdit>>
    BY <1>9, <1>5 DEF CloseDialog
  <2>2. DialogSound(dialog', mutation)
    BY <2>1 DEF DialogSound, DialogRow, NoDialog
  <2> QED BY <1>1, <2>1, <2>2 DEF DialogsSound
<1>10. CASE SubmitDialog
  <2>1. /\ dialog # NoDialog
        /\ mutation' = [phase |-> "sent", kind |-> dialog.kind, id |-> dialog.id,
                        target |-> dialog.target, made |-> 0]
        /\ dialog.kind = "merge" => dialog.target # 0
        /\ UNCHANGED <<rows, edits, listed, dialog, shownEdit>>
    BY <1>10 DEF SubmitDialog
  <2>2. mutation' \in MutationRow
    BY <1>1, <2>1 DEF MutationRow, DialogRow
  <2>3. mutation'.phase = "sent" /\ mutation'.made = 0
    BY <2>1
  <2>4. MutationSound(mutation', listed, edits)
    BY <1>1, <2>2, <2>3 DEF MutationSound
  <2>5. DialogSound(dialog, mutation')
    <3>1. dialog.kind # "none" /\ (dialog.kind = "none" => dialog = NoDialog)
      BY <1>1, <2>1 DEF DialogSound
    <3>2. mutation'.kind = dialog.kind /\ mutation'.id = dialog.id
      BY <2>1
    <3> QED BY <1>1, <3>1, <3>2 DEF DialogSound
  <2> QED BY <1>1, <2>1, <2>4, <2>5 DEF DialogsSound
<1>11. CASE StoreMutation
  <2>1. /\ mutation.phase = "sent" /\ edits' = edits + 1 /\ edits < MaxEdits
        /\ mutation' = [mutation EXCEPT !.phase = "stored", !.made = edits']
        /\ UNCHANGED <<listed, dialog, shownEdit>>
    BY <1>11 DEF StoreMutation
  <2>2. rows' \subseteq CategoryRow
    <3>1. CreateRow \/ UpdateRow(mutation.id) \/ DeleteRow(mutation.id)
      BY <1>11 DEF StoreMutation, MergeRow
    <3> QED BY <1>1, <1>3, <3>1, RowsStay
  <2>3. edits' \in 0..MaxEdits
    BY <1>1, <2>1, DialogsAssumption
  <2>4. ListSound(listed, edits + 1, shownEdit)
    BY <1>1, LaterChange
  <2>5. /\ mutation' \in MutationRow /\ mutation'.phase = "stored"
        /\ mutation'.made = edits + 1 /\ mutation'.kind = mutation.kind
        /\ mutation'.id = mutation.id
    <3> DEFINE made == edits + 1
    <3>1. mutation' = [mutation EXCEPT !.phase = "stored", !.made = made] /\ made \in Nat
      BY <1>1, <2>1
    <3> HIDE DEF made
    <3>2. /\ mutation' \in MutationRow /\ mutation'.phase = "stored"
          /\ mutation'.made = made /\ mutation'.kind = mutation.kind
          /\ mutation'.id = mutation.id
      BY <1>1, <3>1 DEF MutationRow
    <3> QED BY <3>2 DEF made
  <2>6. MutationSound(mutation', listed, edits + 1)
    BY <1>1, <2>5 DEF MutationSound
  <2>7. DialogSound(dialog, mutation')
    BY <1>1, <2>1, <2>5 DEF DialogSound, Waiting
  <2> QED BY <1>1, <2>1, <2>2, <2>3, <2>4, <2>6, <2>7 DEF DialogsSound
<1>12. CASE MutationFails
  <2>1. /\ mutation' = [mutation EXCEPT !.phase = "error"]
        /\ UNCHANGED <<rows, edits, listed, dialog, shownEdit>>
    BY <1>12 DEF MutationFails
  <2>2. /\ mutation' \in MutationRow /\ mutation'.phase = "error"
        /\ mutation'.made = mutation.made
    BY <1>1, <2>1 DEF MutationRow
  <2>3. MutationSound(mutation', listed, edits)
    BY <1>3, <2>2 DEF MutationSound
  <2>4. DialogSound(dialog, mutation')
    BY <1>1, <2>2 DEF DialogSound, Waiting
  <2> QED BY <1>1, <2>1, <2>3, <2>4 DEF DialogsSound
<1>13. CASE AnswerArrives
  <2>1. /\ mutation.phase = "stored"
        /\ mutation' = [mutation EXCEPT !.phase = "refreshing"]
        /\ listed' = Invalidated(listed, TRUE)
        /\ UNCHANGED <<rows, edits, dialog, shownEdit>>
    BY <1>13 DEF AnswerArrives
  <2>2. ListSound(listed', edits, shownEdit)
    BY <1>1, <2>1, ListSoundKept
  <2>3. /\ mutation' \in MutationRow /\ mutation'.phase = "refreshing"
        /\ mutation'.made = mutation.made /\ mutation'.kind = mutation.kind
        /\ mutation'.id = mutation.id
    BY <1>1, <2>1 DEF MutationRow
  <2>4. Fetching(listed') /\ (listed'.phase = "read" => listed'.overtaken = TRUE)
    <3>1. CASE Fetching(listed) /\ ~Has(listed)
      BY <1>2, <2>1, <3>1 DEF Invalidated, Fetching, QueryRow
    <3>2. CASE ~(Fetching(listed) /\ ~Has(listed))
      <4>1. listed'.phase = "sent"
        BY <1>2, <2>1, <3>2 DEF Invalidated, Refetched, Fetch, Fetching, Has, QueryRow
      <4> QED BY <4>1 DEF Fetching
    <3> QED BY <3>1, <3>2
  <2>5. MutationSound(mutation', listed', edits)
    BY <1>3, <2>3, <2>4 DEF MutationSound
  <2>6. DialogSound(dialog, mutation')
    BY <1>1, <2>1, <2>3 DEF DialogSound, Waiting
  <2> QED BY <1>1, <2>1, <2>2, <2>5, <2>6 DEF DialogsSound
<1>14. CASE DialogDone
  <2>1. /\ mutation.phase = "refreshed"
        /\ mutation' = [mutation EXCEPT !.phase = "success"]
        /\ dialog' = NoDialog
        /\ shownEdit' = IF mutation.made = 0 THEN shownEdit ELSE mutation.made
        /\ UNCHANGED <<rows, edits, listed>>
    BY <1>14 DEF DialogDone
  <2>2. /\ mutation' \in MutationRow /\ mutation'.phase = "success"
        /\ mutation'.made = mutation.made
    BY <1>1, <2>1 DEF MutationRow
  <2>3. MutationSound(mutation', listed, edits)
    BY <1>3, <2>2 DEF MutationSound
  <2>4. DialogSound(dialog', mutation')
    BY <2>1, <2>2 DEF DialogSound, DialogRow, NoDialog, Waiting
  <2>5. mutation.made = 0 \/ mutation.made <= listed.data.at
    BY <1>1, <2>1 DEF MutationSound
  <2>6. ListSound(listed, edits, shownEdit') /\ shownEdit' \in Nat
    BY <1>1, <1>3, <2>1, <2>5 DEF ListSound
  <2> QED BY <1>1, <2>1, <2>3, <2>4, <2>6 DEF DialogsSound
<1>15. CASE ReadList
  <2>1. /\ listed.phase = "sent"
        /\ listed' = ReadAt(listed, [at |-> edits, rows |-> rows])
        /\ UNCHANGED <<rows, edits, dialog, mutation, shownEdit>>
    BY <1>15 DEF ReadList
  <2>2. ListSound(listed', edits, shownEdit)
    BY <1>1, <2>1, ListSoundKept
  <2>3. /\ listed'.phase = "read" /\ listed'.got = [at |-> edits, rows |-> rows]
        /\ listed'.data = listed.data
    BY <1>2, <2>1 DEF ReadAt, QueryRow
  <2>4. Fetching(listed') /\ listed'.got.at = edits
    BY <2>3 DEF Fetching
  <2>5. MutationSound(mutation, listed', edits)
    BY <1>1, <1>3, <2>3, <2>4 DEF MutationSound
  <2> QED BY <1>1, <2>1, <2>2, <2>5 DEF DialogsSound
<1>16. ASSUME NEW fetched \in BOOLEAN, mutation' = Settled(fetched)
      PROVE  /\ mutation' \in MutationRow /\ mutation'.made <= edits
             /\ mutation'.phase # "refreshing"
             /\ DialogSound(dialog, mutation')
             /\ mutation.phase # "refreshing" => mutation' = mutation
             /\ mutation.phase = "refreshing" /\ mutation'.made # 0
                   => fetched = TRUE /\ mutation'.made = mutation.made
  <2>1. CASE mutation.phase = "refreshing"
    <3>1. /\ mutation' = [mutation EXCEPT !.phase = "refreshed",
                                         !.made = IF fetched THEN @ ELSE 0]
      BY <1>16, <2>1 DEF Settled
    <3> DEFINE made == IF fetched THEN mutation.made ELSE 0
    <3>2. /\ made \in Nat /\ made <= edits
          /\ made # 0 => fetched = TRUE /\ made = mutation.made
      BY <1>1, <1>3
    <3>3. mutation' = [mutation EXCEPT !.phase = "refreshed", !.made = made]
      BY <1>1, <3>1 DEF MutationRow
    <3> HIDE DEF made
    <3>4. /\ mutation' \in MutationRow /\ mutation'.phase = "refreshed"
          /\ mutation'.made = made /\ mutation'.kind = mutation.kind
          /\ mutation'.id = mutation.id
      BY <1>1, <3>2, <3>3 DEF MutationRow
    <3>5. DialogSound(dialog, mutation')
      BY <1>1, <2>1, <3>4 DEF DialogSound, Waiting
    <3> QED BY <2>1, <3>2, <3>4, <3>5
  <2>2. CASE mutation.phase # "refreshing"
    BY <1>1, <1>3, <1>16, <2>2 DEF Settled
  <2> QED BY <2>1, <2>2
<1>17. CASE ListArrives
  <2>1. /\ listed.phase = "read" /\ listed' = Received(listed, listed.got)
        /\ mutation' = Settled(~listed.overtaken)
        /\ UNCHANGED <<rows, edits, dialog, shownEdit>>
    BY <1>17 DEF ListArrives
  <2>2. ListSound(listed', edits, shownEdit)
    BY <1>1, <2>1, ListSoundKept
  <2>3. /\ mutation' \in MutationRow /\ mutation'.made <= edits
        /\ mutation'.phase # "refreshing"
        /\ DialogSound(dialog, mutation')
        /\ mutation.phase # "refreshing" => mutation' = mutation
        /\ mutation.phase = "refreshing" /\ mutation'.made # 0
              => ~listed.overtaken /\ mutation'.made = mutation.made
    BY <1>16, <2>1
  <2>4. listed'.data = listed.got
    BY <1>2, <2>1 DEF Received, QueryRow
  <2>5. listed.data.at <= listed.got.at
    BY <1>1, <2>1 DEF ListSound
  <2>6. mutation'.phase = "refreshed" => mutation'.made = 0 \/ mutation'.made <= listed'.data.at
    <3>1. CASE mutation.phase = "refreshing"
      BY <1>1, <2>1, <2>3, <2>4, <3>1 DEF MutationSound
    <3>2. CASE mutation.phase # "refreshing"
      BY <1>1, <1>3, <1>2, <2>3, <2>4, <2>5, <3>2 DEF MutationSound
    <3> QED BY <3>1, <3>2
  <2>7. MutationSound(mutation', listed', edits)
    BY <2>3, <2>6 DEF MutationSound
  <2> QED BY <1>1, <2>1, <2>2, <2>3, <2>7 DEF DialogsSound
<1>18. CASE ListFails
  <2>1. /\ listed' = Failed(listed) /\ mutation' = Settled(FALSE)
        /\ UNCHANGED <<rows, edits, dialog, shownEdit>>
    BY <1>18 DEF ListFails
  <2>2. ListSound(listed', edits, shownEdit)
    BY <1>1, <2>1, ListSoundKept
  <2>3. /\ mutation' \in MutationRow /\ mutation'.made <= edits
        /\ mutation'.phase # "refreshing"
        /\ DialogSound(dialog, mutation')
        /\ mutation.phase # "refreshing" => mutation' = mutation
        /\ mutation.phase = "refreshing" => mutation'.made = 0
    BY <1>16, <2>1
  <2>4. listed'.data = listed.data
    BY <1>2, <2>1 DEF Failed, QueryRow
  <2>5. mutation'.phase = "refreshed" => mutation'.made = 0 \/ mutation'.made <= listed'.data.at
    BY <1>1, <2>3, <2>4 DEF MutationSound
  <2>6. MutationSound(mutation', listed', edits)
    BY <2>3, <2>5 DEF MutationSound
  <2> QED BY <1>1, <2>1, <2>2, <2>3, <2>6 DEF DialogsSound
<1>19. CASE RefetchList
  <2>1. /\ ~Fetching(listed) /\ listed' = Fetch(listed)
        /\ UNCHANGED <<rows, edits, dialog, mutation, shownEdit>>
    BY <1>19 DEF RefetchList
  <2>2. ListSound(listed', edits, shownEdit)
    BY <1>1, <2>1, ListSoundKept
  <2>3. listed'.phase = "sent" /\ listed'.data = listed.data
    BY <1>2, <2>1 DEF Fetch, QueryRow
  <2>4. MutationSound(mutation, listed', edits)
    BY <1>1, <2>1, <2>3 DEF MutationSound, Fetching
  <2> QED BY <1>1, <2>1, <2>2, <2>4 DEF DialogsSound
<1>20. CASE CategoriesChangeElsewhere
  <2>1. /\ edits' = edits + 1 /\ edits < MaxEdits
        /\ UNCHANGED <<listed, dialog, mutation, shownEdit>>
    BY <1>20 DEF CategoriesChangeElsewhere
  <2>2. rows' \subseteq CategoryRow
    <3>1. \A r \in rows : r.id \in Int
      BY <1>1 DEF CategoryRow
    <3> QED BY <1>1, <1>20, <3>1, RowsStay DEF CategoriesChangeElsewhere
  <2>3. edits' \in 0..MaxEdits
    BY <1>1, <2>1, DialogsAssumption
  <2>4. ListSound(listed, edits + 1, shownEdit) /\ MutationSound(mutation, listed, edits + 1)
    BY <1>1, LaterChange
  <2> QED BY <1>1, <2>1, <2>2, <2>3, <2>4 DEF DialogsSound
<1>21. CASE UNCHANGED dialogsVars
  BY <1>1, <1>21 DEF dialogsVars, DialogsSound
<1> QED BY <1>7, <1>8, <1>9, <1>10, <1>11, <1>12, <1>13, <1>14, <1>15, <1>17, <1>18, <1>19, <1>20,
           <1>21 DEF DialogsNext

LEMMA DialogsKeep == DialogsSound => DialogsInvariant
<1> SUFFICES ASSUME DialogsSound PROVE DialogsInvariant
  OBVIOUS
<1>1. ListSound(listed, edits, shownEdit) /\ DialogSound(dialog, mutation)
  BY DEF DialogsSound
<1>2. listed.phase \in QueryPhases
  BY <1>1 DEF ListSound, QueryRow
<1>3. DialogStays
  BY <1>1 DEF DialogStays, DialogSound, SubmitPending, Waiting
<1>4. ListShowsChange
  <2>1. Has(listed) => listed.data.at \in Nat
    BY <1>1, ListDatum DEF ListSound, QueryRow, Has
  <2> QED BY <1>1, <2>1 DEF ListShowsChange, ListSound, DialogsSound
<1> QED BY <1>2, <1>3, <1>4 DEF DialogsSound, DialogsInvariant, QueryPhases
-----------------------------------------------------------------------------
\* More items are on no fewer pages.
LEMMA DivGrows ==
    ASSUME NEW p \in Nat \ {0}, NEW a \in Nat, NEW b \in Nat, a <= b
    PROVE  /\ a \div p \in Nat
           /\ a \div p <= b \div p
<1> DEFINE x == a \div p
           y == b \div p
<1>1. /\ x \in Int /\ y \in Int /\ p * x <= a /\ a < p * x + p
  OBVIOUS
<1>2. p * y <= b /\ b < p * y + p
  OBVIOUS
<1> HIDE DEF x, y
<1>3. x <= y
  <2> SUFFICES ASSUME x >= y + 1 PROVE FALSE
    BY <1>1
  <2>1. p * x >= p * (y + 1)
    BY <1>1
  <2>2. p * (y + 1) = p * y + p
    BY <1>1
  <2> QED BY <1>1, <1>2, <2>1, <2>2
<1>4. x >= 0
  <2> SUFFICES ASSUME x <= -1 PROVE FALSE
    BY <1>1
  <2>1. p * (x + 1) <= p * 0
    BY <1>1
  <2>2. p * (x + 1) = p * x + p
    BY <1>1
  <2> QED BY <1>1, <2>1, <2>2
<1> QED BY <1>1, <1>3, <1>4 DEF x, y

\* f leads every number of Moves to where f leads the smaller one that nx gives for it.
Settling(n, Moves, nx, f) ==
    f = [p \in 1..n |-> IF p \in Moves THEN f[nx[p]] ELSE p]

\* Such a function exists, and leads out of Moves.
LEMMA SettlingExists ==
    ASSUME NEW m \in Nat, NEW Moves, NEW nx,
           \A p \in Moves : nx[p] \in 1..(p - 1)
    PROVE  \E f : Settling(m, Moves, nx, f)
<1> SUFFICES ASSUME \A f : ~Settling(m, Moves, nx, f) PROVE FALSE
  OBVIOUS
<1> DEFINE Fails(n) == \A f : ~Settling(n, Moves, nx, f)
           Bad == {n \in 0..m : Fails(n)}
<1>1. Bad \subseteq 0..m /\ Bad # {}
  OBVIOUS
<1>2. PICK n \in Bad : \A k \in Bad : n <= k
  BY <1>1, LeastExists, Zenon
<1>3. \A k \in 0..m : k < n => ~Fails(k)
  BY <1>2
<1>4. n \in 0..m /\ Fails(n)
  OBVIOUS
<1> HIDE DEF Fails, Bad
<1>5. CASE n = 0
  <2> DEFINE f == [p \in 1..0 |-> p]
  <2>1. f = [p \in 1..0 |-> IF p \in Moves THEN f[nx[p]] ELSE p]
    OBVIOUS
  <2> QED BY <1>4, <1>5, <2>1 DEF Fails, Settling
<1>6. CASE n > 0
  <2>1. ~Fails(n - 1)
    BY <1>3, <1>4, <1>6
  <2>2. PICK g : g = [p \in 1..(n-1) |-> IF p \in Moves THEN g[nx[p]] ELSE p]
    BY <2>1 DEF Fails, Settling
  <2> DEFINE last == IF n \in Moves THEN g[nx[n]] ELSE n
             f == [p \in 1..n |-> IF p = n THEN last ELSE g[p]]
             step(p) == IF p \in Moves THEN f[nx[p]] ELSE p
  <2>3. \A p \in 1..(n - 1) : f[p] = g[p]
    BY <1>4
  <2>4. f[n] = last
    BY <1>4, <1>6
  <2> HIDE DEF last
  <2>5. ASSUME NEW p \in 1..n PROVE f[p] = step(p)
    <3>1. CASE p = n
      <4>1. CASE n \in Moves
        <5>1. nx[n] \in 1..(n - 1)
          BY <4>1
        <5>2. f[nx[n]] = g[nx[n]]
          BY <2>3, <5>1
        <5> HIDE DEF f
        <5> QED BY <2>4, <3>1, <4>1, <5>2 DEF last
      <4>2. CASE n \notin Moves
        <5> HIDE DEF f
        <5> QED BY <2>4, <3>1, <4>2 DEF last
      <4> QED BY <4>1, <4>2
    <3>2. CASE p # n
      <4>1. p \in 1..(n - 1)
        BY <1>4, <3>2
      <4>2. g[p] = IF p \in Moves THEN g[nx[p]] ELSE p
        BY <2>2, <4>1
      <4>3. p \in Moves => nx[p] \in 1..(n - 1)
        BY <1>4, <4>1
      <4>4. p \in Moves => f[nx[p]] = g[nx[p]]
        BY <2>3, <4>3
      <4>5. f[p] = g[p]
        BY <2>3, <4>1
      <4> HIDE DEF f
      <4> QED BY <4>2, <4>4, <4>5
    <3> QED BY <3>1, <3>2
  <2>6. f = [p \in 1..n |-> f[p]]
    OBVIOUS
  <2> HIDE DEF f
  <2>7. f = [p \in 1..n |-> step(p)]
    BY <2>5, <2>6
  <2> QED BY <1>4, <2>7 DEF Fails, Settling
<1> QED BY <1>4, <1>5, <1>6

LEMMA SettlingLeads ==
    ASSUME NEW m \in Nat, NEW Moves, NEW nx,
           \A p \in Moves : nx[p] \in 1..(p - 1),
           NEW f, Settling(m, Moves, nx, f)
    PROVE  \A p \in 1..m : f[p] \in (1..m) \ Moves
<1> SUFFICES ASSUME NEW e \in 1..m, f[e] \notin (1..m) \ Moves PROVE FALSE
  OBVIOUS
<1> DEFINE Bad == {p \in 1..m : f[p] \notin (1..m) \ Moves}
<1>1. Bad \subseteq 0..m /\ Bad # {}
  OBVIOUS
<1>2. PICK p \in Bad : \A t \in Bad : p <= t
  BY <1>1, LeastExists, Zenon
<1>3. \A k \in 1..m : f[k] = IF k \in Moves THEN f[nx[k]] ELSE k
  BY DEF Settling
<1>4. p \in 1..m /\ f[p] \notin (1..m) \ Moves
  OBVIOUS
<1>5. CASE p \notin Moves
  BY <1>3, <1>4, <1>5
<1>6. CASE p \in Moves
  <2> DEFINE t == nx[p]
  <2>1. t \in 1..(p - 1)
    BY <1>6
  <2>2. f[p] = f[t]
    BY <1>3, <1>4, <1>6
  <2> HIDE DEF t
  <2>3. t \in Bad /\ t < p
    BY <1>4, <2>1, <2>2
  <2> HIDE DEF Bad
  <2> QED BY <1>2, <1>4, <2>1, <2>3
<1> QED BY <1>5, <1>6
-----------------------------------------------------------------------------
(* The bank types of the categories page *)

MappedIds == Assignable \cup {0}
CodeRow == [code : Codes, id : MappedIds]
PageData == {NoData} \cup [at : Nat, total : 0..Cardinality(Codes), rows : SUBSET CodeRow]
Place == [active : BOOLEAN, filter : Filters, page : 1..LastPage, moves : Nat]
SaveRow == [phase : {"idle", "sent", "stored"}, code : Codes \cup {0}, id : MappedIds]
LatestRow == [status : {"none", "pending", "success", "error"}, id : MappedIds]
PageQueries == [Keys -> QueryRow(PageData)]

\* A page is open that exists in what is known of it.
Existing(q, page) == Has(q) => page <= TotalPages(q.data)

LEMMA PageCount ==
    /\ Cardinality(Codes) \in Nat \ {0} /\ LastPage \in Nat \ {0}
    /\ \A n \in 0..Cardinality(Codes) :
          (IF n = 0 THEN 1 ELSE 1 + (n - 1) \div PageSize) \in 1..LastPage
<1>1. Cardinality(Codes) \in Nat \ {0}
  <2>1. /\ Cardinality(Codes) \in Nat /\ Codes = 1..Cardinality(Codes) /\ Codes # {}
    BY BankTypesAssumption, FS_CardinalityType
  <2> QED BY <2>1
<1>2. PageSize \in Nat \ {0}
  BY BankTypesAssumption
<1>3. (Cardinality(Codes) - 1) \div PageSize \in Nat
  BY <1>1, <1>2, DivGrows
<1>4. LastPage \in Nat \ {0}
  BY <1>3 DEF LastPage
<1>5. ASSUME NEW n \in 1..Cardinality(Codes)
      PROVE  1 + (n - 1) \div PageSize \in 1..LastPage
  <2>1. /\ n - 1 \in Nat /\ Cardinality(Codes) - 1 \in Nat
        /\ n - 1 <= Cardinality(Codes) - 1
    BY <1>1
  <2>2. /\ (n - 1) \div PageSize \in Nat
        /\ (n - 1) \div PageSize <= (Cardinality(Codes) - 1) \div PageSize
    BY <1>2, <2>1, DivGrows
  <2> DEFINE x == (n - 1) \div PageSize
             y == (Cardinality(Codes) - 1) \div PageSize
  <2>3. x \in Nat /\ y \in Nat /\ x <= y
    BY <1>3, <2>2
  <2>4. LastPage = 1 + y
    BY DEF LastPage
  <2> HIDE DEF x, y
  <2>5. 1 + x \in 1..LastPage
    BY <2>3, <2>4
  <2> QED BY <2>5 DEF x
<1>6. ASSUME NEW n \in 0..Cardinality(Codes)
      PROVE  (IF n = 0 THEN 1 ELSE 1 + (n - 1) \div PageSize) \in 1..LastPage
  <2>1. CASE n = 0
    BY <1>4, <2>1
  <2>2. CASE n # 0
    <3>1. n \in 1..Cardinality(Codes)
      BY <1>1, <2>2
    <3> QED BY <1>5, <2>2, <3>1
  <2> QED BY <2>1, <2>2
<1> QED BY <1>1, <1>4, <1>6

LEMMA PageDatum ==
    /\ NoData \in PageData
    /\ \A d \in PageData : d # NoData => /\ TotalPages(d) \in 1..LastPage
                                         /\ d.rows \in SUBSET CodeRow
<1>1. ASSUME NEW d \in PageData, d # NoData
      PROVE  TotalPages(d) \in 1..LastPage /\ d.rows \in SUBSET CodeRow
  <2>1. d.total \in 0..Cardinality(Codes) /\ d.rows \in SUBSET CodeRow
    BY <1>1 DEF PageData
  <2> QED BY <2>1, PageCount DEF TotalPages
<1> QED BY <1>1 DEF PageData

\* The page that rendering settles on exists.
LEMMA PageSettles ==
    ASSUME NEW queries \in PageQueries, NEW filter \in Filters, NEW page \in 1..LastPage
    PROVE  /\ ExistingPage(queries, filter, page) \in 1..LastPage
           /\ Existing(queries[<<filter, ExistingPage(queries, filter, page)>>],
                       ExistingPage(queries, filter, page))
<1> DEFINE q(p) == queries[<<filter, p>>]
           Moves == {p \in 1..LastPage : Has(q(p)) /\ p > TotalPages(q(p).data)}
           nx == [p \in 1..LastPage |-> TotalPages(q(p).data)]
           f == CHOOSE g : Settling(LastPage, Moves, nx, g)
<1>1. LastPage \in Nat
  BY PageCount
<1>2. \A p \in 1..LastPage : q(p) \in QueryRow(PageData)
  BY DEF PageQueries, Keys
<1>3. ASSUME NEW p \in Moves PROVE nx[p] \in 1..(p - 1)
  <2>1. p \in 1..LastPage /\ Has(q(p)) /\ p > TotalPages(q(p).data)
    OBVIOUS
  <2>2. q(p).data \in PageData /\ q(p).data # NoData
    BY <1>2, <2>1 DEF QueryRow, Has
  <2>3. TotalPages(q(p).data) \in 1..LastPage
    BY <2>2, PageDatum
  <2>4. nx[p] = TotalPages(q(p).data)
    BY <2>1
  <2> DEFINE t == TotalPages(q(p).data)
  <2>5. t \in 1..LastPage /\ p > t /\ nx[p] = t
    BY <2>1, <2>3, <2>4
  <2> HIDE DEF t, nx, Moves
  <2> QED BY <1>1, <2>1, <2>5
<1>4. ExistingPage(queries, filter, page) = f[page]
  <2> DEFINE settle[p \in 1..LastPage] ==
               LET r == queries[<<filter, p>>]
               IN IF Has(r) /\ p > TotalPages(r.data) THEN settle[TotalPages(r.data)] ELSE p
             Step(g) == g = [p \in 1..LastPage |->
                              LET r == queries[<<filter, p>>]
                              IN IF Has(r) /\ p > TotalPages(r.data)
                                 THEN g[TotalPages(r.data)] ELSE p]
  <2>1. ExistingPage(queries, filter, page) = (CHOOSE g : Step(g))[page]
    BY DEF ExistingPage
  <2>2. ASSUME NEW g PROVE Step(g) <=> Settling(LastPage, Moves, nx, g)
    <3>1. [p \in 1..LastPage |->
             LET r == queries[<<filter, p>>]
             IN IF Has(r) /\ p > TotalPages(r.data) THEN g[TotalPages(r.data)] ELSE p]
          = [p \in 1..LastPage |-> IF p \in Moves THEN g[nx[p]] ELSE p]
      OBVIOUS
    <3> HIDE DEF Moves, nx
    <3> QED BY <3>1 DEF Settling
  <2> HIDE DEF Step, Moves, nx
  <2>3. (CHOOSE g : Step(g)) = (CHOOSE g : Settling(LastPage, Moves, nx, g))
    BY <2>2
  <2> QED BY <2>1, <2>3
<1> HIDE DEF nx
<1>5. \A p \in 1..LastPage : p \notin Moves => Existing(q(p), p)
  <2> SUFFICES ASSUME NEW p \in 1..LastPage, p \notin Moves, Has(q(p))
               PROVE  p <= TotalPages(q(p).data)
    BY DEF Existing
  <2>1. ~(p > TotalPages(q(p).data))
    OBVIOUS
  <2>2. q(p).data \in PageData /\ q(p).data # NoData
    BY <1>2 DEF QueryRow, Has
  <2>3. TotalPages(q(p).data) \in 1..LastPage
    BY <2>2, PageDatum
  <2> HIDE DEF Moves, q
  <2> QED BY <1>1, <2>1, <2>3
<1> HIDE DEF Moves
<1>6. Settling(LastPage, Moves, nx, f)
  <2>1. \E g : Settling(LastPage, Moves, nx, g)
    BY <1>1, <1>3, SettlingExists
  <2> QED BY <2>1
<1> HIDE DEF f
<1>7. f[page] \in (1..LastPage) \ Moves
  BY <1>1, <1>3, <1>6, SettlingLeads
<1> QED BY <1>4, <1>7, <1>5

\* The pages: the one that is open exists, and none keeps rows of before the latest
\* save, unless that can be told.
Open(at, pk) == at.active /\ pk = KeyOf(at)
Following(queries, at, own) == \A pk \in Keys : Caught(queries[pk], own, Open(at, pk))
PagesSound(queries, at, own) ==
    /\ queries \in PageQueries /\ at \in Place
    /\ Following(queries, at, own)
    /\ Existing(queries[KeyOf(at)], at.page)

LEMMA PlaceKey == \A at \in Place : KeyOf(at) \in Keys /\ at.page \in 1..LastPage
                                   /\ at.filter \in Filters
BY DEF Place, KeyOf, Keys

LEMMA PlaceMoved ==
    ASSUME NEW at, at \in Place
    PROVE  /\ [at EXCEPT !.active = ~@, !.moves = @ + 1] \in Place
           /\ \A filter \in Filters :
                 [at EXCEPT !.filter = filter, !.page = 1, !.moves = @ + 1] \in Place
           /\ \A page \in 1..LastPage : [at EXCEPT !.page = page, !.moves = @ + 1] \in Place
<1> DEFINE moves == at.moves + 1
           active == ~at.active
<1>1. moves \in Nat /\ active \in BOOLEAN
  BY DEF Place
<1>2. 1 \in 1..LastPage
  BY PageCount
<1>3. [at EXCEPT !.active = ~@, !.moves = @ + 1] = [at EXCEPT !.active = active, !.moves = moves]
  OBVIOUS
<1>4. \A filter : [at EXCEPT !.filter = filter, !.page = 1, !.moves = @ + 1]
                     = [at EXCEPT !.filter = filter, !.page = 1, !.moves = moves]
  OBVIOUS
<1>5. \A page : [at EXCEPT !.page = page, !.moves = @ + 1]
                   = [at EXCEPT !.page = page, !.moves = moves]
  OBVIOUS
<1> HIDE DEF moves, active
<1>6. [at EXCEPT !.active = active, !.moves = moves] \in Place
  BY <1>1 DEF Place
<1>7. ASSUME NEW filter \in Filters
      PROVE  [at EXCEPT !.filter = filter, !.page = 1, !.moves = moves] \in Place
  BY <1>1, <1>2 DEF Place
<1>8. ASSUME NEW page \in 1..LastPage
      PROVE  [at EXCEPT !.page = page, !.moves = moves] \in Place
  BY <1>1 DEF Place
<1> QED BY <1>3, <1>4, <1>5, <1>6, <1>7, <1>8

LEMMA MovedSound ==
    ASSUME NEW queries \in PageQueries, NEW next \in Place, NEW own,
           Following(queries, place, own), MovedTo(next, queries)
    PROVE  PagesSound(sources', place', own)
<1> DEFINE at == [next EXCEPT !.page = ExistingPage(queries, next.filter, next.page)]
           pk == KeyOf(at)
<1>1. /\ ExistingPage(queries, next.filter, next.page) \in 1..LastPage
      /\ Existing(queries[<<next.filter, ExistingPage(queries, next.filter, next.page)>>],
                  ExistingPage(queries, next.filter, next.page))
  BY PageSettles, PlaceKey
<1>2. /\ at \in Place /\ at.filter = next.filter
      /\ at.page = ExistingPage(queries, next.filter, next.page)
  BY <1>1 DEF Place
<1>3. /\ place' = at
      /\ IF at.active /\ ~IsShown(KeyOf(at))
         THEN \E stale \in BOOLEAN :
                 sources' = [queries EXCEPT ![KeyOf(at)] = Observed(@, stale)]
         ELSE sources' = queries
  BY DEF MovedTo
<1>4. Existing(queries[pk], at.page)
  BY <1>1, <1>2 DEF KeyOf
<1> HIDE DEF at
<1>5. pk \in Keys
  BY <1>2, PlaceKey
<1>6. \A k \in Keys : queries[k] \in QueryRow(PageData) /\ Caught(queries[k], own, IsShown(k))
  BY DEF PageQueries, Following, Open, IsShown
<1>7. CASE at.active /\ ~IsShown(pk)
  <2>1. PICK stale \in BOOLEAN : sources' = [queries EXCEPT ![pk] = Observed(@, stale)]
    BY <1>3, <1>7
  <2> HIDE DEF pk
  <2> DEFINE new == Observed(queries[pk], stale)
  <2>2. sources' = [queries EXCEPT ![pk] = new]
    BY <2>1
  <2>3. new \in QueryRow(PageData) /\ \A t : Caught(new, own, t)
    <3>1. Caught(queries[pk], own, FALSE)
      BY <1>5, <1>6, CaughtLess
    <3>2. new \in QueryRow(PageData)
      BY <1>5, <1>6, PageDatum, QueryTyped
    <3> QED BY <1>5, <1>6, <3>1, <3>2, PageDatum, CaughtObserved
  <2>4. new.data = queries[pk].data
    BY <1>5, <1>6 DEF Observed, Fetch, QueryRow
  <2> HIDE DEF new
  <2>5. /\ sources' \in PageQueries /\ sources'[pk] = new
        /\ \A k \in Keys : k # pk => sources'[k] = queries[k]
    BY <1>5, <2>2, <2>3 DEF PageQueries
  <2>6. ASSUME NEW k \in Keys PROVE Caught(sources'[k], own, Open(at, k))
    <3>1. CASE k = pk
      BY <2>3, <2>5, <3>1
    <3>2. CASE k # pk
      <4>1. ~Open(at, k)
        BY <3>2 DEF Open, pk
      <4>2. Caught(queries[k], own, IsShown(k))
        BY <1>6
      <4> QED BY <2>5, <3>2, <4>1, <4>2, CaughtLess
    <3> QED BY <3>1, <3>2
  <2>7. Existing(sources'[pk], at.page)
    BY <1>4, <2>4, <2>5 DEF Existing, Has
  <2> QED BY <1>2, <1>3, <2>5, <2>6, <2>7 DEF PagesSound, Following, pk
<1>8. CASE ~(at.active /\ ~IsShown(pk))
  <2>1. sources' = queries
    BY <1>3, <1>8
  <2>2. ASSUME NEW k \in Keys PROVE Caught(queries[k], own, Open(at, k))
    <3>1. Open(at, k) => IsShown(k)
      BY <1>8 DEF Open
    <3>2. Caught(queries[k], own, IsShown(k))
      BY <1>6
    <3> QED BY <3>1, <3>2, CaughtLess
  <2> QED BY <1>2, <1>3, <1>4, <2>1, <2>2 DEF PagesSound, Following
<1> QED BY <1>7, <1>8

\* One query changes, and keeps its data.
LEMMA PageChanged ==
    ASSUME NEW own, PagesSound(sources, place, own), NEW pk \in Keys,
           NEW new \in QueryRow(PageData), sources' = [sources EXCEPT ![pk] = new],
           place' = place, new.data = sources[pk].data, \A t : Caught(new, own, t)
    PROVE  PagesSound(sources', place', own)
<1>1. /\ sources \in PageQueries /\ place \in Place /\ KeyOf(place) \in Keys
      /\ Following(sources, place, own) /\ Existing(sources[KeyOf(place)], place.page)
  BY PlaceKey DEF PagesSound
<1>2. /\ sources' \in PageQueries /\ sources'[pk] = new
      /\ \A k \in Keys : k # pk => sources'[k] = sources[k]
  BY <1>1 DEF PageQueries
<1>3. Following(sources', place, own)
  BY <1>1, <1>2 DEF Following
<1>4. Existing(sources'[KeyOf(place)], place.page)
  BY <1>1, <1>2 DEF Existing, Has
<1> QED BY <1>1, <1>2, <1>3, <1>4 DEF PagesSound

LEMMA SourcePageDatum ==
    ASSUME mapped \in [Codes -> MappedIds], mappings \in Nat, NEW filter, NEW page
    PROVE  SourcePage(filter, page) \in PageData /\ SourcePage(filter, page).at = mappings
<1> DEFINE all == {code \in Codes : Passes(filter, code)}
           OnPage(code) == 1 + (Cardinality({c \in all : c < code}) \div PageSize) = page
           total == Cardinality(all)
           list == {[code |-> code, id |-> mapped[code]] : code \in {c \in all : OnPage(c)}}
<1>1. SourcePage(filter, page) = [at |-> mappings, total |-> total, rows |-> list]
  BY DEF SourcePage
<1>2. total \in 0..Cardinality(Codes)
  <2>1. all \subseteq Codes /\ IsFiniteSet(Codes)
    BY BankTypesAssumption
  <2> HIDE DEF all
  <2>2. /\ IsFiniteSet(all) /\ Cardinality(all) <= Cardinality(Codes)
        /\ Cardinality(all) \in Nat
    BY <2>1, FS_Subset, FS_CardinalityType
  <2> QED BY <2>2, PageCount
<1>3. list \subseteq CodeRow
  <2> SUFFICES ASSUME NEW c \in Codes PROVE [code |-> c, id |-> mapped[c]] \in CodeRow
    OBVIOUS
  <2> QED BY DEF CodeRow
<1> HIDE DEF total, list
<1> QED BY <1>1, <1>2, <1>3 DEF PageData

\* The saves under way are of different codes, each the latest of its code; one that was
\* stored, or has been answered, is what is assigned unless others changed it.
SavesSound(map, save, last, changed) ==
    /\ map \in [Codes -> MappedIds] /\ save \in [Saves -> SaveRow]
    /\ last \in [Codes -> LatestRow] /\ changed \subseteq Codes
    /\ \A s \in Saves : save[s].phase # "idle" => save[s].code \in Codes
    /\ \A s, t \in Saves : save[s].phase # "idle" /\ save[t].phase # "idle"
                           /\ save[s].code = save[t].code => s = t
    /\ \A s \in Saves : save[s].phase # "idle" => last[save[s].code].status = "pending"
    /\ \A s \in Saves : save[s].phase # "idle" => last[save[s].code].id = save[s].id
    /\ \A s \in Saves : save[s].phase = "stored" /\ save[s].code \notin changed
                           => map[save[s].code] = save[s].id
    /\ \A code \in Codes \ changed : last[code].status = "success" => map[code] = last[code].id

BankTypesSound ==
    /\ mappings \in 0..MaxMappings /\ ownMapping \in 0..mappings
    /\ PagesSound(sources, place, ownMapping)
    /\ SavesSound(mapped, saves, latest, others)

LEMMA MutateSound ==
    ASSUME SavesSound(mapped, saves, latest, others), NEW s \in Saves,
           NEW code \in Codes, NEW id \in MappedIds, Mutate(s, code, id)
    PROVE  SavesSound(mapped', saves', latest', others')
<1> DEFINE row == [phase |-> "sent", code |-> code, id |-> id]
           new == [status |-> "pending", id |-> id]
<1>1. /\ saves[s].phase = "idle" /\ ~IsMutating(code)
      /\ saves' = [saves EXCEPT ![s] = row] /\ latest' = [latest EXCEPT ![code] = new]
      /\ others' = others \ {code} /\ mapped' = mapped
  BY DEF Mutate
<1>2. /\ row \in SaveRow /\ row.phase = "sent" /\ row.code = code /\ row.id = id
      /\ new \in LatestRow /\ new.status = "pending" /\ new.id = id
  BY DEF SaveRow, LatestRow
<1> HIDE DEF row, new
<1>3. /\ mapped \in [Codes -> MappedIds] /\ saves \in [Saves -> SaveRow]
      /\ latest \in [Codes -> LatestRow] /\ others \subseteq Codes
  BY DEF SavesSound
<1>4. /\ saves' \in [Saves -> SaveRow] /\ saves'[s] = row
      /\ \A t \in Saves : t # s => saves'[t] = saves[t]
  BY <1>1, <1>2, <1>3
<1>5. /\ latest' \in [Codes -> LatestRow] /\ latest'[code] = new
      /\ \A c \in Codes : c # code => latest'[c] = latest[c]
  BY <1>1, <1>2, <1>3
<1>6. \A t \in Saves : saves[t].phase # "idle" => saves[t].code # code
  BY <1>1 DEF IsMutating
<1>7. \A t \in Saves : saves'[t].phase # "idle" => saves'[t].code \in Codes
  BY <1>2, <1>4 DEF SavesSound
<1>8. \A t, u \in Saves : saves'[t].phase # "idle" /\ saves'[u].phase # "idle"
                           /\ saves'[t].code = saves'[u].code => t = u
  <2> SUFFICES ASSUME NEW t \in Saves, NEW u \in Saves, saves'[t].phase # "idle",
                      saves'[u].phase # "idle", saves'[t].code = saves'[u].code
               PROVE  t = u
    OBVIOUS
  <2>1. CASE t # s /\ u # s
    BY <1>4, <2>1 DEF SavesSound
  <2>2. CASE t = s \/ u = s
    BY <1>2, <1>4, <1>6, <2>2
  <2> QED BY <2>1, <2>2
<1>9. \A t \in Saves : saves'[t].phase # "idle" => latest'[saves'[t].code].status = "pending"
  BY <1>2, <1>4, <1>5, <1>6 DEF SavesSound
<1>10. \A t \in Saves : saves'[t].phase # "idle" => latest'[saves'[t].code].id = saves'[t].id
  BY <1>2, <1>4, <1>5, <1>6 DEF SavesSound
<1>11. \A t \in Saves : saves'[t].phase = "stored" /\ saves'[t].code \notin others'
                           => mapped'[saves'[t].code] = saves'[t].id
  BY <1>1, <1>2, <1>4, <1>6 DEF SavesSound
<1>12. \A c \in Codes \ others' : latest'[c].status = "success" => mapped'[c] = latest'[c].id
  BY <1>1, <1>2, <1>5 DEF SavesSound
<1> QED BY <1>1, <1>3, <1>4, <1>5, <1>7, <1>8, <1>9, <1>10, <1>11, <1>12 DEF SavesSound

LEMMA StoreSound ==
    ASSUME SavesSound(mapped, saves, latest, others), NEW s \in Saves, StoreMapping(s)
    PROVE  SavesSound(mapped', saves', latest', others')
<1> DEFINE row == saves[s]
           new == [saves[s] EXCEPT !.phase = "stored"]
<1>1. /\ row.phase = "sent" /\ mapped' = [mapped EXCEPT ![row.code] = row.id]
      /\ saves' = [saves EXCEPT ![s].phase = "stored"]
      /\ latest' = latest /\ others' = others
  BY DEF StoreMapping
<1>2. /\ mapped \in [Codes -> MappedIds] /\ saves \in [Saves -> SaveRow]
      /\ latest \in [Codes -> LatestRow] /\ others \subseteq Codes
  BY DEF SavesSound
<1>3. row \in SaveRow /\ row.code \in Codes /\ row.id \in MappedIds
  <2>1. row.code \in Codes
    BY <1>1 DEF SavesSound
  <2> QED BY <1>2, <2>1 DEF SaveRow
<1>4. saves' = [saves EXCEPT ![s] = new]
  BY <1>1
<1>5. new \in SaveRow /\ new.phase = "stored" /\ new.code = row.code /\ new.id = row.id
  BY <1>3 DEF SaveRow
<1> HIDE DEF new, row
<1>6. /\ saves' \in [Saves -> SaveRow] /\ saves'[s] = new
      /\ \A t \in Saves : t # s => saves'[t] = saves[t]
  BY <1>4, <1>5, <1>2
<1>7. /\ mapped' \in [Codes -> MappedIds] /\ mapped'[row.code] = row.id
      /\ \A c \in Codes : c # row.code => mapped'[c] = mapped[c]
  BY <1>1, <1>3, <1>2
<1>8. row = saves[s] /\ row.phase # "idle"
  BY <1>1 DEF row
<1>9. /\ \A t \in Saves : saves'[t].phase # "idle" <=> saves[t].phase # "idle"
      /\ \A t \in Saves : saves'[t].code = saves[t].code
      /\ \A t \in Saves : saves'[t].id = saves[t].id
  BY <1>6, <1>5, <1>8
<1>10. \A t \in Saves : saves[t].phase # "idle" /\ t # s => saves[t].code # row.code
  BY <1>8 DEF SavesSound
<1>11. \A t \in Saves : saves'[t].phase = "stored" /\ saves'[t].code \notin others
                          => mapped'[saves'[t].code] = saves'[t].id
  <2> SUFFICES ASSUME NEW t \in Saves, saves'[t].phase = "stored", saves'[t].code \notin others
               PROVE  mapped'[saves'[t].code] = saves'[t].id
    OBVIOUS
  <2>1. CASE t = s
    BY <1>6, <1>7, <1>5, <2>1
  <2>2. CASE t # s
    <3>1. saves'[t] = saves[t] /\ saves[t].phase = "stored" /\ saves[t].phase # "idle"
      BY <1>6, <2>2
    <3>2. saves[t].code \in Codes /\ saves[t].code # row.code
      BY <1>10, <2>2, <3>1 DEF SavesSound
    <3>3. mapped[saves[t].code] = saves[t].id
      BY <3>1 DEF SavesSound
    <3> QED BY <1>7, <3>1, <3>2, <3>3
  <2> QED BY <2>1, <2>2
<1>12. \A c \in Codes \ others : latest[c].status = "success" => mapped'[c] = latest[c].id
  <2>1. latest[row.code].status = "pending"
    BY <1>8 DEF SavesSound
  <2> QED BY <1>7, <2>1 DEF SavesSound
<1>13. \A t, u \in Saves : saves'[t].phase # "idle" /\ saves'[u].phase # "idle"
                           /\ saves'[t].code = saves'[u].code => t = u
  BY <1>9 DEF SavesSound
<1>14. \A t \in Saves : saves'[t].phase # "idle" => latest[saves'[t].code].status = "pending"
  BY <1>9 DEF SavesSound
<1>15. \A t \in Saves : saves'[t].phase # "idle" => latest[saves'[t].code].id = saves'[t].id
  BY <1>9 DEF SavesSound
<1>16. \A t \in Saves : saves'[t].phase # "idle" => saves'[t].code \in Codes
  BY <1>9 DEF SavesSound
<1> QED BY <1>1, <1>2, <1>6, <1>7, <1>11, <1>12, <1>13, <1>14, <1>15, <1>16 DEF SavesSound

\* A save ends, and the latest of its code says how: well only if it was stored.
LEMMA EndSound ==
    ASSUME SavesSound(mapped, saves, latest, others), NEW s \in Saves,
           NEW end \in {"success", "error"},
           saves[s].phase # "idle", end = "success" => saves[s].phase = "stored",
           saves' = [saves EXCEPT ![s] = NoSave],
           latest' = [latest EXCEPT ![saves[s].code].status = end],
           mapped' = mapped, others' = others
    PROVE  SavesSound(mapped', saves', latest', others')
<1> DEFINE code == saves[s].code
           new == [latest[code] EXCEPT !.status = end]
<1>1. /\ mapped \in [Codes -> MappedIds] /\ saves \in [Saves -> SaveRow]
      /\ latest \in [Codes -> LatestRow] /\ others \subseteq Codes
  BY DEF SavesSound
<1>2. code \in Codes
  BY DEF SavesSound
<1>3. latest' = [latest EXCEPT ![code] = new]
  OBVIOUS
<1>4. new \in LatestRow /\ new.status = end /\ new.id = latest[code].id
  BY <1>2, <1>1 DEF LatestRow
<1>5. NoSave \in SaveRow /\ NoSave.phase = "idle"
  BY DEF NoSave, SaveRow, MappedIds
<1>6. \A t \in Saves : saves[t].phase # "idle" /\ t # s => saves[t].code # code
  BY DEF SavesSound
<1>7. latest[code].id = saves[s].id
  BY DEF SavesSound
<1>8. saves[s].phase = "stored" /\ code \notin others => mapped[code] = saves[s].id
  BY DEF SavesSound
<1> HIDE DEF new, code
<1>9. /\ saves' \in [Saves -> SaveRow] /\ saves'[s] = NoSave
      /\ \A t \in Saves : t # s => saves'[t] = saves[t]
  BY <1>5, <1>1
<1>10. /\ latest' \in [Codes -> LatestRow] /\ latest'[code] = new
      /\ \A c \in Codes : c # code => latest'[c] = latest[c]
  BY <1>3, <1>2, <1>4, <1>1
<1>11. \A t \in Saves : saves'[t].phase # "idle"
          => t # s /\ saves'[t] = saves[t] /\ saves[t].code # code
  BY <1>9, <1>6, <1>5
<1>12. \A t \in Saves : saves'[t].phase # "idle" => saves'[t].code \in Codes
  BY <1>11 DEF SavesSound
<1>13. \A t, u \in Saves : saves'[t].phase # "idle" /\ saves'[u].phase # "idle"
                           /\ saves'[t].code = saves'[u].code => t = u
  BY <1>11 DEF SavesSound
<1>14. \A t \in Saves : saves'[t].phase # "idle" => latest'[saves'[t].code].status = "pending"
  BY <1>10, <1>11, <1>12 DEF SavesSound
<1>15. \A t \in Saves : saves'[t].phase # "idle" => latest'[saves'[t].code].id = saves'[t].id
  BY <1>10, <1>11, <1>12 DEF SavesSound
<1>16. \A t \in Saves : saves'[t].phase = "stored" /\ saves'[t].code \notin others
                           => mapped[saves'[t].code] = saves'[t].id
  BY <1>11 DEF SavesSound
<1>17. \A c \in Codes \ others : latest'[c].status = "success" => mapped[c] = latest'[c].id
  <2> SUFFICES ASSUME NEW c \in Codes, c \notin others, latest'[c].status = "success"
               PROVE  mapped[c] = latest'[c].id
    OBVIOUS
  <2>1. CASE c = code
    BY <1>10, <1>4, <1>7, <1>8, <2>1
  <2>2. CASE c # code
    BY <1>10, <2>2 DEF SavesSound
  <2> QED BY <2>1, <2>2
<1> QED BY <1>1, <1>9, <1>10, <1>12, <1>13, <1>14, <1>15, <1>16, <1>17 DEF SavesSound

LEMMA BankTypesSoundInit == BankTypesInit => BankTypesSound
<1> SUFFICES ASSUME BankTypesInit PROVE BankTypesSound
  OBVIOUS
<1>1. /\ mapped = [code \in Codes |-> 0] /\ mappings = 0
      /\ saves = [s \in Saves |-> NoSave]
      /\ latest = [code \in Codes |-> [status |-> "none", id |-> 0]]
      /\ others = {} /\ ownMapping = 0
  BY DEF BankTypesInit
<1>2. SavesSound(mapped, saves, latest, others)
  <2>1. /\ NoSave \in SaveRow /\ NoSave.phase = "idle"
        /\ [status |-> "none", id |-> 0] \in LatestRow /\ 0 \in MappedIds
    BY DEF NoSave, SaveRow, LatestRow, MappedIds
  <2> QED BY <1>1, <2>1 DEF SavesSound
<1>3. PICK active \in BOOLEAN :
        /\ place = [active |-> active, filter |-> "all", page |-> 1, moves |-> 0]
        /\ sources = [pk \in Keys |-> IF IsShown(pk) THEN Fetch(Query) ELSE Query]
  BY DEF BankTypesInit
<1>4. place \in Place
  BY <1>3, BankTypesAssumption, PageCount DEF Place
<1>5. /\ Query \in QueryRow(PageData) /\ Fetch(Query) \in QueryRow(PageData)
      /\ Query.data = NoData /\ Fetch(Query).data = NoData
      /\ Query.phase = "idle" /\ Fetch(Query).phase = "sent"
  <2>1. Query \in QueryRow(PageData)
    BY PageDatum DEF Query, QueryRow, QueryPhases
  <2>2. Query.data = NoData /\ Query.phase = "idle"
    BY DEF Query
  <2> HIDE DEF Query
  <2>3. Fetch(Query) \in QueryRow(PageData)
    BY <2>1, PageDatum, QueryTyped
  <2>4. Fetch(Query).data = NoData /\ Fetch(Query).phase = "sent"
    BY <2>1, <2>2 DEF Fetch, Fetching, QueryRow
  <2> QED BY <2>1, <2>2, <2>3, <2>4
<1>6. sources \in PageQueries
  BY <1>3, <1>5 DEF PageQueries
<1>7. \A pk \in Keys : sources[pk].data = NoData /\ sources[pk].phase # "read"
  BY <1>3, <1>5
<1>8. \A pk \in Keys : \A t : Caught(sources[pk], 0, t)
  BY <1>7 DEF Caught, Kept, Brought, Has
<1>9. PagesSound(sources, place, 0)
  <2>1. KeyOf(place) \in Keys
    BY <1>4, PlaceKey
  <2>2. Existing(sources[KeyOf(place)], place.page)
    BY <1>7, <2>1 DEF Existing, Has
  <2> QED BY <1>4, <1>6, <1>8, <2>2 DEF PagesSound, Following
<1> QED BY <1>1, <1>2, <1>9, BankTypesAssumption DEF BankTypesSound

LEMMA BankTypesSoundStep == BankTypesSound /\ [BankTypesNext]_bankTypesVars => BankTypesSound'
<1> SUFFICES ASSUME BankTypesSound, [BankTypesNext]_bankTypesVars PROVE BankTypesSound'
  OBVIOUS
<1>1. /\ mappings \in 0..MaxMappings /\ ownMapping \in 0..mappings
      /\ mappings \in Nat /\ ownMapping \in Nat /\ ownMapping <= mappings
      /\ PagesSound(sources, place, ownMapping)
      /\ SavesSound(mapped, saves, latest, others)
  BY BankTypesAssumption DEF BankTypesSound
<1>2. /\ sources \in PageQueries /\ place \in Place /\ KeyOf(place) \in Keys
      /\ Following(sources, place, ownMapping)
      /\ \A pk \in Keys : /\ sources[pk] \in QueryRow(PageData)
                            /\ Caught(sources[pk], ownMapping, Open(place, pk))
  BY <1>1, PlaceKey DEF PagesSound, PageQueries, Following
<1>3. /\ mapped \in [Codes -> MappedIds] /\ saves \in [Saves -> SaveRow]
      /\ latest \in [Codes -> LatestRow] /\ others \subseteq Codes
  BY <1>1 DEF SavesSound
<1>4. ASSUME UNCHANGED <<mapped, mappings, saves, latest, others, ownMapping>>,
             PagesSound(sources', place', ownMapping)
      PROVE  BankTypesSound'
  BY <1>1, <1>4 DEF BankTypesSound
<1>5. ASSUME NEW next \in Place, MovedTo(next, sources),
             UNCHANGED <<mapped, mappings, saves, latest, others, ownMapping>>
      PROVE  BankTypesSound'
  BY <1>5, <1>4, <1>2, MovedSound
<1>6. ASSUME UNCHANGED <<mappings, ownMapping, sources, place>>,
             SavesSound(mapped', saves', latest', others')
      PROVE  BankTypesSound'
  BY <1>1, <1>6 DEF BankTypesSound
<1>7. ASSUME NEW pk \in Keys, NEW new \in QueryRow(PageData),
             sources' = [sources EXCEPT ![pk] = new],
             new.data = sources[pk].data, \A t : Caught(new, ownMapping, t),
             UNCHANGED <<mapped, mappings, place, saves, latest, others, ownMapping>>
      PROVE  BankTypesSound'
  <2>1. PagesSound(sources', place', ownMapping)
    BY <1>1, <1>7, PageChanged
  <2> QED BY <1>4, <1>7, <2>1
<1>8. CASE SwitchView
  <2> DEFINE next == [place EXCEPT !.active = ~@, !.moves = @ + 1]
  <2>1. next \in Place
    BY <1>2, PlaceMoved
  <2>2. /\ MovedTo(next, sources)
        /\ UNCHANGED <<mapped, mappings, saves, latest, others, ownMapping>>
    BY <1>8 DEF SwitchView
  <2> HIDE DEF next
  <2> QED BY <1>5, <2>1, <2>2
<1>9. CASE SetFilter
  <2>1. PICK filter \in Filters \ {place.filter} :
          MovedTo([place EXCEPT !.filter = filter, !.page = 1, !.moves = @ + 1], sources)
    BY <1>9 DEF SetFilter
  <2> DEFINE next == [place EXCEPT !.filter = filter, !.page = 1, !.moves = @ + 1]
  <2>2. next \in Place
    BY <1>2, PlaceMoved
  <2>3. /\ MovedTo(next, sources)
        /\ UNCHANGED <<mapped, mappings, saves, latest, others, ownMapping>>
    BY <1>9, <2>1 DEF SetFilter
  <2> HIDE DEF next
  <2> QED BY <1>5, <2>2, <2>3
<1>10. CASE TurnPage
  <2> DEFINE q == sources[KeyOf(place)]
  <2>1. PICK page \in {place.page - 1, place.page + 1} :
          /\ Has(q) /\ page \in 1..TotalPages(q.data)
          /\ MovedTo([place EXCEPT !.page = page, !.moves = @ + 1], sources)
    BY <1>10 DEF TurnPage
  <2>2. TotalPages(q.data) \in 1..LastPage
    <3>1. q.data \in PageData /\ q.data # NoData
      BY <1>2, <2>1 DEF QueryRow, Has
    <3> QED BY <3>1, PageDatum
  <2>3. page \in 1..LastPage
    BY <2>1, <2>2, PageCount
  <2> DEFINE next == [place EXCEPT !.page = page, !.moves = @ + 1]
  <2>4. next \in Place
    BY <1>2, <2>3, PlaceMoved
  <2>5. /\ MovedTo(next, sources)
        /\ UNCHANGED <<mapped, mappings, saves, latest, others, ownMapping>>
    BY <1>10, <2>1 DEF TurnPage
  <2> HIDE DEF next
  <2> QED BY <1>5, <2>4, <2>5
<1>11. CASE RetrySources
  <2> DEFINE pk == KeyOf(place)
             new == Fetch(sources[pk])
  <2>1. /\ sources' = [sources EXCEPT ![pk] = new]
        /\ UNCHANGED <<mapped, mappings, place, saves, latest, others, ownMapping>>
    BY <1>11 DEF RetrySources
  <2>2. new \in QueryRow(PageData)
    BY <1>2, PageDatum, QueryTyped
  <2>3. new.data = sources[pk].data
    BY <1>2 DEF Fetch, QueryRow
  <2>4. \A t : Caught(new, ownMapping, t)
    BY <1>2, PageDatum, CaughtFetched
  <2> HIDE DEF new
  <2> QED BY <1>7, <1>2, <2>1, <2>2, <2>3, <2>4
<1>12. CASE MapElsewhere
  <2>1. PICK code \in Codes : \E id \in (Assignable \cup {0}) \ {mapped[code]} :
          mapped' = [mapped EXCEPT ![code] = id] /\ others' = others \cup {code}
    BY <1>12 DEF MapElsewhere
  <2>2. PICK id \in MappedIds :
          mapped' = [mapped EXCEPT ![code] = id] /\ others' = others \cup {code}
    BY <2>1 DEF MappedIds
  <2>3. /\ mappings' = mappings + 1 /\ mappings < MaxMappings
        /\ UNCHANGED <<place, sources, saves, latest, ownMapping>>
    BY <1>12 DEF MapElsewhere
  <2>4. /\ mapped' \in [Codes -> MappedIds] /\ others' \subseteq Codes
        /\ \A c \in Codes \ others' : mapped'[c] = mapped[c] /\ c \notin others
    BY <1>3, <2>2
  <2>5. SavesSound(mapped', saves, latest, others')
    <3>1. \A s \in Saves : saves[s].phase = "stored" /\ saves[s].code \notin others'
                            => mapped'[saves[s].code] = saves[s].id
      <4> SUFFICES ASSUME NEW s \in Saves, saves[s].phase = "stored", saves[s].code \notin others'
                   PROVE  mapped'[saves[s].code] = saves[s].id
        OBVIOUS
      <4>1. saves[s].code \in Codes
        BY <1>1 DEF SavesSound
      <4> QED BY <1>1, <2>4, <4>1 DEF SavesSound
    <3>2. \A c \in Codes \ others' : latest[c].status = "success" => mapped'[c] = latest[c].id
      BY <1>1, <2>4 DEF SavesSound
    <3> QED BY <1>1, <2>4, <3>1, <3>2 DEF SavesSound
  <2>6. mappings' \in 0..MaxMappings /\ ownMapping' \in 0..mappings'
    BY <1>1, <2>3, BankTypesAssumption
  <2> QED BY <1>1, <2>3, <2>5, <2>6 DEF BankTypesSound
<1>13. ASSUME NEW pk \in Keys, ReadSources(pk) PROVE BankTypesSound'
  <2> DEFINE d == SourcePage(pk[1], pk[2])
             new == ReadAt(sources[pk], d)
  <2>1. /\ sources' = [sources EXCEPT ![pk] = new]
        /\ UNCHANGED <<mapped, mappings, place, saves, latest, others, ownMapping>>
    BY <1>13 DEF ReadSources
  <2>2. d \in PageData /\ d.at = mappings
    BY <1>1, <1>3, SourcePageDatum
  <2> HIDE DEF d
  <2>3. ~(d.at < ownMapping)
    BY <1>1, <2>2
  <2>4. new \in QueryRow(PageData)
    BY <1>2, <2>2, PageDatum, QueryTyped
  <2>5. new.data = sources[pk].data
    BY <1>2 DEF ReadAt, QueryRow
  <2>6. \A t : Caught(new, ownMapping, t)
    BY <1>2, <2>3, PageDatum, CaughtRead
  <2> HIDE DEF new
  <2> QED BY <1>7, <2>1, <2>4, <2>5, <2>6
<1>14. ASSUME NEW pk \in Keys, SourcesArrive(pk) PROVE BankTypesSound'
  <2> DEFINE new == Received(sources[pk], sources[pk].got)
             queries == [sources EXCEPT ![pk] = new]
  <2>1. /\ sources[pk].phase = "read" /\ MovedTo(place, queries)
        /\ UNCHANGED <<mapped, mappings, saves, latest, others, ownMapping>>
    BY <1>14 DEF SourcesArrive
  <2>2. new \in QueryRow(PageData)
    <3>1. sources[pk].got \in PageData
      BY <1>2 DEF QueryRow
    <3> QED BY <1>2, <3>1, PageDatum, QueryTyped
  <2>3. \A t : Caught(new, ownMapping, t)
    BY <1>2, <2>1, PageDatum, CaughtReceived
  <2> HIDE DEF new
  <2>4. /\ queries \in PageQueries /\ queries[pk] = new
        /\ \A k \in Keys : k # pk => queries[k] = sources[k]
    BY <1>2, <2>2 DEF PageQueries
  <2> HIDE DEF queries
  <2>5. Following(queries, place, ownMapping)
    BY <1>2, <2>3, <2>4 DEF Following
  <2>6. PagesSound(sources', place', ownMapping)
    BY <1>2, <2>1, <2>4, <2>5, MovedSound
  <2> QED BY <1>4, <2>1, <2>6
<1>15. ASSUME NEW pk \in Keys, SourcesFail(pk) PROVE BankTypesSound'
  <2> DEFINE new == Failed(sources[pk])
  <2>1. /\ sources' = [sources EXCEPT ![pk] = new]
        /\ UNCHANGED <<mapped, mappings, place, saves, latest, others, ownMapping>>
    BY <1>15 DEF SourcesFail
  <2>2. new \in QueryRow(PageData)
    BY <1>2, PageDatum, QueryTyped
  <2>3. new.data = sources[pk].data
    BY <1>2 DEF Failed, QueryRow
  <2>4. \A t : Caught(new, ownMapping, t)
    BY <1>2, PageDatum, CaughtFailed
  <2> HIDE DEF new
  <2> QED BY <1>7, <2>1, <2>2, <2>3, <2>4
<1>16. ASSUME NEW s \in Saves, Pick(s) \/ RetrySave(s) PROVE BankTypesSound'
  <2> DEFINE q == sources[KeyOf(place)]
  <2>1. \A row \in q.data.rows : Has(q) => row.code \in Codes /\ row.id \in MappedIds
    <3> SUFFICES ASSUME NEW row \in q.data.rows, Has(q)
                 PROVE  row.code \in Codes /\ row.id \in MappedIds
      OBVIOUS
    <3>1. q.data \in PageData /\ q.data # NoData
      BY <1>2 DEF QueryRow, Has
    <3>2. row \in CodeRow
      BY <3>1, PageDatum
    <3> QED BY <3>2 DEF CodeRow
  <2>2. \E code \in Codes, id \in MappedIds : Mutate(s, code, id)
    <3>1. CASE Pick(s)
      <4>1. PICK row \in q.data.rows :
               \E id \in (Assignable \cup {0}) \ {row.id} : Mutate(s, row.code, id)
        BY <3>1 DEF Pick
      <4>2. Has(q)
        BY <3>1 DEF Pick
      <4> QED BY <2>1, <4>1, <4>2 DEF MappedIds
    <3>2. CASE RetrySave(s)
      <4>1. PICK row \in q.data.rows : Mutate(s, row.code, latest[row.code].id)
        BY <3>2 DEF RetrySave
      <4>2. Has(q)
        BY <3>2 DEF RetrySave
      <4>3. row.code \in Codes
        BY <2>1, <4>1, <4>2
      <4>4. latest[row.code].id \in MappedIds
        BY <1>3, <4>3 DEF LatestRow
      <4> QED BY <4>1, <4>3, <4>4
    <3> QED BY <1>16, <3>1, <3>2
  <2>3. PICK code \in Codes, id \in MappedIds : Mutate(s, code, id)
    BY <2>2
  <2>4. SavesSound(mapped', saves', latest', others')
    BY <1>1, <2>3, MutateSound
  <2>5. UNCHANGED <<mappings, ownMapping, sources, place>>
    BY <2>3 DEF Mutate
  <2> QED BY <1>6, <2>4, <2>5
<1>17. ASSUME NEW s \in Saves, StoreMapping(s) PROVE BankTypesSound'
  <2>1. /\ mappings' = mappings + 1 /\ mappings < MaxMappings
        /\ UNCHANGED <<place, sources, ownMapping>>
    BY <1>17 DEF StoreMapping
  <2>2. SavesSound(mapped', saves', latest', others')
    BY <1>1, <1>17, StoreSound
  <2>3. mappings' \in 0..MaxMappings /\ ownMapping' \in 0..mappings'
    BY <1>1, <2>1, BankTypesAssumption
  <2> QED BY <1>1, <2>1, <2>2, <2>3 DEF BankTypesSound
<1>18. ASSUME NEW s \in Saves, SaveArrives(s) PROVE BankTypesSound'
  <2>1. /\ saves[s].phase = "stored" /\ saves' = [saves EXCEPT ![s] = NoSave]
        /\ latest' = [latest EXCEPT ![saves[s].code].status = "success"]
        /\ sources' = [pk \in Keys |->
               IF sources[pk] = Query THEN Query ELSE Invalidated(sources[pk], IsShown(pk))]
        /\ ownMapping' = mappings
        /\ mapped' = mapped /\ mappings' = mappings /\ place' = place /\ others' = others
    BY <1>18 DEF SaveArrives
  <2>2. SavesSound(mapped', saves', latest', others')
    BY <1>1, <2>1, EndSound
  <2>3. ASSUME NEW pk \in Keys
        PROVE  /\ sources'[pk] \in QueryRow(PageData)
               /\ sources'[pk].data = sources[pk].data
               /\ Caught(sources'[pk], mappings, Open(place, pk))
    <3>1. CASE sources[pk] = Query
      <4>1. sources'[pk] = Query
        BY <2>1, <3>1
      <4>2. Query.data = NoData /\ Query.phase = "idle"
        BY DEF Query
      <4>3. Caught(Query, mappings, Open(place, pk))
        BY <4>2 DEF Caught, Kept, Brought, Has
      <4> HIDE DEF Query
      <4> QED BY <1>2, <3>1, <4>1, <4>3
    <3>2. CASE sources[pk] # Query
      <4> DEFINE active == IsShown(pk)
      <4>1. sources'[pk] = Invalidated(sources[pk], active)
        BY <2>1, <3>2
      <4>2. active \in BOOLEAN
        BY <1>2 DEF IsShown, Place
      <4>3. Open(place, pk) => active
        BY DEF Open, IsShown
      <4> HIDE DEF active
      <4>4. Invalidated(sources[pk], active) \in QueryRow(PageData)
        BY <1>2, PageDatum, QueryTyped
      <4>5. Invalidated(sources[pk], active).data = sources[pk].data
        BY <1>2, InvalidatedData
      <4>6. Caught(Invalidated(sources[pk], active), mappings, active)
        BY <1>2, <4>2, PageDatum, CaughtInvalidated
      <4>7. Caught(Invalidated(sources[pk], active), mappings, Open(place, pk))
        BY <4>3, <4>6, CaughtLess
      <4> QED BY <4>1, <4>4, <4>5, <4>7
    <3> QED BY <3>1, <3>2
  <2>4. sources' \in PageQueries
    BY <2>1, <2>3 DEF PageQueries
  <2>5. Existing(sources'[KeyOf(place)], place.page)
    BY <1>1, <1>2, <2>3 DEF PagesSound, Existing, Has
  <2>6. PagesSound(sources', place, mappings)
    BY <1>2, <2>3, <2>4, <2>5 DEF PagesSound, Following
  <2> QED BY <1>1, <2>1, <2>2, <2>6 DEF BankTypesSound
<1>19. ASSUME NEW s \in Saves, SaveFails(s) PROVE BankTypesSound'
  <2>1. /\ saves[s].phase # "idle" /\ saves' = [saves EXCEPT ![s] = NoSave]
        /\ latest' = [latest EXCEPT ![saves[s].code].status = "error"]
        /\ mapped' = mapped /\ others' = others
        /\ UNCHANGED <<mappings, ownMapping, sources, place>>
    BY <1>19 DEF SaveFails
  <2>2. SavesSound(mapped', saves', latest', others')
    BY <1>1, <2>1, EndSound
  <2> QED BY <1>6, <2>1, <2>2
<1>20. CASE UNCHANGED bankTypesVars
  BY <1>1, <1>20 DEF bankTypesVars, BankTypesSound
<1> QED BY <1>8, <1>9, <1>10, <1>11, <1>12, <1>13, <1>14, <1>15, <1>16, <1>17, <1>18, <1>19, <1>20
        DEF BankTypesNext

LEMMA BankTypesKeep == BankTypesSound => BankTypesInvariant
<1> SUFFICES ASSUME BankTypesSound PROVE BankTypesInvariant
  OBVIOUS
<1> DEFINE q == sources[KeyOf(place)]
<1>1. /\ mappings \in 0..MaxMappings /\ place \in Place /\ KeyOf(place) \in Keys
      /\ Caught(q, ownMapping, Open(place, KeyOf(place)))
      /\ Existing(q, place.page) /\ SavesSound(mapped, saves, latest, others)
  BY PlaceKey DEF BankTypesSound, PagesSound, Following
<1>2. SavedIsStored
  BY <1>1 DEF SavedIsStored, SavesSound
<1>3. PageExists
  BY <1>1 DEF PageExists, Existing
<1>4. RowsFollow
  <2> SUFFICES ASSUME place.active, Has(q), q.data.at < ownMapping
               PROVE  Fetching(q) \/ q.failed \/ q.overtaken
    BY DEF RowsFollow
  <2>1. Open(place, KeyOf(place))
    BY DEF Open
  <2> HIDE DEF q
  <2> QED BY <1>1, <2>1 DEF Caught, Kept, Excused
<1>5. place.page \in 1..LastPage
  BY <1>1, PlaceKey
<1> QED BY <1>1, <1>2, <1>3, <1>4, <1>5 DEF BankTypesInvariant

\* Both parts of the categories page, for any number of categories, codes, edits,
\* saves and moves: a dialog is open while its change is under way, the list has the
\* change a dialog closed upon; the assignment a code shows as saved is stored unless
\* another was sent since, the page that is open exists, and its rows are not from
\* before the latest save this tab had the answer of, unless that can be told.
THEOREM CategoryPagesKeep == CategoryPagesSpec => []CategoryPagesInvariant
<1>1. DialogsSpec => []DialogsInvariant
  <2>1. DialogsInit => DialogsSound
    BY DialogsSoundInit
  <2>2. DialogsSound /\ [DialogsNext]_dialogsVars => DialogsSound'
    BY DialogsSoundStep
  <2>3. DialogsSound => DialogsInvariant
    BY DialogsKeep
  <2> QED BY <2>1, <2>2, <2>3, PTL DEF DialogsSpec
<1>2. BankTypesSpec => []BankTypesInvariant
  <2>1. BankTypesInit => BankTypesSound
    BY BankTypesSoundInit
  <2>2. BankTypesSound /\ [BankTypesNext]_bankTypesVars => BankTypesSound'
    BY BankTypesSoundStep
  <2>3. BankTypesSound => BankTypesInvariant
    BY BankTypesKeep
  <2> QED BY <2>1, <2>2, <2>3, PTL DEF BankTypesSpec
<1>3. DialogsInvariant /\ BankTypesInvariant => CategoryPagesInvariant
  BY DEF CategoryPagesInvariant
<1> QED BY <1>1, <1>2, <1>3, PTL DEF CategoryPagesSpec
-----------------------------------------------------------------------------
(* The links of an expense *)

LinkRow == [id : Nat, income : Incomes \cup {0}, amount : Nat]
LinkSets == {ls \in SUBSET LinkRow : IsFiniteSet(ls)}
Answer == [at : Nat, links : LinkSets]
Answers == Answer \cup {NoData}
DropPhases == {"idle", "reading", "sent", "stored", "answered", "done", "failed"}
UndoPhases == {"idle", "sent", "stored", "answered", "done", "failed"}
DropState == [phase : DropPhases, income : Incomes \cup {0}, amount : Nat, made : Nat,
              got : Answers, link : LinkRow]
UndoState == [phase : UndoPhases, id : Nat, got : Answers]
SheetState == [open : BOOLEAN, mount : Nat, form : LinkRow]
EditState == [phase : {"idle", "sent", "stored", "answered"}, mount : Nat,
              kind : {"link", "unlink"}, link : LinkRow, got : Answers]

(* What is left of the expense *)

RowAmount == [l \in LinkRow |-> l.amount]

LEMMA RowFields == \A l \in LinkRow : l.id \in Nat /\ l.amount \in Nat
                                  /\ RowAmount[l] = l.amount
BY DEF LinkRow, RowAmount

LEMMA TotalIsSum ==
    ASSUME NEW ls \in LinkSets
    PROVE  LinkedTotal(ls) = SumOf(RowAmount, ls)
<1>1. IsFiniteSet(ls) /\ ls \subseteq LinkRow
  BY DEF LinkSets
<1> DEFINE Iterates(g) == g = [s \in SUBSET ls |-> IF s = {} THEN 0
               ELSE (CHOOSE x \in s : TRUE).amount + g[s \ {CHOOSE x \in s : TRUE}]]
           total == CHOOSE g : Iterates(g)
<1>2. LinkedTotal(ls) = total[ls]
  BY DEF LinkedTotal, MapThenSumSet, MapThenFoldSet
<1>3. ASSUME NEW g
      PROVE  Iterates(g) <=> Sums(g, RowAmount, ls)
  <2>1. ASSUME NEW s \in SUBSET ls
        PROVE  (IF s = {} THEN 0
                ELSE (CHOOSE x \in s : TRUE).amount + g[s \ {CHOOSE x \in s : TRUE}])
               = (IF s = {} THEN 0 ELSE RowAmount[OneOf(s)] + g[s \ {OneOf(s)}])
    <3>1. CASE s = {}
      BY <3>1
    <3>2. CASE s # {}
      <4>1. OneOf(s) \in LinkRow
        BY <1>1, <3>2, OneIsMember
      <4>2. RowAmount[OneOf(s)] = OneOf(s).amount
        BY <4>1 DEF RowAmount
      <4> QED BY <3>2, <4>2 DEF OneOf
    <3> QED BY <3>1, <3>2
  <2> QED BY <2>1 DEF Sums
<1> HIDE DEF Iterates
<1>4. Iterates(total)
  <2>1. PICK g : Sums(g, RowAmount, ls)
    BY <1>1, SumsExist
  <2>2. Iterates(g)
    BY <1>3, <2>1
  <2> QED BY <2>2
<1>5. Sums(total, RowAmount, ls)
  BY <1>3, <1>4
<1> HIDE DEF total
<1>6. total[ls] = SumOf(RowAmount, ls)
  BY <1>1, <1>5, SumsGive
<1> QED BY <1>2, <1>6

LEMMA RemainingIsSum ==
    ASSUME NEW ls \in LinkSets
    PROVE  Remaining(ls) = ExpenseAmount - SumOf(RowAmount, ls)
BY TotalIsSum DEF Remaining

LEMMA RemainingFacts ==
    ASSUME NEW ls \in LinkSets
    PROVE  /\ Remaining(ls) \in Int
           /\ \A l \in LinkRow : ls \cup {l} \in LinkSets
                             /\ (l \notin ls => Remaining(ls \cup {l}) = Remaining(ls) - l.amount)
           /\ \A part : part \subseteq ls =>
                 part \in LinkSets /\ Remaining(part) >= Remaining(ls)
<1>1. IsFiniteSet(ls) /\ ls \subseteq LinkRow
  BY DEF LinkSets
<1>2. \A l \in LinkRow : RowAmount[l] = l.amount /\ RowAmount[l] \in Int /\ RowAmount[l] >= 0
  <2>1. ASSUME NEW l \in LinkRow PROVE l.amount \in Int /\ l.amount >= 0 /\ RowAmount[l] = l.amount
    BY RowFields
  <2> QED BY <2>1
<1>3. ExpenseAmount \in Int
  BY ClientAssumption
<1>4. SumOf(RowAmount, ls) \in Int /\ Remaining(ls) = ExpenseAmount - SumOf(RowAmount, ls)
  BY <1>1, <1>2, RemainingIsSum, SumIsInt
<1>5. ASSUME NEW l \in LinkRow
      PROVE  /\ ls \cup {l} \in LinkSets
             /\ l \notin ls => Remaining(ls \cup {l}) = Remaining(ls) - l.amount
  <2>1. ls \cup {l} \in LinkSets
    BY <1>1, FS_AddElement DEF LinkSets
  <2>2. ASSUME l \notin ls PROVE Remaining(ls \cup {l}) = Remaining(ls) - l.amount
    <3>1. \A x \in ls \cup {l} : RowAmount[x] \in Int
      BY <1>1, <1>2
    <3>2. SumOf(RowAmount, ls \cup {l}) = RowAmount[l] + SumOf(RowAmount, ls)
      BY <1>1, <2>2, <3>1, SumAdd
    <3>3. Remaining(ls \cup {l}) = ExpenseAmount - SumOf(RowAmount, ls \cup {l})
      BY <2>1, RemainingIsSum
    <3>4. l.amount \in Int /\ RowAmount[l] = l.amount
      BY <1>2
    <3> QED BY <1>3, <1>4, <3>2, <3>3, <3>4
  <2> QED BY <2>1, <2>2
<1>6. ASSUME NEW part, part \subseteq ls
      PROVE  part \in LinkSets /\ Remaining(part) >= Remaining(ls)
  <2>1. part \in LinkSets /\ IsFiniteSet(part)
    BY <1>1, <1>6, FS_Subset DEF LinkSets
  <2>2. SumOf(RowAmount, part) <= SumOf(RowAmount, ls)
    BY <1>1, <1>2, <1>6, SumOfPart
  <2>3. Remaining(part) = ExpenseAmount - SumOf(RowAmount, part)
    BY <2>1, RemainingIsSum
  <2>4. SumOf(RowAmount, part) \in Int
    BY <1>2, <1>1, <1>6, <2>1, SumIsInt
  <2> QED BY <1>3, <1>4, <2>1, <2>2, <2>3, <2>4
<1>7. Remaining(ls) \in Int
  BY <1>3, <1>4
<1>8. \A l \in LinkRow : ls \cup {l} \in LinkSets
                     /\ (l \notin ls => Remaining(ls \cup {l}) = Remaining(ls) - l.amount)
  BY <1>5
<1>9. \A part : part \subseteq ls =>
         part \in LinkSets /\ Remaining(part) >= Remaining(ls)
  BY <1>6
<1> QED BY <1>7, <1>8, <1>9, Zenon

LEMMA NothingLinked == {} \in LinkSets /\ Remaining({}) >= 0
<1>1. {} \in LinkSets
  BY FS_EmptySet DEF LinkSets
<1>2. Remaining({}) = ExpenseAmount - SumOf(RowAmount, {}) /\ SumOf(RowAmount, {}) = 0
  BY <1>1, RemainingIsSum, SumEmpty
<1>3. ExpenseAmount \in Nat
  BY ClientAssumption
<1> QED BY <1>1, <1>2, <1>3

\* What is offered is a positive amount of an income.
LEMMA OfferIsNat ==
    ASSUME NEW ls \in LinkSets, NEW income \in Suggested(ls)
    PROVE  income \in Incomes /\ OfferedFrom(ls, income) \in Nat
<1>1. income \in Incomes /\ Remaining(ls) > 0
  BY DEF Suggested
<1>2. Remaining(ls) \in Int /\ IncomeAmount[income] \in Nat
  BY <1>1, RemainingFacts, ClientAssumption
<1> QED BY <1>1, <1>2 DEF OfferedFrom, Minor

(* The links *)

LinksKept(ls, n) ==
    /\ ls \in LinkSets /\ n \in 0..MaxChanges
    /\ \A l \in ls : l.id <= n
    /\ Remaining(ls) >= 0

LEMMA LinksBound == MaxChanges \in Nat
  BY ClientAssumption

LEMMA CreateKeeps ==
    ASSUME LinksKept(links, changes), NEW income \in Incomes \cup {0}, NEW amount \in Nat,
           Create(income, amount)
    PROVE  /\ LinksKept(links', changes') /\ changes' = changes + 1
           /\ \A l \in links' : l \in links \/ l.id = changes'
<1> DEFINE n == changes + 1
           l == [id |-> n, income |-> income, amount |-> amount]
<1>1. links \in LinkSets /\ changes \in Int /\ n \in 0..MaxChanges /\ Remaining(links) >= 0
  BY LinksBound DEF LinksKept, Create
<1>2. changes' = n /\ links' = links \cup {l} /\ amount <= Remaining(links)
  BY DEF Create, Accepts
<1>3. l \in LinkRow /\ l.id = n /\ l.amount = amount
  BY <1>1 DEF LinkRow
<1>4. \A k \in links : k.id \in Int /\ k.id <= changes
  BY <1>1, RowFields DEF LinksKept, LinkSets
<1>5. l \notin links
  <2> SUFFICES ASSUME l \in links PROVE FALSE
    OBVIOUS
  <2>1. n <= changes
    BY <1>3, <1>4
  <2> QED BY <1>1, <2>1
<1>6. \A k \in links : k.id <= n
  <2> SUFFICES ASSUME NEW k \in links PROVE k.id <= n
    OBVIOUS
  <2> QED BY <1>1, <1>4
<1>7. n <= n
  BY <1>1
<1> HIDE DEF l, n
<1>8. links \cup {l} \in LinkSets /\ Remaining(links \cup {l}) = Remaining(links) - amount
  BY <1>1, <1>3, <1>5, RemainingFacts
<1>9. Remaining(links \cup {l}) >= 0
  <2>1. Remaining(links) \in Int
    BY <1>1, RemainingFacts
  <2> QED BY <1>2, <1>8, <2>1
<1>10. \A k \in links \cup {l} : k.id <= n /\ (k \in links \/ k.id = n)
  BY <1>3, <1>6, <1>7
<1>11. LinksKept(links \cup {l}, n)
  BY <1>1, <1>8, <1>9, <1>10 DEF LinksKept
<1> QED BY <1>2, <1>10, <1>11 DEF n

LEMMA DeleteKeeps ==
    ASSUME LinksKept(links, changes), NEW id, Delete(id)
    PROVE  /\ LinksKept(links', changes') /\ changes' = changes + 1
           /\ \A l \in links' : l \in links
<1> DEFINE rest == {l \in links : l.id # id}
<1>1. links' = rest /\ changes' = changes + 1 /\ changes' \in 0..MaxChanges /\ changes \in Int
  BY LinksBound DEF LinksKept, Delete
<1>2. rest \subseteq links
  OBVIOUS
<1> HIDE DEF rest
<1>3. rest \in LinkSets /\ Remaining(rest) >= Remaining(links)
  BY <1>2, RemainingFacts DEF LinksKept
<1>4. Remaining(rest) >= 0
  <2>1. Remaining(links) \in Int /\ Remaining(rest) \in Int /\ Remaining(links) >= 0
    BY <1>3, RemainingFacts DEF LinksKept
  <2> QED BY <1>3, <2>1
<1>5. \A l \in rest : l.id <= changes + 1
  <2> SUFFICES ASSUME NEW l \in rest PROVE l.id <= changes + 1
    OBVIOUS
  <2>1. l.id <= changes /\ l \in LinkRow
    BY <1>2 DEF LinksKept, LinkSets
  <2>2. l.id \in Int
    BY <2>1, RowFields
  <2> QED BY <1>1, <2>1, <2>2
<1> QED BY <1>1, <1>2, <1>3, <1>4, <1>5 DEF LinksKept

(* The queries' answers *)

\* A fetch that was answered brings details.
Arrived(q) == q.phase = "read" => q.got # NoData
DetailSound(q, own) ==
    /\ q \in QueryRow(Answers) /\ Arrived(q) /\ Caught(q, own, FALSE)

LEMMA ArrivedKept ==
    ASSUME NEW D, NoData \in D, NEW q, q \in QueryRow(D), Arrived(q)
    PROVE  /\ Arrived(Query) /\ Arrived(Fetch(q)) /\ Arrived(Failed(q))
           /\ \A stale : Arrived(Observed(q, stale))
           /\ \A active : Arrived(Invalidated(q, active))
           /\ \A d : Arrived(Received(q, d)) /\ Arrived(Written(q, d))
           /\ \A d : d # NoData => Arrived(ReadAt(q, d))
<1>1. ASSUME NEW p, p \in QueryRow(D), Arrived(p) PROVE Arrived(Fetch(p))
  BY <1>1 DEF Fetch, Fetching, Arrived, QueryRow
<1>2. Arrived(Query) /\ Arrived(Failed(q))
  BY DEF Query, Failed, Arrived, QueryRow
<1>3. ASSUME NEW stale PROVE Arrived(Observed(q, stale))
  BY <1>1 DEF Observed
<1>4. ASSUME NEW active PROVE Arrived(Invalidated(q, active))
  <2> DEFINE marked == [q EXCEPT !.invalid = TRUE]
             late == [marked EXCEPT !.overtaken = TRUE]
             idle == [marked EXCEPT !.phase = "idle"]
  <2>1. marked \in QueryRow(D) /\ marked.phase = q.phase /\ marked.got = q.got
    BY DEF QueryRow
  <2>2. late.phase = q.phase /\ late.got = q.got
    BY <2>1 DEF QueryRow
  <2>3. idle \in QueryRow(D) /\ idle.phase = "idle"
    BY <2>1 DEF QueryRow, QueryPhases
  <2>4. Invalidated(q, active) \in {late, marked, Fetch(idle), Fetch(marked)}
    BY DEF Invalidated, Refetched
  <2> HIDE DEF marked, late, idle
  <2>5. Arrived(marked) /\ Arrived(late) /\ Arrived(idle)
    BY <2>1, <2>2, <2>3 DEF Arrived
  <2>6. Arrived(Fetch(idle)) /\ Arrived(Fetch(marked))
    BY <1>1, <2>1, <2>3, <2>5
  <2> QED BY <2>4, <2>5, <2>6
<1>5. ASSUME NEW d PROVE Arrived(Received(q, d)) /\ Arrived(Written(q, d))
  <2>1. Received(q, d).phase = "idle"
    BY DEF Received, QueryRow
  <2>2. Written(q, d).phase = q.phase /\ Written(q, d).got = q.got
    BY DEF Written, QueryRow
  <2> QED BY <2>1, <2>2 DEF Arrived
<1>6. ASSUME NEW d, d # NoData PROVE Arrived(ReadAt(q, d))
  BY <1>6 DEF Arrived, ReadAt, QueryRow
<1> QED BY <1>1, <1>2, <1>3, <1>4, <1>5, <1>6

\* An answer of the Worker is written: the query follows it.
LEMMA AppliedSound ==
    ASSUME NEW own, DetailSound(detail, own), NEW d \in Answers, NEW later,
           sheet.open \in BOOLEAN
    PROVE  DetailSound(Applied(d), later)
<1> DEFINE w == Written(detail, d)
<1>1. NoData \in Answers /\ detail \in QueryRow(Answers) /\ Arrived(detail)
  BY DEF Answers, DetailSound
<1>2. w \in QueryRow(Answers) /\ Arrived(w)
  BY <1>1, QueryTyped, ArrivedKept
<1>3. Applied(d) = Invalidated(w, sheet.open)
  BY DEF Applied
<1> HIDE DEF w
<1>4. Applied(d) \in QueryRow(Answers)
  BY <1>1, <1>2, <1>3, QueryTyped
<1>5. Arrived(Applied(d))
  BY <1>1, <1>2, <1>3, ArrivedKept
<1>6. Caught(Applied(d), later, sheet.open)
  BY <1>1, <1>2, <1>3, CaughtInvalidated
<1>7. Caught(Applied(d), later, FALSE)
  BY <1>6, CaughtLess
<1> QED BY <1>4, <1>5, <1>7 DEF DetailSound

(* The drop, its undo, and the sheets' mutations *)

\* What came of the link made is what was sent: while it is only stored, in the
\* Worker's links; then in the answer; then in what "Undo" is offered for.
SentAmount(m, ls) == \A l \in ls : l.id = m.made => l.amount = m.amount
DropSound(m, ls, n) ==
    /\ m \in DropState /\ m.got.at <= n
    /\ m.phase = "stored" => m.made <= n /\ SentAmount(m, ls)
    /\ m.phase = "answered" => m.got # NoData /\ SentAmount(m, m.got.links)
    /\ m.phase = "done" => m.link.income = m.income /\ SentAmount(m, {m.link})
UndoSound(u, n) == u \in UndoState /\ u.got.at <= n
Announced(u, m) == Pending(u) => m.phase = "done" /\ u.id = m.link.id
EditsSound(es, n) ==
    es \in [Slots -> EditState] /\ \A s \in Slots : es[s].got.at <= n

ClientSound ==
    /\ LinksKept(links, changes)
    /\ ownChange \in Nat /\ ownChange <= changes
    /\ DetailSound(detail, ownChange)
    /\ sheet \in SheetState
    /\ EditsSound(sheetEdits, changes)
    /\ DropSound(linkMutation, links, changes)
    /\ UndoSound(undoMutation, changes) /\ Announced(undoMutation, linkMutation)

LinksChanged ==
    /\ LinksKept(links', changes') /\ changes' = changes + 1
    /\ \A l \in links' : l \in links \/ l.id = changes'

LEMMA AnswerAt == \A d \in Answers : d.at \in Int
BY DEF Answers, Answer, NoData

\* What was answered before a change was answered before the next one.
LEMMA StillBefore ==
    ASSUME NEW n \in Nat
    PROVE  /\ \A m, ls : DropSound(m, ls, n) => m.got.at <= n + 1
           /\ \A u : UndoSound(u, n) => UndoSound(u, n + 1)
           /\ \A e : EditsSound(e, n) => EditsSound(e, n + 1)
<1>1. \A d \in Answers : d.at <= n => d.at <= n + 1
  <2> SUFFICES ASSUME NEW d \in Answers, d.at <= n PROVE d.at <= n + 1
    OBVIOUS
  <2>1. d.at \in Int
    BY AnswerAt
  <2> QED BY <2>1
<1>2. \A m, ls : DropSound(m, ls, n) => m.got.at <= n + 1
  BY <1>1 DEF DropSound, DropState
<1>3. \A u : UndoSound(u, n) => UndoSound(u, n + 1)
  BY <1>1 DEF UndoSound, UndoState
<1>4. ASSUME NEW e, EditsSound(e, n) PROVE EditsSound(e, n + 1)
  <2>1. \A s \in Slots : e[s] \in EditState /\ e[s].got.at <= n
    BY <1>4 DEF EditsSound
  <2>2. \A s \in Slots : e[s].got.at <= n + 1
    BY <1>1, <2>1 DEF EditState
  <2> QED BY <1>4, <2>2 DEF EditsSound
<1> QED BY <1>2, <1>3, <1>4

\* A change of the links leaves what was sent before it alone.
LEMMA DropSoundLater ==
    ASSUME NEW m, NEW ls, NEW n \in Nat, DropSound(m, ls, n), NEW after,
           \A l \in after : l \in ls \/ l.id = n + 1
    PROVE  DropSound(m, after, n + 1)
<1>1. m \in DropState /\ m.got.at <= n + 1
  BY StillBefore DEF DropSound
<1>2. m.made \in Nat
  BY <1>1 DEF DropState
<1>3. CASE m.phase = "stored"
  <2>1. m.made <= n /\ SentAmount(m, ls)
    BY <1>3 DEF DropSound
  <2>2. m.made <= n + 1 /\ m.made # n + 1
    BY <1>2, <2>1
  <2>3. SentAmount(m, after)
    BY <2>1, <2>2 DEF SentAmount
  <2> QED BY <1>1, <1>3, <2>2, <2>3 DEF DropSound
<1>4. CASE m.phase # "stored"
  BY <1>1, <1>4 DEF DropSound
<1> QED BY <1>3, <1>4

LEMMA LaterSound ==
    ASSUME ClientSound, LinksChanged
    PROVE  /\ LinksKept(links', changes')
           /\ ownChange <= changes'
           /\ EditsSound(sheetEdits, changes')
           /\ DropSound(linkMutation, links', changes')
           /\ UndoSound(undoMutation, changes')
<1>1. changes \in Nat /\ ownChange \in Nat /\ ownChange <= changes /\ changes' = changes + 1
  BY LinksBound DEF ClientSound, LinksKept, LinksChanged
<1>2. ownChange <= changes'
  BY <1>1
<1>3. EditsSound(sheetEdits, changes') /\ UndoSound(undoMutation, changes')
  BY <1>1, StillBefore DEF ClientSound
<1>4. DropSound(linkMutation, links', changes')
  <2>1. DropSound(linkMutation, links, changes)
    BY DEF ClientSound
  <2>2. \A l \in links' : l \in links \/ l.id = changes + 1
    BY <1>1 DEF LinksChanged
  <2> QED BY <1>1, <2>1, <2>2, DropSoundLater
<1> QED BY <1>2, <1>3, <1>4 DEF LinksChanged

LEMMA Changed ==
    ASSUME ClientSound
    PROVE  /\ \A income \in Incomes \cup {0}, amount \in Nat :
                 Create(income, amount) => LinksChanged
           /\ \A id : Delete(id) => LinksChanged
<1>1. LinksKept(links, changes)
  BY DEF ClientSound
<1>2. ASSUME NEW income \in Incomes \cup {0}, NEW amount \in Nat, Create(income, amount)
      PROVE  LinksChanged
  BY <1>1, <1>2, CreateKeeps DEF LinksChanged
<1>3. ASSUME NEW id, Delete(id) PROVE LinksChanged
  BY <1>1, <1>3, DeleteKeeps DEF LinksChanged
<1> QED BY <1>2, <1>3

LEMMA DetailsAnswer ==
    ASSUME ClientSound
    PROVE  Details \in Answer /\ Details \in Answers /\ Details # NoData
           /\ Details.at = changes /\ Details.links = links
<1>1. changes \in Nat /\ links \in LinkSets
  BY LinksBound DEF ClientSound, LinksKept
<1>2. Details \in Answer /\ Details.at = changes /\ Details.links = links
  BY <1>1 DEF Details, Answer
<1>3. Details # NoData
  BY <1>1, <1>2 DEF NoData
<1> QED BY <1>2, <1>3 DEF Answers

LEMMA NothingTyped ==
    /\ NoLink \in LinkRow /\ NoData \in Answers
    /\ NoDrop \in DropState /\ NoUndo \in UndoState /\ NoEdit \in EditState
<1>1. NoLink \in LinkRow
  BY DEF NoLink, LinkRow
<1>2. NoData \in Answers
  BY DEF Answers
<1>3. NoDrop \in DropState
  BY <1>1, <1>2 DEF NoDrop, DropState, DropPhases
<1>4. NoUndo \in UndoState
  BY <1>2 DEF NoUndo, UndoState, UndoPhases
<1>5. NoEdit \in EditState
  BY <1>1, <1>2 DEF NoEdit, EditState
<1> QED BY <1>1, <1>2, <1>3, <1>4, <1>5

\* A drop that does not wait for an answer of the Worker keeps nothing to compare.
LEMMA DropQuiet ==
    ASSUME NEW m \in DropState, NEW n, NEW ls, m.got.at <= n,
           m.phase \notin {"stored", "answered", "done"}
    PROVE  DropSound(m, ls, n)
BY DEF DropSound

LEMMA NothingSound ==
    ASSUME NEW n \in Nat
    PROVE  /\ \A ls : DropSound(NoDrop, ls, n)
           /\ UndoSound(NoUndo, n)
           /\ NoEdit.got.at <= n
           /\ \A m : Announced(NoUndo, m)
<1>1. NoData.at <= n
  BY DEF NoData
<1>2. \A ls : DropSound(NoDrop, ls, n)
  <2>1. NoDrop.got = NoData /\ NoDrop.phase = "idle"
    BY DEF NoDrop
  <2> QED BY <1>1, <2>1, NothingTyped, DropQuiet
<1>3. UndoSound(NoUndo, n)
  <2>1. NoUndo.got = NoData
    BY DEF NoUndo
  <2> QED BY <1>1, <2>1, NothingTyped DEF UndoSound
<1>4. NoEdit.got.at <= n
  BY <1>1 DEF NoEdit
<1>5. \A m : Announced(NoUndo, m)
  BY DEF Announced, Pending, NoUndo
<1> QED BY <1>2, <1>3, <1>4, <1>5

\* A drop that was decided is sent with an amount, or has failed.
LEMMA DecidedSound ==
    ASSUME NEW m, NEW d \in Answer, NEW ls, NEW k, NEW n, DropSound(m, k, n)
    PROVE  /\ DropSound(Decided(m, d), ls, n)
           /\ Decided(m, d).phase \in {"sent", "failed"}
<1>1. m \in DropState /\ m.got.at <= n /\ d.links \in LinkSets
  BY DEF DropSound, Answer
<1>2. CASE m.income \in Suggested(d.links)
  <2> DEFINE amount == OfferedFrom(d.links, m.income)
             sent == [m EXCEPT !.phase = "sent", !.amount = amount]
  <2>1. amount \in Nat
    BY <1>1, <1>2, OfferIsNat
  <2>2. Decided(m, d) = sent
    BY <1>2 DEF Decided
  <2> HIDE DEF amount
  <2>3. sent \in DropState /\ sent.phase = "sent" /\ sent.got = m.got
    BY <1>1, <2>1 DEF DropState, DropPhases
  <2> HIDE DEF sent
  <2> QED BY <1>1, <2>2, <2>3, DropQuiet
<1>3. CASE m.income \notin Suggested(d.links)
  <2> DEFINE failed == [m EXCEPT !.phase = "failed"]
  <2>1. Decided(m, d) = failed
    BY <1>3 DEF Decided
  <2>2. failed \in DropState /\ failed.phase = "failed" /\ failed.got = m.got
    BY <1>1 DEF DropState, DropPhases
  <2> HIDE DEF failed
  <2> QED BY <1>1, <2>1, <2>2, DropQuiet
<1> QED BY <1>2, <1>3

LEMMA DropFailed ==
    ASSUME NEW m, NEW ls, NEW k, NEW n, DropSound(m, k, n)
    PROVE  /\ DropSound([m EXCEPT !.phase = "failed"], ls, n)
           /\ [m EXCEPT !.phase = "failed"].phase = "failed"
<1> DEFINE failed == [m EXCEPT !.phase = "failed"]
<1>1. m \in DropState /\ m.got.at <= n
  BY DEF DropSound
<1>2. failed \in DropState /\ failed.phase = "failed" /\ failed.got = m.got
  BY <1>1 DEF DropState, DropPhases
<1> HIDE DEF failed
<1>3. DropSound(failed, ls, n)
  BY <1>1, <1>2, DropQuiet
<1> QED BY <1>2, <1>3 DEF failed

\* Whatever is not done cannot be undone, and nothing is being undone.
LEMMA NotAnnounced ==
    ASSUME ClientSound, linkMutation.phase # "done"
    PROVE  \A m : Announced(undoMutation, m)
BY DEF ClientSound, Announced

LEMMA ClientSoundInit == ASSUME CompensationClientInit PROVE ClientSound
<1>1. /\ links = {} /\ changes = 0 /\ detail = Query /\ ownChange = 0
      /\ linkMutation = NoDrop /\ undoMutation = NoUndo
      /\ sheet = [open |-> FALSE, mount |-> 0, form |-> NoLink]
      /\ sheetEdits = [s \in Slots |-> NoEdit]
  BY DEF CompensationClientInit
<1>2. LinksKept({}, 0)
  BY NothingLinked, LinksBound DEF LinksKept
<1>3. DetailSound(Query, 0)
  <2>1. Query \in QueryRow(Answers)
    BY NothingTyped DEF Query, QueryRow, QueryPhases
  <2>2. Arrived(Query)
    BY DEF Query, Arrived
  <2>3. Caught(Query, 0, FALSE)
    BY DEF Query, Caught, Kept, Brought, Has
  <2> QED BY <2>1, <2>2, <2>3 DEF DetailSound
<1>4. sheet \in SheetState
  BY <1>1, NothingTyped DEF SheetState
<1>5. EditsSound(sheetEdits, 0)
  BY <1>1, NothingTyped, NothingSound DEF EditsSound
<1> QED BY <1>1, <1>2, <1>3, <1>4, <1>5, NothingSound DEF ClientSound

LEMMA DropKeeps ==
    ASSUME ClientSound, NEW income \in Incomes, Drop(income) PROVE ClientSound'
<1> DEFINE asked == [NoDrop EXCEPT !.income = income, !.phase = "reading"]
<1>1. changes \in Nat /\ NoDrop \in DropState /\ DropSound(NoDrop, links, changes)
  BY LinksBound, NothingTyped, NothingSound DEF ClientSound, LinksKept
<1>2. DropSound(asked, links, changes) /\ asked.phase = "reading"
  <2>1. asked \in DropState /\ asked.phase = "reading" /\ asked.got = NoDrop.got
    BY <1>1 DEF DropState, DropPhases
  <2>2. NoDrop.got.at <= changes
    BY <1>1 DEF DropSound
  <2> HIDE DEF asked
  <2> QED BY <2>1, <2>2, DropQuiet
<1>3. /\ undoMutation' = NoUndo
      /\ UNCHANGED <<links, changes, sheet, sheetEdits, ownChange>>
      /\ \/ /\ Has(detail) /\ ~detail.invalid
            /\ linkMutation' = Decided(asked, detail.data) /\ detail' = detail
         \/ linkMutation' = asked /\ detail' = Fetch(detail)
  BY DEF Drop
<1> HIDE DEF asked
<1>4. detail \in QueryRow(Answers) /\ Arrived(detail) /\ Caught(detail, ownChange, FALSE)
  BY DEF ClientSound, DetailSound
<1>5. CASE Has(detail) /\ linkMutation' = Decided(asked, detail.data) /\ detail' = detail
  <2>1. detail.data \in Answer
    BY <1>4, <1>5 DEF QueryRow, Has, Answers
  <2>2. DropSound(linkMutation', links, changes)
    BY <1>2, <1>5, <2>1, DecidedSound
  <2> QED BY <1>1, <1>3, <1>5, <2>2, NothingSound DEF ClientSound
<1>6. CASE linkMutation' = asked /\ detail' = Fetch(detail)
  <2>1. DetailSound(Fetch(detail), ownChange)
    <3>1. Fetch(detail) \in QueryRow(Answers) /\ Arrived(Fetch(detail))
      BY <1>4, NothingTyped, QueryTyped, ArrivedKept
    <3>2. \A t : Caught(Fetch(detail), ownChange, t)
      BY <1>4, NothingTyped, CaughtFetched
    <3> QED BY <3>1, <3>2 DEF DetailSound
  <2> QED BY <1>1, <1>2, <1>3, <1>6, <2>1, NothingSound DEF ClientSound
<1> QED BY <1>3, <1>5, <1>6

LEMMA StoreLinkKeeps == ASSUME ClientSound, StoreLink PROVE ClientSound'
<1>1. /\ linkMutation.phase = "sent" /\ Create(linkMutation.income, linkMutation.amount)
      /\ linkMutation' = [linkMutation EXCEPT !.phase = "stored", !.made = changes']
      /\ UNCHANGED <<detail, sheet, sheetEdits, undoMutation, ownChange>>
  BY DEF StoreLink
<1>2. DropSound(linkMutation, links, changes) /\ linkMutation \in DropState
  BY DEF ClientSound, DropSound
<1>3. linkMutation.income \in Incomes \cup {0} /\ linkMutation.amount \in Nat
  BY <1>2 DEF DropState
<1>4. LinksChanged
  BY <1>1, <1>3, Changed
<1>5. changes \in Nat /\ changes' = changes + 1 /\ changes' \in Nat
  BY <1>4, LinksBound DEF ClientSound, LinksKept, LinksChanged
<1> DEFINE n == changes'
           stored == [linkMutation EXCEPT !.phase = "stored", !.made = n]
<1>6. n \in Nat /\ linkMutation' = stored
  BY <1>1, <1>5
<1>7. linkMutation.got.at <= n
  BY <1>5, <1>2, StillBefore
<1>8. \A l \in links' : l.id = n => l.amount = linkMutation.amount
  <2>1. links' = links \cup {[id |-> n, income |-> linkMutation.income,
                             amount |-> linkMutation.amount]}
    BY <1>1 DEF Create
  <2>2. \A l \in links : l.id \in Int /\ l.id <= changes
    BY RowFields DEF ClientSound, LinksKept, LinkSets
  <2>3. \A l \in links : l.id # n
    <3> SUFFICES ASSUME NEW l \in links PROVE l.id # changes + 1
      BY <1>5
    <3> QED BY <1>5, <2>2
  <2> QED BY <2>1, <2>3
<1> HIDE DEF n
<1>9. /\ stored \in DropState /\ stored.phase = "stored" /\ stored.made = n
      /\ stored.got = linkMutation.got /\ stored.amount = linkMutation.amount
  BY <1>2, <1>6 DEF DropState, DropPhases
<1> HIDE DEF stored
<1>10. DropSound(stored, links', n)
  <2>1. n <= n
    BY <1>6
  <2> QED BY <1>7, <1>8, <1>9, <2>1 DEF DropSound, SentAmount
<1>11. Announced(undoMutation, linkMutation')
  BY <1>1, NotAnnounced
<1> QED BY <1>1, <1>4, <1>6, <1>10, <1>11, LaterSound DEF ClientSound, n

LEMMA ReadLinkAnswerKeeps == ASSUME ClientSound, ReadLinkAnswer PROVE ClientSound'
<1> DEFINE answered == [linkMutation EXCEPT !.phase = "answered", !.got = Details]
<1>1. linkMutation.phase = "stored" /\ linkMutation' = answered
      /\ UNCHANGED <<links, changes, detail, sheet, sheetEdits, undoMutation, ownChange>>
  BY DEF ReadLinkAnswer
<1>2. linkMutation \in DropState /\ SentAmount(linkMutation, links)
  BY <1>1 DEF ClientSound, DropSound
<1>3. /\ answered \in DropState /\ answered.phase = "answered" /\ answered.got = Details
      /\ answered.amount = linkMutation.amount /\ answered.made = linkMutation.made
  BY <1>2, DetailsAnswer DEF DropState, DropPhases
<1> HIDE DEF answered
<1>4. changes <= changes
  BY LinksBound DEF ClientSound, LinksKept
<1>5. DropSound(answered, links, changes)
  BY <1>2, <1>3, <1>4, DetailsAnswer DEF DropSound, SentAmount
<1>6. Announced(undoMutation, linkMutation')
  BY <1>1, NotAnnounced
<1> QED BY <1>1, <1>5, <1>6 DEF ClientSound

LEMMA KnownTyped ==
    ASSUME ClientSound, NEW d \in Answers, d.at <= changes
    PROVE  Known(d) \in Nat /\ Known(d) <= changes
<1>1. d.at \in Int /\ ownChange \in Nat /\ ownChange <= changes
  BY AnswerAt DEF ClientSound
<1> QED BY <1>1 DEF Known

LEMMA AnswerApplied ==
    ASSUME ClientSound, NEW d \in Answers, d.at <= changes
    PROVE  DetailSound(Applied(d), Known(d)) /\ Known(d) \in Nat /\ Known(d) <= changes
<1>1. DetailSound(detail, ownChange) /\ sheet.open \in BOOLEAN
  BY DEF ClientSound, SheetState
<1> QED BY <1>1, AppliedSound, KnownTyped

LEMMA LinkArrivesKeeps == ASSUME ClientSound, LinkArrives PROVE ClientSound'
<1> DEFINE d == linkMutation.got
           own == {l \in d.links : l.income = linkMutation.income}
           link == CHOOSE l \in own : TRUE
           done == [linkMutation EXCEPT !.phase = "done", !.got = NoData, !.link = link]
<1>1. /\ linkMutation.phase = "answered" /\ detail' = Applied(d) /\ ownChange' = Known(d)
      /\ linkMutation' = IF own = {} THEN [linkMutation EXCEPT !.phase = "failed"] ELSE done
      /\ UNCHANGED <<links, changes, sheet, sheetEdits, undoMutation>>
  BY DEF LinkArrives
<1>2. /\ linkMutation \in DropState /\ d # NoData /\ SentAmount(linkMutation, d.links)
      /\ DropSound(linkMutation, links, changes) /\ d.at <= changes
  BY <1>1 DEF ClientSound, DropSound
<1>3. d \in Answer /\ d \in Answers
  BY <1>2 DEF DropState, Answers
<1>4. d.links \subseteq LinkRow
  BY <1>3 DEF Answer, LinkSets
<1>5. DropSound(linkMutation', links, changes)
  <2>1. CASE own = {}
    BY <1>1, <1>2, <2>1, DropFailed
  <2>2. CASE own # {}
    <3>1. link \in own
      BY <2>2
    <3>2. link \in LinkRow /\ link.income = linkMutation.income /\ link \in d.links
      BY <1>4, <3>1
    <3> HIDE DEF link, own
    <3>3. /\ done \in DropState /\ done.phase = "done" /\ done.got = NoData /\ done.link = link
          /\ done.amount = linkMutation.amount /\ done.made = linkMutation.made
          /\ done.income = linkMutation.income
      BY <1>2, <3>2, NothingTyped DEF DropState, DropPhases
    <3> HIDE DEF done
    <3>4. SentAmount(done, {done.link})
      BY <1>2, <3>2, <3>3 DEF SentAmount
    <3>5. NoData.at <= changes
      BY LinksBound DEF NoData, ClientSound, LinksKept
    <3>6. DropSound(done, links, changes)
      BY <3>2, <3>3, <3>4, <3>5 DEF DropSound
    <3> QED BY <1>1, <2>2, <3>6
  <2> QED BY <2>1, <2>2
<1>6. Announced(undoMutation, linkMutation')
  BY <1>1, NotAnnounced
<1> HIDE DEF done, own, link
<1> QED BY <1>1, <1>2, <1>3, <1>5, <1>6, AnswerApplied DEF ClientSound

LEMMA LinkFailsKeeps == ASSUME ClientSound, LinkFails PROVE ClientSound'
<1>1. /\ linkMutation.phase # "done"
      /\ linkMutation' = [linkMutation EXCEPT !.phase = "failed"]
      /\ UNCHANGED <<links, changes, detail, sheet, sheetEdits, undoMutation, ownChange>>
  BY DEF LinkFails, Pending
<1>2. DropSound(linkMutation', links, changes)
  BY <1>1, DropFailed DEF ClientSound
<1>3. Announced(undoMutation, linkMutation')
  BY <1>1, NotAnnounced
<1> QED BY <1>1, <1>2, <1>3 DEF ClientSound

LEMMA UndoKeeps == ASSUME ClientSound, Undo PROVE ClientSound'
<1> DEFINE id == linkMutation.link.id
           sent == [NoUndo EXCEPT !.phase = "sent", !.id = id]
<1>1. /\ linkMutation.phase = "done" /\ undoMutation' = sent
      /\ UNCHANGED <<links, changes, detail, sheet, sheetEdits, linkMutation, ownChange>>
  BY DEF Undo
<1>2. id \in Nat
  <2>1. linkMutation.link \in LinkRow
    BY DEF ClientSound, DropSound, DropState
  <2> QED BY <2>1, RowFields
<1>3. UndoSound(NoUndo, changes)
  BY NothingSound, LinksBound DEF ClientSound, LinksKept
<1> HIDE DEF id
<1>4. sent \in UndoState /\ sent.id = id /\ sent.got = NoUndo.got
  BY <1>2, NothingTyped DEF UndoState, UndoPhases
<1> HIDE DEF sent
<1>5. UndoSound(undoMutation', changes)
  BY <1>1, <1>3, <1>4 DEF UndoSound
<1>6. Announced(undoMutation', linkMutation)
  BY <1>1, <1>4 DEF Announced, id
<1> QED BY <1>1, <1>5, <1>6 DEF ClientSound

LEMMA DeleteUndoneKeeps == ASSUME ClientSound, DeleteUndone PROVE ClientSound'
<1>1. /\ undoMutation.phase = "sent" /\ Delete(undoMutation.id)
      /\ undoMutation' = [undoMutation EXCEPT !.phase = "stored"]
      /\ UNCHANGED <<detail, sheet, sheetEdits, linkMutation, ownChange>>
  BY DEF DeleteUndone
<1>2. LinksChanged
  BY <1>1, Changed
<1>3. UndoSound(undoMutation, changes') /\ Announced(undoMutation, linkMutation)
  BY <1>2, LaterSound DEF ClientSound
<1>4. UndoSound(undoMutation', changes') /\ Announced(undoMutation', linkMutation)
  <2>1. /\ undoMutation' \in UndoState /\ undoMutation'.got = undoMutation.got
        /\ undoMutation'.id = undoMutation.id
    BY <1>1, <1>3 DEF UndoSound, UndoState, UndoPhases
  <2> QED BY <1>1, <1>3, <2>1 DEF UndoSound, Announced, Pending
<1> QED BY <1>1, <1>2, <1>4, LaterSound DEF ClientSound

LEMMA ReadUndoAnswerKeeps == ASSUME ClientSound, ReadUndoAnswer PROVE ClientSound'
<1>1. /\ undoMutation.phase = "stored"
      /\ undoMutation' = [undoMutation EXCEPT !.phase = "answered", !.got = Details]
      /\ UNCHANGED <<links, changes, detail, sheet, sheetEdits, linkMutation, ownChange>>
  BY DEF ReadUndoAnswer
<1>2. undoMutation \in UndoState /\ Announced(undoMutation, linkMutation)
  BY DEF ClientSound, UndoSound
<1>3. /\ undoMutation' \in UndoState /\ undoMutation'.got = Details
      /\ undoMutation'.id = undoMutation.id
  BY <1>1, <1>2, DetailsAnswer DEF UndoState, UndoPhases
<1>4. changes <= changes
  BY LinksBound DEF ClientSound, LinksKept
<1>5. UndoSound(undoMutation', changes)
  BY <1>3, <1>4, DetailsAnswer DEF UndoSound
<1>6. Announced(undoMutation', linkMutation)
  BY <1>1, <1>2, <1>3 DEF Announced, Pending
<1> QED BY <1>1, <1>5, <1>6 DEF ClientSound

\* An undo that is over is of no link.
LEMMA UndoOver ==
    ASSUME NEW phase \in {"done", "failed"}, NEW n \in Nat
    PROVE  /\ UndoSound([NoUndo EXCEPT !.phase = phase], n)
           /\ \A m : Announced([NoUndo EXCEPT !.phase = phase], m)
<1> DEFINE over == [NoUndo EXCEPT !.phase = phase]
<1>1. over \in UndoState /\ over.phase = phase /\ over.got = NoUndo.got
  BY NothingTyped DEF UndoState, UndoPhases
<1> HIDE DEF over
<1>2. UndoSound(NoUndo, n)
  BY NothingSound
<1>3. UndoSound(over, n) /\ \A m : Announced(over, m)
  BY <1>1, <1>2 DEF UndoSound, Announced, Pending
<1> QED BY <1>3 DEF over

LEMMA UndoArrivesKeeps == ASSUME ClientSound, UndoArrives PROVE ClientSound'
<1> DEFINE d == undoMutation.got
<1>1. /\ detail' = Applied(d) /\ ownChange' = Known(d)
      /\ undoMutation' = [NoUndo EXCEPT !.phase = "done"] /\ linkMutation' = NoDrop
      /\ UNCHANGED <<links, changes, sheet, sheetEdits>>
  BY DEF UndoArrives
<1>2. d \in Answers /\ d.at <= changes
  BY DEF ClientSound, UndoSound, UndoState
<1>3. changes \in Nat
  BY LinksBound DEF ClientSound, LinksKept
<1>4. UndoSound(undoMutation', changes) /\ Announced(undoMutation', linkMutation')
  BY <1>1, <1>3, UndoOver
<1>5. DropSound(linkMutation', links, changes)
  BY <1>1, <1>3, NothingSound
<1> HIDE DEF d
<1> QED BY <1>1, <1>2, <1>4, <1>5, AnswerApplied DEF ClientSound

LEMMA UndoFailsKeeps == ASSUME ClientSound, UndoFails PROVE ClientSound'
<1>1. /\ undoMutation' = [NoUndo EXCEPT !.phase = "failed"]
      /\ UNCHANGED <<links, changes, detail, sheet, sheetEdits, linkMutation, ownChange>>
  BY DEF UndoFails
<1>2. changes \in Nat
  BY LinksBound DEF ClientSound, LinksKept
<1>3. UndoSound(undoMutation', changes) /\ Announced(undoMutation', linkMutation)
  BY <1>1, <1>2, UndoOver
<1> QED BY <1>1, <1>3 DEF ClientSound

LEMMA DismissKeeps == ASSUME ClientSound, Dismiss PROVE ClientSound'
<1>1. /\ linkMutation' = NoDrop /\ undoMutation' = NoUndo
      /\ UNCHANGED <<links, changes, detail, sheet, sheetEdits, ownChange>>
  BY DEF Dismiss
<1>2. changes \in Nat
  BY LinksBound DEF ClientSound, LinksKept
<1> QED BY <1>1, <1>2, NothingSound DEF ClientSound

LEMMA OfferFits ==
    ASSUME NEW ls \in LinkSets, NEW income \in Suggested(ls)
    PROVE  income \in Incomes /\ OfferedFrom(ls, income) \in 1..IncomeAmount[income]
<1>1. income \in Incomes /\ Remaining(ls) > 0
  BY DEF Suggested
<1>2. Remaining(ls) \in Int /\ IncomeAmount[income] \in Nat \ {0}
  BY <1>1, RemainingFacts, ClientAssumption
<1> QED BY <1>1, <1>2 DEF OfferedFrom, Minor

LEMMA ChangeElsewhereKeeps == ASSUME ClientSound, ChangeElsewhere PROVE ClientSound'
<1>1. UNCHANGED <<detail, sheet, sheetEdits, linkMutation, undoMutation, ownChange>>
  BY DEF ChangeElsewhere
<1>2. CASE \E income \in Suggested(links) :
             \E amount \in 1..OfferedFrom(links, income) : Create(income, amount)
  <2>1. PICK income \in Suggested(links) :
          \E amount \in 1..OfferedFrom(links, income) : Create(income, amount)
    BY <1>2
  <2>4. PICK amount \in 1..OfferedFrom(links, income) : Create(income, amount)
    BY <2>1
  <2>5. links \in LinkSets
    BY DEF ClientSound, LinksKept
  <2>6. income \in Incomes /\ OfferedFrom(links, income) \in Nat
    <3>1. OfferedFrom(links, income) \in 1..IncomeAmount[income] /\ income \in Incomes
      BY <2>5, OfferFits
    <3>2. IncomeAmount[income] \in Nat
      BY <3>1, ClientAssumption
    <3> QED BY <3>1, <3>2
  <2>2. income \in Incomes \cup {0} /\ amount \in Nat
    BY <2>4, <2>6
  <2>3. LinksChanged
    BY <2>4, <2>2, Changed
  <2> QED BY <1>1, <2>3, LaterSound DEF ClientSound
<1>3. CASE \E l \in links : Delete(l.id)
  <2>1. LinksChanged
    BY <1>3, Changed
  <2> QED BY <1>1, <2>1, LaterSound DEF ClientSound
<1> QED BY <1>2, <1>3 DEF ChangeElsewhere

LEMMA ReadDetailKeeps == ASSUME ClientSound, ReadDetail PROVE ClientSound'
<1>1. /\ detail' = ReadAt(detail, Details)
      /\ UNCHANGED <<links, changes, sheet, sheetEdits, linkMutation, undoMutation, ownChange>>
  BY DEF ReadDetail
<1>2. detail \in QueryRow(Answers) /\ Arrived(detail)
  BY DEF ClientSound, DetailSound
<1>3. ~(Details.at < ownChange)
  <2>1. Details.at = changes /\ changes \in Nat /\ ownChange \in Nat /\ ownChange <= changes
    BY DetailsAnswer, LinksBound DEF ClientSound, LinksKept
  <2> QED BY <2>1
<1>4. ReadAt(detail, Details) \in QueryRow(Answers) /\ Arrived(ReadAt(detail, Details))
  BY <1>2, DetailsAnswer, NothingTyped, QueryTyped, ArrivedKept
<1>5. \A t : Caught(ReadAt(detail, Details), ownChange, t)
  BY <1>2, <1>3, NothingTyped, CaughtRead
<1> QED BY <1>1, <1>4, <1>5 DEF ClientSound, DetailSound

LEMMA DetailArrivesKeeps == ASSUME ClientSound, DetailArrives PROVE ClientSound'
<1> DEFINE d == detail.got
<1>1. /\ detail.phase = "read" /\ detail' = Received(detail, d)
      /\ linkMutation' = IF linkMutation.phase = "reading" THEN Decided(linkMutation, d)
                         ELSE linkMutation
      /\ UNCHANGED <<links, changes, sheet, sheetEdits, undoMutation, ownChange>>
  BY DEF DetailArrives
<1>2. detail \in QueryRow(Answers) /\ Arrived(detail) /\ Caught(detail, ownChange, FALSE)
  BY DEF ClientSound, DetailSound
<1>3. d \in Answer /\ d \in Answers
  BY <1>1, <1>2 DEF QueryRow, Arrived, Answers
<1>4. Received(detail, d) \in QueryRow(Answers) /\ Arrived(Received(detail, d))
  BY <1>2, <1>3, NothingTyped, QueryTyped, ArrivedKept
<1>5. \A t : Caught(Received(detail, d), ownChange, t)
  BY <1>1, <1>2, NothingTyped, CaughtReceived
<1>6. DropSound(linkMutation, links, changes) /\ Announced(undoMutation, linkMutation)
  BY DEF ClientSound
<1> HIDE DEF d
<1>7. DropSound(linkMutation', links, changes)
  BY <1>1, <1>3, <1>6, DecidedSound
<1>8. Announced(undoMutation, linkMutation')
  BY <1>1, <1>6, NotAnnounced
<1> QED BY <1>1, <1>4, <1>5, <1>7, <1>8 DEF ClientSound, DetailSound

LEMMA DetailFailsKeeps == ASSUME ClientSound, DetailFails PROVE ClientSound'
<1>1. /\ detail' = Failed(detail)
      /\ linkMutation' = IF linkMutation.phase = "reading"
                         THEN [linkMutation EXCEPT !.phase = "failed"] ELSE linkMutation
      /\ UNCHANGED <<links, changes, sheet, sheetEdits, undoMutation, ownChange>>
  BY DEF DetailFails
<1>2. detail \in QueryRow(Answers) /\ Arrived(detail)
  BY DEF ClientSound, DetailSound
<1>3. Failed(detail) \in QueryRow(Answers) /\ Arrived(Failed(detail))
  BY <1>2, NothingTyped, QueryTyped, ArrivedKept
<1>4. \A t : Caught(Failed(detail), ownChange, t)
  BY <1>2, NothingTyped, CaughtFailed
<1>5. DropSound(linkMutation, links, changes) /\ Announced(undoMutation, linkMutation)
  BY DEF ClientSound
<1>6. DropSound(linkMutation', links, changes)
  BY <1>1, <1>5, DropFailed
<1>7. Announced(undoMutation, linkMutation')
  BY <1>1, <1>5, NotAnnounced
<1> QED BY <1>1, <1>3, <1>4, <1>6, <1>7 DEF ClientSound, DetailSound

LEMMA OpenSheetKeeps == ASSUME ClientSound, OpenSheet PROVE ClientSound'
<1>1. PICK stale \in BOOLEAN : detail' = Observed(detail, stale)
  BY DEF OpenSheet
<1>2. /\ sheet' = [open |-> TRUE, mount |-> sheet.mount + 1, form |-> NoLink]
      /\ UNCHANGED <<links, changes, sheetEdits, linkMutation, undoMutation, ownChange>>
  BY DEF OpenSheet
<1>3. detail \in QueryRow(Answers) /\ Arrived(detail) /\ Caught(detail, ownChange, FALSE)
  BY DEF ClientSound, DetailSound
<1>4. Observed(detail, stale) \in QueryRow(Answers) /\ Arrived(Observed(detail, stale))
  BY <1>3, NothingTyped, QueryTyped, ArrivedKept
<1>5. \A t : Caught(Observed(detail, stale), ownChange, t)
  BY <1>3, NothingTyped, CaughtObserved
<1>6. sheet' \in SheetState
  <2>1. sheet.mount + 1 \in Nat
    BY DEF ClientSound, SheetState
  <2> QED BY <1>2, <2>1, NothingTyped DEF SheetState
<1> QED BY <1>1, <1>2, <1>4, <1>5, <1>6 DEF ClientSound, DetailSound

LEMMA CloseSheetKeeps == ASSUME ClientSound, CloseSheet PROVE ClientSound'
<1>1. /\ sheet' = [sheet EXCEPT !.open = FALSE, !.form = NoLink]
      /\ UNCHANGED <<links, changes, detail, sheetEdits, linkMutation, undoMutation, ownChange>>
  BY DEF CloseSheet
<1>2. sheet' \in SheetState
  BY <1>1, NothingTyped DEF ClientSound, SheetState
<1> QED BY <1>1, <1>2 DEF ClientSound

LEMMA ShownTyped ==
    ASSUME ClientSound, Has(detail) PROVE detail.data \in Answer /\ detail.data.links \in LinkSets
<1>1. detail.data \in Answer
  BY DEF ClientSound, DetailSound, QueryRow, Has, Answers
<1> QED BY <1>1 DEF Answer

LEMMA ChooseKeeps ==
    ASSUME ClientSound, NEW income \in Incomes, Choose(income) PROVE ClientSound'
<1>1. /\ Has(detail) /\ income \in Suggested(detail.data.links)
      /\ UNCHANGED <<links, changes, detail, sheetEdits, linkMutation, undoMutation, ownChange>>
  BY DEF Choose
<1>2. OfferedFrom(detail.data.links, income) \in Nat
  BY <1>1, ShownTyped, OfferIsNat
<1>3. PICK amount \in 1..OfferedFrom(detail.data.links, income) :
         sheet' = [sheet EXCEPT !.form = [id |-> 0, income |-> income, amount |-> amount]]
  BY DEF Choose
<1> DEFINE form == [id |-> 0, income |-> income, amount |-> amount]
<1>4. amount \in Nat
  BY <1>2, <1>3
<1>5. form \in LinkRow
  BY <1>4 DEF LinkRow
<1> HIDE DEF form
<1>6. [sheet EXCEPT !.form = form] \in SheetState
  BY <1>5 DEF ClientSound, SheetState
<1>7. sheet' \in SheetState
  BY <1>3, <1>6 DEF form
<1> QED BY <1>1, <1>7 DEF ClientSound

\* The sheets' mutations with one of them in another state.
LEMMA EditMoved ==
    ASSUME NEW es, NEW n, EditsSound(es, n), NEW s \in Slots, NEW e \in EditState,
           e.got.at <= n
    PROVE  EditsSound([es EXCEPT ![s] = e], n)
BY DEF EditsSound

LEMMA SubmitKeeps ==
    ASSUME ClientSound, NEW s \in Slots, SubmitLink(s) \/ SubmitUnlink(s) PROVE ClientSound'
<1>1. /\ Has(detail)
      /\ UNCHANGED <<links, changes, detail, sheet, linkMutation, undoMutation, ownChange>>
  BY DEF SubmitLink, SubmitUnlink
<1>2. sheet.mount \in Nat /\ sheet.form \in LinkRow /\ EditsSound(sheetEdits, changes)
  BY DEF ClientSound, SheetState
<1>3. NoEdit.got.at <= changes
  BY NothingSound, LinksBound DEF ClientSound, LinksKept
<1>4. EditsSound(sheetEdits', changes)
  <2>1. CASE SubmitLink(s)
    <3> DEFINE e == [NoEdit EXCEPT !.phase = "sent", !.mount = sheet.mount,
                                   !.link = sheet.form]
    <3>1. sheetEdits' = [sheetEdits EXCEPT ![s] = e]
      BY <2>1 DEF SubmitLink
    <3>2. e \in EditState /\ e.got = NoEdit.got
      BY <1>2, NothingTyped DEF EditState
    <3> HIDE DEF e
    <3> QED BY <1>2, <1>3, <3>1, <3>2, EditMoved
  <2>2. CASE SubmitUnlink(s)
    <3>1. PICK l \in detail.data.links :
             sheetEdits' = [sheetEdits EXCEPT ![s] = [NoEdit EXCEPT !.phase = "sent",
                               !.kind = "unlink", !.mount = sheet.mount, !.link = l]]
      BY <2>2 DEF SubmitUnlink
    <3> DEFINE e == [NoEdit EXCEPT !.phase = "sent", !.kind = "unlink",
                                   !.mount = sheet.mount, !.link = l]
    <3>2. l \in LinkRow
      BY <1>1, ShownTyped DEF LinkSets
    <3>3. e \in EditState /\ e.got = NoEdit.got
      BY <1>2, <3>2, NothingTyped DEF EditState
    <3>4. sheetEdits' = [sheetEdits EXCEPT ![s] = e]
      BY <3>1
    <3> HIDE DEF e
    <3> QED BY <1>2, <1>3, <3>3, <3>4, EditMoved
  <2> QED BY <2>1, <2>2
<1> QED BY <1>1, <1>4 DEF ClientSound

LEMMA StoreEditKeeps == ASSUME ClientSound, NEW s \in Slots, StoreEdit(s) PROVE ClientSound'
<1> DEFINE e == sheetEdits[s]
           stored == [e EXCEPT !.phase = "stored"]
<1>1. /\ IF e.kind = "link" THEN Create(e.link.income, e.link.amount) ELSE Delete(e.link.id)
      /\ sheetEdits' = [sheetEdits EXCEPT ![s].phase = "stored"]
      /\ UNCHANGED <<detail, sheet, linkMutation, undoMutation, ownChange>>
  BY DEF StoreEdit
<1>2. e \in EditState /\ e.link \in LinkRow
  BY DEF ClientSound, EditsSound, EditState
<1>3. LinksChanged
  <2>1. e.link.income \in Incomes \cup {0} /\ e.link.amount \in Nat
    BY <1>2 DEF LinkRow
  <2> QED BY <1>1, <2>1, Changed
<1>4. EditsSound(sheetEdits, changes')
  BY <1>3, LaterSound
<1>5. stored \in EditState /\ stored.got = e.got /\ e.got.at <= changes'
  BY <1>2, <1>4 DEF EditState, EditsSound
<1>6. sheetEdits' = [sheetEdits EXCEPT ![s] = stored]
  BY <1>1
<1> HIDE DEF stored, e
<1>7. EditsSound(sheetEdits', changes')
  BY <1>4, <1>5, <1>6, EditMoved
<1> QED BY <1>1, <1>3, <1>7, LaterSound DEF ClientSound

LEMMA ReadEditAnswerKeeps ==
    ASSUME ClientSound, NEW s \in Slots, ReadEditAnswer(s) PROVE ClientSound'
<1> DEFINE e == sheetEdits[s]
           answered == [e EXCEPT !.phase = "answered", !.got = Details]
<1>1. /\ sheetEdits' = [sheetEdits EXCEPT ![s].phase = "answered", ![s].got = Details]
      /\ UNCHANGED <<links, changes, detail, sheet, linkMutation, undoMutation, ownChange>>
  BY DEF ReadEditAnswer
<1>2. EditsSound(sheetEdits, changes) /\ e \in EditState /\ sheetEdits \in [Slots -> EditState]
  BY DEF ClientSound, EditsSound
<1>3. answered \in EditState /\ answered.got = Details
  BY <1>2, DetailsAnswer DEF EditState
<1>4. sheetEdits' = [sheetEdits EXCEPT ![s] = answered]
  BY <1>1, <1>2
<1>5. Details.at <= changes
  BY DetailsAnswer, LinksBound DEF ClientSound, LinksKept
<1> HIDE DEF answered, e
<1>6. EditsSound(sheetEdits', changes)
  BY <1>2, <1>3, <1>4, <1>5, EditMoved
<1> QED BY <1>1, <1>6 DEF ClientSound

LEMMA EditForgotten ==
    ASSUME ClientSound, NEW s \in Slots
    PROVE  EditsSound([sheetEdits EXCEPT ![s] = NoEdit], changes)
<1>1. NoEdit.got.at <= changes
  BY NothingSound, LinksBound DEF ClientSound, LinksKept
<1> QED BY <1>1, NothingTyped, EditMoved DEF ClientSound

LEMMA EditArrivesKeeps == ASSUME ClientSound, NEW s \in Slots, EditArrives(s) PROVE ClientSound'
<1> DEFINE d == sheetEdits[s].got
<1>1. /\ detail' = Applied(d) /\ ownChange' = Known(d)
      /\ sheet' \in {sheet, [sheet EXCEPT !.form = NoLink]}
      /\ sheetEdits' = [sheetEdits EXCEPT ![s] = NoEdit]
      /\ UNCHANGED <<links, changes, linkMutation, undoMutation>>
  BY DEF EditArrives
<1>2. d \in Answers /\ d.at <= changes
  BY DEF ClientSound, EditsSound, EditState
<1>3. sheet' \in SheetState
  BY <1>1, NothingTyped DEF ClientSound, SheetState
<1>4. EditsSound(sheetEdits', changes)
  BY <1>1, EditForgotten
<1> HIDE DEF d
<1> QED BY <1>1, <1>2, <1>3, <1>4, AnswerApplied DEF ClientSound

LEMMA EditFailsKeeps == ASSUME ClientSound, NEW s \in Slots, EditFails(s) PROVE ClientSound'
<1>1. /\ sheetEdits' = [sheetEdits EXCEPT ![s] = NoEdit]
      /\ UNCHANGED <<links, changes, detail, sheet, linkMutation, undoMutation, ownChange>>
  BY DEF EditFails
<1>2. EditsSound(sheetEdits', changes)
  BY <1>1, EditForgotten
<1> QED BY <1>1, <1>2 DEF ClientSound

LEMMA ClientSoundStep ==
    ASSUME ClientSound, [CompensationClientNext]_compensationClientVars PROVE ClientSound'
<1>1. CASE \E income \in Incomes : Drop(income) \/ Choose(income)
  BY <1>1, DropKeeps, ChooseKeeps
<1>2. CASE StoreLink \/ ReadLinkAnswer \/ LinkArrives \/ LinkFails
  BY <1>2, StoreLinkKeeps, ReadLinkAnswerKeeps, LinkArrivesKeeps, LinkFailsKeeps
<1>3. CASE Undo \/ DeleteUndone \/ ReadUndoAnswer \/ UndoArrives \/ UndoFails \/ Dismiss
  BY <1>3, UndoKeeps, DeleteUndoneKeeps, ReadUndoAnswerKeeps, UndoArrivesKeeps,
     UndoFailsKeeps, DismissKeeps
<1>4. CASE ReadDetail \/ DetailArrives \/ DetailFails \/ OpenSheet \/ CloseSheet
  BY <1>4, ReadDetailKeeps, DetailArrivesKeeps, DetailFailsKeeps, OpenSheetKeeps,
     CloseSheetKeeps
<1>5. CASE \E s \in Slots : SubmitLink(s) \/ SubmitUnlink(s) \/ StoreEdit(s)
                            \/ ReadEditAnswer(s) \/ EditArrives(s) \/ EditFails(s)
  BY <1>5, SubmitKeeps, StoreEditKeeps, ReadEditAnswerKeeps, EditArrivesKeeps, EditFailsKeeps
<1>6. CASE ChangeElsewhere
  BY <1>6, ChangeElsewhereKeeps
<1>7. CASE UNCHANGED compensationClientVars
  BY <1>7 DEF compensationClientVars, ClientSound
<1> QED BY <1>1, <1>2, <1>3, <1>4, <1>5, <1>6, <1>7 DEF CompensationClientNext

(* What is offered *)

DropFits(m) == m.phase = "sent" => Fits(m)
FormFits(form) == form = NoLink \/ Fits(form)
EditFits(e) == e.phase = "sent" /\ e.kind = "link" => Fits(e.link)

LEMMA OffersParts ==
    OffersFit <=> /\ DropFits(linkMutation) /\ FormFits(sheet.form)
                  /\ \A s \in Slots : EditFits(sheetEdits[s])
BY DEF OffersFit, DropFits, FormFits, EditFits

\* A drop asks for what the details offer.
LEMMA DecidedFits ==
    ASSUME NEW m \in DropState, NEW d \in Answer PROVE DropFits(Decided(m, d))
<1>1. d.links \in LinkSets
  BY DEF Answer
<1>2. CASE m.income \in Suggested(d.links)
  <2> DEFINE amount == OfferedFrom(d.links, m.income)
             sent == [m EXCEPT !.phase = "sent", !.amount = amount]
  <2>1. m.income \in Incomes /\ amount \in 1..IncomeAmount[m.income]
    BY <1>1, <1>2, OfferFits
  <2>2. Decided(m, d) = sent
    BY <1>2 DEF Decided
  <2> HIDE DEF amount
  <2>3. sent.income = m.income /\ sent.amount = amount
    BY DEF DropState
  <2> HIDE DEF sent
  <2> QED BY <2>1, <2>2, <2>3 DEF DropFits, Fits
<1>3. CASE m.income \notin Suggested(d.links)
  <2>1. Decided(m, d) = [m EXCEPT !.phase = "failed"]
    BY <1>3 DEF Decided
  <2>2. [m EXCEPT !.phase = "failed"].phase = "failed"
    BY DEF DropState
  <2> QED BY <2>1, <2>2 DEF DropFits
<1> QED BY <1>2, <1>3

\* A drop that is not sent asks for nothing.
LEMMA UnsentFits ==
    /\ DropFits(NoDrop)
    /\ \A m \in DropState, word \in DropPhases \ {"sent"} : \A made, got, link :
          /\ DropFits([m EXCEPT !.phase = word])
          /\ DropFits([m EXCEPT !.phase = word, !.made = made])
          /\ DropFits([m EXCEPT !.phase = word, !.got = got])
          /\ DropFits([m EXCEPT !.phase = word, !.got = got, !.link = link])
<1>1. DropFits(NoDrop)
  BY DEF DropFits, NoDrop
<1>2. ASSUME NEW m \in DropState, NEW word \in DropPhases \ {"sent"}, NEW made, NEW got, NEW link
      PROVE  /\ DropFits([m EXCEPT !.phase = word])
             /\ DropFits([m EXCEPT !.phase = word, !.made = made])
             /\ DropFits([m EXCEPT !.phase = word, !.got = got])
             /\ DropFits([m EXCEPT !.phase = word, !.got = got, !.link = link])
  <2>1. word # "sent"
    OBVIOUS
  <2>2. /\ [m EXCEPT !.phase = word].phase = word
        /\ [m EXCEPT !.phase = word, !.made = made].phase = word
        /\ [m EXCEPT !.phase = word, !.got = got].phase = word
        /\ [m EXCEPT !.phase = word, !.got = got, !.link = link].phase = word
    BY DEF DropState
  <2> QED BY <2>1, <2>2 DEF DropFits
<1> QED BY <1>1, <1>2

LEMMA UnsentPhases == {"reading", "stored", "answered", "done", "failed"}
                        \subseteq DropPhases \ {"sent"}
BY DEF DropPhases

LEMMA DropFitsStep ==
    ASSUME ClientSound, DropFits(linkMutation), CompensationClientNext
    PROVE  DropFits(linkMutation')
<1>1. linkMutation \in DropState /\ NoDrop \in DropState
  BY NothingTyped DEF ClientSound, DropSound
<1>2. ASSUME NEW income \in Incomes, Drop(income) PROVE DropFits(linkMutation')
  <2> DEFINE asked == [NoDrop EXCEPT !.income = income, !.phase = "reading"]
  <2>1. \/ Has(detail) /\ linkMutation' = Decided(asked, detail.data)
        \/ linkMutation' = asked
    BY <1>2 DEF Drop
  <2>2. asked \in DropState /\ asked.phase = "reading"
    BY <1>1 DEF DropState, DropPhases
  <2> HIDE DEF asked
  <2>3. DropFits(asked)
    BY <2>2 DEF DropFits
  <2>4. Has(detail) => DropFits(Decided(asked, detail.data))
    BY <2>2, ShownTyped, DecidedFits
  <2> QED BY <2>1, <2>3, <2>4
<1>3. ASSUME DetailArrives PROVE DropFits(linkMutation')
  <2>1. detail.phase = "read"
        /\ linkMutation' \in {Decided(linkMutation, detail.got), linkMutation}
    BY <1>3 DEF DetailArrives
  <2>2. detail.got \in Answer
    BY <2>1 DEF ClientSound, DetailSound, QueryRow, Arrived, Answers
  <2>3. DropFits(Decided(linkMutation, detail.got))
    BY <1>1, <2>2, DecidedFits
  <2> QED BY <2>1, <2>3
<1>4. ASSUME StoreLink \/ ReadLinkAnswer \/ LinkArrives \/ LinkFails \/ DetailFails
      PROVE  DropFits(linkMutation')
  <2>1. CASE StoreLink
    <3>1. linkMutation' = [linkMutation EXCEPT !.phase = "stored", !.made = changes']
      BY <2>1 DEF StoreLink
    <3> QED BY <1>1, <3>1, UnsentFits, UnsentPhases
  <2>2. CASE ReadLinkAnswer
    <3>1. linkMutation' = [linkMutation EXCEPT !.phase = "answered", !.got = Details]
      BY <2>2 DEF ReadLinkAnswer
    <3> QED BY <1>1, <3>1, UnsentFits, UnsentPhases
  <2>3. CASE LinkArrives
    <3> DEFINE own == {l \in linkMutation.got.links : l.income = linkMutation.income}
               link == CHOOSE l \in own : TRUE
               done == [linkMutation EXCEPT !.phase = "done", !.got = NoData, !.link = link]
    <3>1. linkMutation' = IF own = {} THEN [linkMutation EXCEPT !.phase = "failed"] ELSE done
      BY <2>3 DEF LinkArrives
    <3> HIDE DEF link, own
    <3>2. DropFits(done) /\ DropFits([linkMutation EXCEPT !.phase = "failed"])
      BY <1>1, UnsentFits, UnsentPhases
    <3> HIDE DEF done
    <3> QED BY <3>1, <3>2
  <2>4. CASE LinkFails \/ DetailFails
    <3>1. linkMutation' \in {[linkMutation EXCEPT !.phase = "failed"], linkMutation}
      BY <2>4 DEF LinkFails, DetailFails
    <3> QED BY <1>1, <3>1, UnsentFits, UnsentPhases
  <2> QED BY <1>4, <2>1, <2>2, <2>3, <2>4
<1>5. ASSUME UndoArrives \/ Dismiss PROVE DropFits(linkMutation')
  <2>1. linkMutation' = NoDrop
    BY <1>5 DEF UndoArrives, Dismiss
  <2> QED BY <2>1, UnsentFits
<1>6. ASSUME Undo \/ DeleteUndone \/ ReadUndoAnswer \/ UndoFails \/ ReadDetail
             \/ OpenSheet \/ CloseSheet \/ ChangeElsewhere
      PROVE  linkMutation' = linkMutation
  BY <1>6 DEF Undo, DeleteUndone, ReadUndoAnswer, UndoFails, ReadDetail, OpenSheet,
     CloseSheet, ChangeElsewhere
<1>7. \A income \in Incomes : Choose(income) => linkMutation' = linkMutation
  BY DEF Choose
<1>8. ASSUME NEW s \in Slots,
             SubmitLink(s) \/ SubmitUnlink(s) \/ StoreEdit(s) \/ ReadEditAnswer(s)
             \/ EditArrives(s) \/ EditFails(s)
      PROVE  linkMutation' = linkMutation
  BY <1>8 DEF SubmitLink, SubmitUnlink, StoreEdit, ReadEditAnswer, EditArrives, EditFails
<1> QED BY <1>2, <1>3, <1>4, <1>5, <1>6, <1>7, <1>8 DEF CompensationClientNext

\* The form holds what was offered, or nothing.
LEMMA FormFitsStep ==
    ASSUME ClientSound, FormFits(sheet.form), CompensationClientNext
    PROVE  FormFits(sheet'.form)
<1>1. sheet \in SheetState
  BY DEF ClientSound
<1>2. FormFits(NoLink)
  BY DEF FormFits
<1>3. ASSUME NEW income \in Incomes, Choose(income) PROVE FormFits(sheet'.form)
  <2>1. Has(detail) /\ income \in Suggested(detail.data.links)
    BY <1>3 DEF Choose
  <2>2. OfferedFrom(detail.data.links, income) \in 1..IncomeAmount[income]
    BY <2>1, ShownTyped, OfferFits
  <2>3. PICK amount \in 1..OfferedFrom(detail.data.links, income) :
           sheet' = [sheet EXCEPT !.form = [id |-> 0, income |-> income, amount |-> amount]]
    BY <1>3 DEF Choose
  <2>4. amount \in 1..IncomeAmount[income]
    <3>1. IncomeAmount[income] \in Nat
      BY ClientAssumption
    <3> QED BY <2>2, <2>3, <3>1
  <2>5. sheet'.form = [id |-> 0, income |-> income, amount |-> amount]
    BY <1>1, <2>3 DEF SheetState
  <2> QED BY <2>4, <2>5 DEF FormFits, Fits
<1>4. ASSUME OpenSheet \/ CloseSheet PROVE FormFits(sheet'.form)
  <2>1. CASE OpenSheet
    <3>1. sheet' = [open |-> TRUE, mount |-> sheet.mount + 1, form |-> NoLink]
      BY <2>1 DEF OpenSheet
    <3> QED BY <1>2, <3>1
  <2>2. CASE CloseSheet
    <3>1. sheet' = [sheet EXCEPT !.open = FALSE, !.form = NoLink]
      BY <2>2 DEF CloseSheet
    <3>2. sheet'.form = NoLink
      BY <1>1, <3>1 DEF SheetState
    <3> QED BY <1>2, <3>2
  <2> QED BY <1>4, <2>1, <2>2
<1>5. ASSUME NEW s \in Slots, EditArrives(s) PROVE FormFits(sheet'.form)
  <2>1. sheet' \in {sheet, [sheet EXCEPT !.form = NoLink]}
    BY <1>5 DEF EditArrives
  <2>2. sheet'.form \in {sheet.form, NoLink}
    BY <1>1, <2>1 DEF SheetState
  <2> QED BY <1>2, <2>2
<1>6. \A income \in Incomes : Drop(income) => sheet' = sheet
  BY DEF Drop
<1>7. ASSUME StoreLink \/ ReadLinkAnswer \/ LinkArrives \/ LinkFails \/ Undo \/ DeleteUndone
             \/ ReadUndoAnswer \/ UndoArrives \/ UndoFails \/ Dismiss
      PROVE  sheet' = sheet
  BY <1>7 DEF StoreLink, ReadLinkAnswer, LinkArrives, LinkFails, Undo, DeleteUndone,
     ReadUndoAnswer, UndoArrives, UndoFails, Dismiss
<1>8. ASSUME ReadDetail \/ DetailArrives \/ DetailFails \/ ChangeElsewhere
      PROVE  sheet' = sheet
  BY <1>8 DEF ReadDetail, DetailArrives, DetailFails, ChangeElsewhere
<1>9. ASSUME NEW s \in Slots,
             SubmitLink(s) \/ SubmitUnlink(s) \/ StoreEdit(s) \/ ReadEditAnswer(s)
             \/ EditFails(s)
      PROVE  sheet' = sheet
  BY <1>9 DEF SubmitLink, SubmitUnlink, StoreEdit, ReadEditAnswer, EditFails
<1> QED BY <1>3, <1>4, <1>5, <1>6, <1>7, <1>8, <1>9 DEF CompensationClientNext

\* A sheet's mutation changes alone, and is sent with what the form holds.
LEMMA EditFitsStep ==
    ASSUME ClientSound, FormFits(sheet.form), \A s \in Slots : EditFits(sheetEdits[s]),
           CompensationClientNext
    PROVE  \A s \in Slots : EditFits(sheetEdits[s]')
<1>1. sheetEdits \in [Slots -> EditState] /\ NoEdit \in EditState
  BY NothingTyped DEF ClientSound, EditsSound
<1>2. ASSUME NEW s \in Slots, NEW e, EditFits(e), sheetEdits' = [sheetEdits EXCEPT ![s] = e]
      PROVE  \A r \in Slots : EditFits(sheetEdits[r]')
  BY <1>1, <1>2
<1>3. EditFits(NoEdit)
  BY DEF EditFits, NoEdit
<1>4. ASSUME NEW s \in Slots, SubmitLink(s) PROVE \A r \in Slots : EditFits(sheetEdits[r]')
  <2> DEFINE e == [NoEdit EXCEPT !.phase = "sent", !.mount = sheet.mount, !.link = sheet.form]
  <2>1. /\ Has(detail) /\ sheet.form.income \in Suggested(detail.data.links)
        /\ sheetEdits' = [sheetEdits EXCEPT ![s] = e]
    BY <1>4 DEF SubmitLink
  <2>2. sheet.form # NoLink
    <3>1. sheet.form.income \in Incomes
      BY <2>1, ShownTyped, OfferFits
    <3> QED BY <3>1, ClientAssumption DEF NoLink
  <2>3. e.link = sheet.form
    BY <1>1 DEF EditState
  <2> HIDE DEF e
  <2>4. EditFits(e)
    BY <2>2, <2>3 DEF EditFits, FormFits
  <2> QED BY <1>2, <2>1, <2>4
<1>5. ASSUME NEW s \in Slots, SubmitUnlink(s) PROVE \A r \in Slots : EditFits(sheetEdits[r]')
  <2>1. PICK l \in detail.data.links :
           sheetEdits' = [sheetEdits EXCEPT ![s] = [NoEdit EXCEPT !.phase = "sent",
                             !.kind = "unlink", !.mount = sheet.mount, !.link = l]]
    BY <1>5 DEF SubmitUnlink
  <2> DEFINE e == [NoEdit EXCEPT !.phase = "sent", !.kind = "unlink",
                                 !.mount = sheet.mount, !.link = l]
  <2>2. e.kind = "unlink"
    BY <1>1 DEF EditState
  <2>3. sheetEdits' = [sheetEdits EXCEPT ![s] = e]
    BY <2>1
  <2> HIDE DEF e
  <2>4. EditFits(e)
    BY <2>2 DEF EditFits
  <2> QED BY <1>2, <2>3, <2>4
<1>6. ASSUME NEW s \in Slots, StoreEdit(s) PROVE \A r \in Slots : EditFits(sheetEdits[r]')
  <2> DEFINE e == [sheetEdits[s] EXCEPT !.phase = "stored"]
  <2>1. e.phase = "stored" /\ sheetEdits' = [sheetEdits EXCEPT ![s] = e]
    BY <1>1, <1>6 DEF StoreEdit, EditState
  <2> HIDE DEF e
  <2>2. EditFits(e)
    BY <2>1 DEF EditFits
  <2> QED BY <1>2, <2>1, <2>2
<1>7. ASSUME NEW s \in Slots, ReadEditAnswer(s)
      PROVE  \A r \in Slots : EditFits(sheetEdits[r]')
  <2> DEFINE e == [sheetEdits[s] EXCEPT !.phase = "answered", !.got = Details]
  <2>1. sheetEdits' = [sheetEdits EXCEPT ![s].phase = "answered", ![s].got = Details]
    BY <1>7 DEF ReadEditAnswer
  <2>2. e.phase = "answered" /\ sheetEdits' = [sheetEdits EXCEPT ![s] = e]
    BY <1>1, <2>1 DEF EditState
  <2> HIDE DEF e
  <2>3. EditFits(e)
    BY <2>2 DEF EditFits
  <2> QED BY <1>2, <2>2, <2>3
<1>8. ASSUME NEW s \in Slots, EditArrives(s) \/ EditFails(s)
      PROVE  \A r \in Slots : EditFits(sheetEdits[r]')
  <2>1. sheetEdits' = [sheetEdits EXCEPT ![s] = NoEdit]
    BY <1>8 DEF EditArrives, EditFails
  <2> QED BY <1>2, <1>3, <2>1
<1>9. (\E income \in Incomes : Drop(income) \/ Choose(income)) => sheetEdits' = sheetEdits
  BY DEF Drop, Choose
<1>10. ASSUME StoreLink \/ ReadLinkAnswer \/ LinkArrives \/ LinkFails \/ Undo \/ DeleteUndone
              \/ ReadUndoAnswer \/ UndoArrives \/ UndoFails \/ Dismiss
       PROVE  sheetEdits' = sheetEdits
  BY <1>10 DEF StoreLink, ReadLinkAnswer, LinkArrives, LinkFails, Undo, DeleteUndone,
     ReadUndoAnswer, UndoArrives, UndoFails, Dismiss
<1>11. ASSUME ReadDetail \/ DetailArrives \/ DetailFails \/ OpenSheet \/ CloseSheet
              \/ ChangeElsewhere
       PROVE  sheetEdits' = sheetEdits
  BY <1>11 DEF ReadDetail, DetailArrives, DetailFails, OpenSheet, CloseSheet, ChangeElsewhere
<1> QED BY <1>4, <1>5, <1>6, <1>7, <1>8, <1>9, <1>10, <1>11 DEF CompensationClientNext

LEMMA OffersFitInit == ASSUME CompensationClientInit PROVE OffersFit
<1>1. linkMutation = NoDrop /\ sheet.form = NoLink /\ \A s \in Slots : sheetEdits[s] = NoEdit
  BY DEF CompensationClientInit
<1>2. NoDrop.phase = "idle" /\ NoEdit.phase = "idle"
  BY DEF NoDrop, NoEdit
<1> QED BY <1>1, <1>2 DEF OffersFit

LEMMA OffersFitStep ==
    ASSUME ClientSound, OffersFit, [CompensationClientNext]_compensationClientVars
    PROVE  OffersFit'
<1>1. CASE CompensationClientNext
  <2>1. DropFits(linkMutation) /\ FormFits(sheet.form)
        /\ \A s \in Slots : EditFits(sheetEdits[s])
    BY OffersParts
  <2>2. DropFits(linkMutation')
    BY <1>1, <2>1, DropFitsStep
  <2>3. FormFits(sheet'.form)
    BY <1>1, <2>1, FormFitsStep
  <2>4. \A s \in Slots : EditFits(sheetEdits[s]')
    BY <1>1, <2>1, EditFitsStep
  <2> QED BY <2>2, <2>3, <2>4 DEF OffersFit, DropFits, FormFits, EditFits
<1>2. CASE UNCHANGED compensationClientVars
  BY <1>2 DEF compensationClientVars, OffersFit
<1> QED BY <1>1, <1>2

LEMMA ClientKeeps ==
    ASSUME ClientSound, OffersFit PROVE CompensationClientInvariant
<1>1. CompensationClientTypeInvariant
  <2>1. Remaining(links) >= 0 /\ changes \in 0..MaxChanges /\ ownChange <= changes
    BY DEF ClientSound, LinksKept
  <2>2. detail.phase \in {"idle", "sent", "read"}
    BY DEF ClientSound, DetailSound, QueryRow, QueryPhases
  <2>3. linkMutation.phase \in DropPhases /\ undoMutation.phase \in UndoPhases
    BY DEF ClientSound, DropSound, UndoSound, DropState, UndoState
  <2>4. \A s \in Slots : sheetEdits[s].phase \in {"idle", "sent", "stored", "answered"}
    BY DEF ClientSound, EditsSound, EditState
  <2> QED BY <2>1, <2>2, <2>3, <2>4
        DEF CompensationClientTypeInvariant, DropPhases, UndoPhases
<1>2. UndoIsAnnounced
  BY DEF ClientSound, DropSound, SentAmount, Announced, UndoIsAnnounced
<1>3. DetailsFollow
  <2>1. Caught(detail, ownChange, FALSE)
    BY DEF ClientSound, DetailSound
  <2> QED BY <2>1 DEF Caught, Kept, Excused, DetailsFollow
<1> QED BY <1>1, <1>2, <1>3 DEF CompensationClientInvariant

\* What the tab does to the links is what it shows of them, for any number of incomes,
\* requests of the sheet and changes elsewhere: "Undo" is offered for, and sent of, the
\* link that is announced, the details shown are not from before a link this tab made
\* or removed, unless that can be told, and no amount is asked for that the income has
\* not, however old the details were that offered it.
THEOREM LinksAreFollowed == CompensationClientSpec => []CompensationClientInvariant
<1>1. CompensationClientInit => ClientSound /\ OffersFit
  BY ClientSoundInit, OffersFitInit
<1>2. ClientSound /\ OffersFit /\ [CompensationClientNext]_compensationClientVars
      => (ClientSound /\ OffersFit)'
  BY ClientSoundStep, OffersFitStep
<1>3. ClientSound /\ OffersFit => CompensationClientInvariant
  BY ClientKeeps
<1> QED BY <1>1, <1>2, <1>3, PTL DEF CompensationClientSpec
-----------------------------------------------------------------------------
(* The links of an expense, shared out *)

\* A link is of an amount its income has; an income has one link, and a name is one link's.
LinksFit(ls) ==
    /\ \A l \in ls : Fits(l)
    /\ \A k, l \in ls : k.income = l.income => k = l
    /\ \A k, l \in ls : k.id = l.id => k = l

OfIncome(ls, i) == {l \in ls : l.income = i}
Pairs == {0} \X Incomes
SharesOf(ls) == [pair \in Pairs |-> LinkedTotal(OfIncome(ls, pair[2]))]
Amounts == [x \in {0} \cup Incomes |-> IF x = 0 THEN -ExpenseAmount ELSE IncomeAmount[x]]

LEMMA AmountsAre ==
    Amounts[0] = -ExpenseAmount /\ \A i \in Incomes : Amounts[i] = IncomeAmount[i]
BY ClientAssumption DEF Amounts

LEMMA PairIs == \A i \in Incomes : <<0, i>> \in Pairs
BY DEF Pairs

LEMMA ShareOfPair ==
    ASSUME NEW ls, NEW i \in Incomes
    PROVE  SharesOf(ls)[<<0, i>>] = LinkedTotal(OfIncome(ls, i))
BY PairIs DEF SharesOf

LEMMA TotalNone == LinkedTotal({}) = 0
BY NothingLinked, TotalIsSum, SumEmpty

LEMMA TotalOne == ASSUME NEW l \in LinkRow PROVE LinkedTotal({l}) = l.amount
<1>1. {l} \in LinkSets
  BY FS_Singleton DEF LinkSets
<1>2. RowAmount[l] = l.amount /\ l.amount \in Int
  BY RowFields
<1>3. SumOf(RowAmount, {} \cup {l}) = RowAmount[l] + SumOf(RowAmount, {})
  BY <1>2, FS_EmptySet, SumAdd
<1>4. {} \cup {l} = {l}
  OBVIOUS
<1> QED BY <1>1, <1>2, <1>3, <1>4, SumEmpty, TotalIsSum

LEMMA TotalIsInt == ASSUME NEW ls \in LinkSets PROVE LinkedTotal(ls) \in Int
<1>1. IsFiniteSet(ls) /\ \A l \in ls : RowAmount[l] \in Int
  BY RowFields DEF LinkSets
<1> QED BY <1>1, TotalIsSum, SumIsInt

\* The share of an income is the amount of its link, or nothing.
LEMMA ShareIs ==
    ASSUME NEW ls \in LinkSets, LinksFit(ls)
    PROVE  /\ \A l \in ls : /\ l.income \in Incomes /\ OfIncome(ls, l.income) = {l}
                            /\ SharesOf(ls)[<<0, l.income>>] = l.amount
           /\ \A i \in Incomes : i \notin Linked(ls) =>
                 OfIncome(ls, i) = {} /\ SharesOf(ls)[<<0, i>>] = 0
<1>1. ASSUME NEW l \in ls
      PROVE  /\ l.income \in Incomes /\ OfIncome(ls, l.income) = {l}
             /\ SharesOf(ls)[<<0, l.income>>] = l.amount
  <2>1. l.income \in Incomes /\ l \in LinkRow
    BY DEF LinksFit, Fits, LinkSets
  <2>2. OfIncome(ls, l.income) = {l}
    BY DEF LinksFit, OfIncome
  <2> QED BY <2>1, <2>2, ShareOfPair, TotalOne
<1>2. ASSUME NEW i \in Incomes, i \notin Linked(ls)
      PROVE  OfIncome(ls, i) = {} /\ SharesOf(ls)[<<0, i>>] = 0
  <2>1. OfIncome(ls, i) = {}
    BY <1>2 DEF OfIncome, Linked
  <2> QED BY <2>1, ShareOfPair, TotalNone
<1> QED BY <1>1, <1>2

\* What the expense has handed out is what its links add up to.
LEMMA HandedIsLinked ==
    ASSUME links \in LinkSets, LinksFit(links), IsFiniteSet(Incomes)
    PROVE  Shared!Handed(0) = LinkedTotal(links)
<1> DEFINE share(i) == SharesOf(links)[<<0, i>>]
           v == [i \in Incomes |-> share(i)]
           Iterates(g) == g = [s \in SUBSET Incomes |-> IF s = {} THEN 0
               ELSE share(CHOOSE x \in s : TRUE) + g[s \ {CHOOSE x \in s : TRUE}]]
           handed == CHOOSE g : Iterates(g)
<1>1. Shared!Handed(0) = handed[Incomes]
  BY DEF Shared!Handed, Shared!MapThenSumSet, Shared!MapThenFoldSet, SharesOf, Pairs,
     OfIncome
<1> HIDE DEF share
<1>2. ASSUME NEW g
      PROVE  Iterates(g) <=> Sums(g, v, Incomes)
  <2>1. ASSUME NEW s \in SUBSET Incomes
        PROVE  (IF s = {} THEN 0
                ELSE share(CHOOSE x \in s : TRUE) + g[s \ {CHOOSE x \in s : TRUE}])
               = (IF s = {} THEN 0 ELSE v[OneOf(s)] + g[s \ {OneOf(s)}])
    <3>1. CASE s = {}
      BY <3>1
    <3>2. CASE s # {}
      <4>1. OneOf(s) \in Incomes
        BY <3>2, OneIsMember
      <4>2. v[OneOf(s)] = share(OneOf(s))
        BY <4>1
      <4> QED BY <3>2, <4>2 DEF OneOf
    <3> QED BY <3>1, <3>2
  <2> HIDE DEF v
  <2> QED BY <2>1 DEF Sums
<1> HIDE DEF v, Iterates
<1>3. Iterates(handed)
  <2>1. PICK g : Sums(g, v, Incomes)
    BY SumsExist
  <2>2. Iterates(g)
    BY <1>2, <2>1
  <2> QED BY <2>2
<1>4. Sums(handed, v, Incomes)
  BY <1>2, <1>3
<1> HIDE DEF handed
<1>5. handed[Incomes] = SumOf(v, Incomes)
  BY <1>4, SumsGive
<1>6. SumOf(v, Incomes) = SumOf(RowAmount, links)
  <2> DEFINE incomeOf == [l \in links |-> l.income]
             u == [i \in Incomes |-> SumOfKey(RowAmount, links, incomeOf, i)]
  <2>1. IsFiniteSet(links) /\ links \subseteq LinkRow
    BY DEF LinkSets
  <2>2. \A l \in links : RowAmount[l] \in Int
    BY <2>1, RowFields
  <2>3. incomeOf \in [links -> Incomes]
    BY DEF LinksFit, Fits
  <2>4. ASSUME NEW i \in Incomes
        PROVE  v[i] = u[i]
    <3>1. {l \in links : incomeOf[l] = i} = OfIncome(links, i)
      BY DEF OfIncome
    <3>2. u[i] = SumOf(RowAmount, OfIncome(links, i))
      BY <3>1 DEF SumOfKey
    <3>3. OfIncome(links, i) \in LinkSets
      BY <2>1, FS_Subset DEF OfIncome, LinkSets
    <3>4. v[i] = LinkedTotal(OfIncome(links, i))
      BY ShareOfPair DEF v, share
    <3> QED BY <3>2, <3>3, <3>4, TotalIsSum
  <2> HIDE DEF incomeOf
  <2>5. SumOf(u, Incomes) = SumOf(RowAmount, links)
    BY <2>1, <2>2, <2>3, SumByKey
  <2> HIDE DEF u
  <2>6. SumOf(v, Incomes) = SumOf(u, Incomes)
    BY <2>4, SumSame
  <2> QED BY <2>5, <2>6
<1> QED BY <1>1, <1>5, <1>6, TotalIsSum

\* What an income has given is its share: there is one expense.
LEMMA TakenIsShare ==
    ASSUME links \in LinkSets, LinksFit(links), NEW i \in Incomes
    PROVE  Shared!Taken(i) = SharesOf(links)[<<0, i>>]
<1> DEFINE share(e) == SharesOf(links)[<<e, i>>]
           v == [e \in {0} |-> share(e)]
           Iterates(g) == g = [s \in SUBSET {0} |-> IF s = {} THEN 0
               ELSE share(CHOOSE x \in s : TRUE) + g[s \ {CHOOSE x \in s : TRUE}]]
           taken == CHOOSE g : Iterates(g)
<1>1. Shared!Taken(i) = taken[{0}]
  BY DEF Shared!Taken, Shared!MapThenSumSet, Shared!MapThenFoldSet, SharesOf, Pairs,
     OfIncome
<1>2. v[0] = SharesOf(links)[<<0, i>>]
  OBVIOUS
<1> HIDE DEF share
<1>3. ASSUME NEW g
      PROVE  Iterates(g) <=> Sums(g, v, {0})
  <2>1. ASSUME NEW s \in SUBSET {0}
        PROVE  (IF s = {} THEN 0
                ELSE share(CHOOSE x \in s : TRUE) + g[s \ {CHOOSE x \in s : TRUE}])
               = (IF s = {} THEN 0 ELSE v[OneOf(s)] + g[s \ {OneOf(s)}])
    <3>1. CASE s = {}
      BY <3>1
    <3>2. CASE s # {}
      <4>1. OneOf(s) \in {0}
        BY <3>2, OneIsMember
      <4>2. v[OneOf(s)] = share(OneOf(s))
        BY <4>1
      <4> QED BY <3>2, <4>2 DEF OneOf
    <3> QED BY <3>1, <3>2
  <2> HIDE DEF v
  <2> QED BY <2>1 DEF Sums
<1> HIDE DEF v, Iterates
<1>4. IsFiniteSet({0})
  BY FS_Singleton
<1>5. Iterates(taken)
  <2>1. PICK g : Sums(g, v, {0})
    BY <1>4, SumsExist
  <2>2. Iterates(g)
    BY <1>3, <2>1
  <2> QED BY <2>2
<1>6. Sums(taken, v, {0})
  BY <1>3, <1>5
<1> HIDE DEF taken
<1>7. taken[{0}] = SumOf(v, {0})
  BY <1>4, <1>6, SumsGive
<1>8. v[0] \in Int
  <2>1. OfIncome(links, i) \in LinkSets
    BY FS_Subset DEF OfIncome, LinkSets
  <2> QED BY <1>2, <2>1, ShareOfPair, TotalIsInt
<1>9. SumOf(v, {0}) = v[0]
  <2>1. SumOf(v, {} \cup {0}) = v[0] + SumOf(v, {})
    BY <1>8, FS_EmptySet, SumAdd
  <2>2. {} \cup {0} = {0}
    OBVIOUS
  <2> QED BY <1>8, <2>1, <2>2, SumEmpty
<1> QED BY <1>1, <1>2, <1>7, <1>9

\* What a step does to the links of the expense.
LEMMA LinksMove ==
    ASSUME ClientSound, OffersFit, CompensationClientNext
    PROVE  \/ links' = links
           \/ \E income \in Incomes : \E amount \in 1..IncomeAmount[income] :
                 Create(income, amount)
           \/ \E id : Delete(id)
<1> DEFINE Made == \E income \in Incomes : \E amount \in 1..IncomeAmount[income] :
                      Create(income, amount)
           Gone == \E id : Delete(id)
<1>1. ASSUME NEW link, Fits(link), Create(link.income, link.amount) PROVE Made
  BY <1>1 DEF Fits
<1>2. ASSUME StoreLink PROVE Made
  <2>1. linkMutation.phase = "sent" /\ Create(linkMutation.income, linkMutation.amount)
    BY <1>2 DEF StoreLink
  <2>2. Fits(linkMutation)
    BY <2>1 DEF OffersFit
  <2> HIDE DEF Made
  <2> QED BY <1>1, <2>1, <2>2
<1>3. ASSUME NEW s \in Slots, StoreEdit(s) PROVE Made \/ Gone
  <2>1. /\ sheetEdits[s].phase = "sent"
        /\ IF sheetEdits[s].kind = "link"
           THEN Create(sheetEdits[s].link.income, sheetEdits[s].link.amount)
           ELSE Delete(sheetEdits[s].link.id)
    BY <1>3 DEF StoreEdit
  <2>2. sheetEdits[s].kind = "link" => Fits(sheetEdits[s].link)
    BY <2>1 DEF OffersFit
  <2>3. CASE sheetEdits[s].kind = "link"
    <3> HIDE DEF Made
    <3> QED BY <1>1, <2>1, <2>2, <2>3
  <2>4. CASE sheetEdits[s].kind # "link"
    BY <2>1, <2>4
  <2> QED BY <2>3, <2>4
<1>4. DeleteUndone => Gone
  BY DEF DeleteUndone
<1>5. ASSUME ChangeElsewhere PROVE Made \/ Gone
  <2>1. CASE \E income \in Suggested(links) :
                \E amount \in 1..OfferedFrom(links, income) : Create(income, amount)
    <3>1. PICK income \in Suggested(links) :
            \E amount \in 1..OfferedFrom(links, income) : Create(income, amount)
      BY <2>1
    <3>2. PICK amount \in 1..OfferedFrom(links, income) : Create(income, amount)
      BY <3>1
    <3>3. links \in LinkSets
      BY DEF ClientSound, LinksKept
    <3>4. income \in Incomes /\ OfferedFrom(links, income) \in 1..IncomeAmount[income]
      BY <3>3, OfferFits
    <3>5. IncomeAmount[income] \in Nat
      BY <3>4, ClientAssumption
    <3>6. amount \in 1..IncomeAmount[income]
      <4> DEFINE most == OfferedFrom(links, income)
      <4>1. most \in 1..IncomeAmount[income] /\ amount \in 1..most
        BY <3>2, <3>4
      <4> HIDE DEF most
      <4> QED BY <3>5, <4>1
    <3> QED BY <3>2, <3>4, <3>6
  <2>2. CASE \E l \in links : Delete(l.id)
    BY <2>2
  <2> QED BY <1>5, <2>1, <2>2 DEF ChangeElsewhere
<1> HIDE DEF Made, Gone
<1>6. (\E income \in Incomes : Drop(income) \/ Choose(income)) => links' = links
  BY DEF Drop, Choose
<1>7. ASSUME ReadLinkAnswer \/ LinkArrives \/ LinkFails \/ Undo \/ ReadUndoAnswer
             \/ UndoArrives \/ UndoFails \/ Dismiss
      PROVE  links' = links
  BY <1>7 DEF ReadLinkAnswer, LinkArrives, LinkFails, Undo, ReadUndoAnswer, UndoArrives,
     UndoFails, Dismiss
<1>8. ASSUME ReadDetail \/ DetailArrives \/ DetailFails \/ OpenSheet \/ CloseSheet
      PROVE  links' = links
  BY <1>8 DEF ReadDetail, DetailArrives, DetailFails, OpenSheet, CloseSheet
<1>9. ASSUME NEW s \in Slots,
             SubmitLink(s) \/ SubmitUnlink(s) \/ ReadEditAnswer(s) \/ EditArrives(s)
             \/ EditFails(s)
      PROVE  links' = links
  BY <1>9 DEF SubmitLink, SubmitUnlink, ReadEditAnswer, EditArrives, EditFails
<1>10. Made \/ Gone \/ links' = links
  BY <1>2, <1>3, <1>4, <1>5, <1>6, <1>7, <1>8, <1>9 DEF CompensationClientNext
<1> QED BY <1>10 DEF Made, Gone

\* A share that changes, and the others, which do not.
LEMMA OneShare ==
    ASSUME NEW before, NEW after, NEW i \in Incomes, NEW amount,
           LinkedTotal(OfIncome(after, i)) = amount,
           \A j \in Incomes \ {i} : OfIncome(after, j) = OfIncome(before, j)
    PROVE  SharesOf(after) = [SharesOf(before) EXCEPT ![<<0, i>>] = amount]
<1>1. ASSUME NEW pair \in Pairs
      PROVE  SharesOf(after)[pair] = [SharesOf(before) EXCEPT ![<<0, i>>] = amount][pair]
  <2>1. pair = <<0, pair[2]>> /\ pair[2] \in Incomes
    BY DEF Pairs
  <2>2. CASE pair[2] = i
    <3>1. [SharesOf(before) EXCEPT ![<<0, i>>] = amount][<<0, i>>] = amount
      BY PairIs DEF SharesOf
    <3>2. SharesOf(after)[<<0, i>>] = amount
      BY ShareOfPair
    <3> QED BY <2>1, <2>2, <3>1, <3>2
  <2>3. CASE pair[2] # i
    <3>1. OfIncome(after, pair[2]) = OfIncome(before, pair[2])
      BY <2>1, <2>3
    <3>2. SharesOf(after)[pair] = SharesOf(before)[pair]
      BY <3>1 DEF SharesOf
    <3>3. pair # <<0, i>>
      BY <2>3
    <3> QED BY <3>2, <3>3 DEF SharesOf
  <2> QED BY <2>2, <2>3
<1>2. DOMAIN SharesOf(after) = Pairs
      /\ DOMAIN [SharesOf(before) EXCEPT ![<<0, i>>] = amount] = Pairs
  BY DEF SharesOf
<1>3. SharesOf(after) = [pair \in Pairs |-> SharesOf(after)[pair]]
  BY DEF SharesOf
<1>4. [SharesOf(before) EXCEPT ![<<0, i>>] = amount]
      = [pair \in Pairs |-> [SharesOf(before) EXCEPT ![<<0, i>>] = amount][pair]]
  BY DEF SharesOf
<1> HIDE DEF SharesOf
<1> QED BY <1>1, <1>3, <1>4

\* A link that is made allocates its income's share.
LEMMA LinkAllocates ==
    ASSUME ClientSound, LinksFit(links), IsFiniteSet(Incomes),
           NEW income \in Incomes, NEW amount \in 1..IncomeAmount[income],
           Create(income, amount)
    PROVE  Shared!Allocate(0, income) /\ LinksFit(links')
<1> DEFINE n == changes + 1
           l == [id |-> n, income |-> income, amount |-> amount]
<1>1. LinksKept(links, changes) /\ links \in LinkSets
  BY DEF ClientSound, LinksKept
<1>2. links' = links \cup {l} /\ income \notin Linked(links) /\ amount <= Remaining(links)
  BY DEF Create, Accepts
<1>3. IncomeAmount[income] \in Nat \ {0} /\ ExpenseAmount \in Nat \ {0}
  BY ClientAssumption
<1>4. amount \in Nat /\ amount \in 1..IncomeAmount[income]
  BY <1>3
<1>5. l.id = n /\ l.income = income /\ l.amount = amount
  OBVIOUS
<1>6. l \in LinkRow
  <2>1. n \in Nat
    BY <1>1, LinksBound DEF LinksKept
  <2> HIDE DEF n
  <2> QED BY <1>4, <2>1 DEF LinkRow
<1>7. \A k \in links : k.id # n
  <2> SUFFICES ASSUME NEW k \in links PROVE k.id # n
    OBVIOUS
  <2>1. k.id \in Int /\ k.id <= changes /\ changes \in Int
    BY <1>1, RowFields, LinksBound DEF LinksKept, LinkSets
  <2> QED BY <2>1
<1> HIDE DEF l, n
<1>8. \A k \in links : k.income # income
  BY <1>2 DEF Linked
<1>9. LinksFit(links \cup {l})
  <2>1. Fits(l)
    BY <1>4, <1>5 DEF Fits
  <2> QED BY <1>5, <1>7, <1>8, <2>1 DEF LinksFit
<1>10. SharesOf(links') = [SharesOf(links) EXCEPT ![<<0, income>>] = amount]
  <2>1. OfIncome(links \cup {l}, income) = {l}
    BY <1>5, <1>8 DEF OfIncome
  <2>2. \A j \in Incomes \ {income} : OfIncome(links \cup {l}, j) = OfIncome(links, j)
    BY <1>5 DEF OfIncome
  <2>3. LinkedTotal(OfIncome(links \cup {l}, income)) = amount
    BY <1>5, <1>6, <2>1, TotalOne
  <2> DEFINE after == links \cup {l}
  <2> HIDE DEF after
  <2>4. SharesOf(after) = [SharesOf(links) EXCEPT ![<<0, income>>] = amount]
    BY <2>2, <2>3, OneShare DEF after
  <2> QED BY <1>2, <2>4 DEF after
<1>11. SharesOf(links)[<<0, income>>] = 0
  BY <1>1, <1>2, ShareIs
<1>12. Shared!Handed(0) + amount <= -Amounts[0]
  <2>1. Shared!Handed(0) = LinkedTotal(links) /\ LinkedTotal(links) \in Int
    BY <1>1, HandedIsLinked, TotalIsInt
  <2>2. Amounts[0] = -ExpenseAmount
    BY AmountsAre
  <2> QED BY <1>2, <1>3, <1>4, <2>1, <2>2 DEF Remaining
<1>13. Shared!Taken(income) + amount <= Amounts[income]
  <2>1. Shared!Taken(income) = 0
    BY <1>1, <1>11, TakenIsShare
  <2>2. Amounts[income] = IncomeAmount[income]
    BY AmountsAre
  <2> QED BY <1>3, <1>4, <2>1, <2>2
<1>14. amount \in 1..Amounts[income]
  BY <1>4, AmountsAre
<1>15. Shared!Allocate(0, income)
  BY <1>10, <1>11, <1>12, <1>13, <1>14, PairIs
     DEF Shared!Allocate, SharesOf, OfIncome, Pairs, Amounts
<1> QED BY <1>2, <1>9, <1>15

\* A link that is deleted releases its share.
LEMMA UnlinkReleases ==
    ASSUME ClientSound, LinksFit(links), NEW id, Delete(id)
    PROVE  (\E income \in Incomes : Shared!Release(0, income)) /\ LinksFit(links')
<1>1. links \in LinkSets
  BY DEF ClientSound, LinksKept
<1>2. PICK l \in links : l.id = id
  BY DEF Delete
<1> DEFINE rest == {k \in links : k.id # id}
           income == l.income
<1>3. links' = rest
  BY DEF Delete
<1>4. LinksFit(rest)
  BY DEF LinksFit
<1>5. /\ income \in Incomes /\ OfIncome(links, income) = {l}
      /\ SharesOf(links)[<<0, income>>] = l.amount
  BY <1>1, ShareIs
<1>6. l.amount > 0
  <2>1. l.amount \in 1..IncomeAmount[income] /\ IncomeAmount[income] \in Nat
    BY <1>5, ClientAssumption DEF LinksFit, Fits
  <2> QED BY <2>1
<1>7. OfIncome(rest, income) = {}
  BY <1>2, <1>5 DEF OfIncome
<1>8. \A j \in Incomes \ {income} : OfIncome(rest, j) = OfIncome(links, j)
  BY <1>2 DEF OfIncome, LinksFit
<1> HIDE DEF rest, income
<1>9. SharesOf(links') = [SharesOf(links) EXCEPT ![<<0, income>>] = 0]
  <2>1. LinkedTotal(OfIncome(rest, income)) = 0
    BY <1>7, TotalNone
  <2>2. SharesOf(rest) = [SharesOf(links) EXCEPT ![<<0, income>>] = 0]
    BY <1>5, <1>8, <2>1, OneShare
  <2> QED BY <1>3, <2>2
<1>10. SharesOf(links)[<<0, income>>] > 0
  BY <1>5, <1>6
<1>11. Shared!Release(0, income)
  BY <1>9, <1>10 DEF Shared!Release, SharesOf, OfIncome, Pairs
<1> QED BY <1>3, <1>4, <1>5, <1>11

\* The clients of an expense, drops with their undo, sheets that were closed and other
\* tabs, whose answers come late and in any order, together do to its links what the
\* Worker promises (module Allocation): each link made hands out what the expense and
\* the income have left, each one removed gives it back, and nothing else changes
\* them, for any finite number of incomes.
THEOREM ClientsImplementAllocation ==
    ASSUME IsFiniteSet(Incomes)
    PROVE  CompensationClientSpec => ClientsAllocate
<1> DEFINE Sound == ClientSound /\ OffersFit /\ LinksFit(links)
<1>1. ASSUME CompensationClientInit PROVE Sound /\ Shared!Init
  <2>1. links = {}
    BY <1>1 DEF CompensationClientInit
  <2>2. LinksFit({})
    BY DEF LinksFit
  <2>3. SharesOf({}) = [pair \in Pairs |-> 0]
    <3>1. \A pair \in Pairs : OfIncome({}, pair[2]) = {}
      BY DEF OfIncome
    <3> QED BY <3>1, TotalNone DEF SharesOf
  <2>4. Shared!Init
    BY <2>1, <2>3 DEF Shared!Init, SharesOf, OfIncome, Pairs
  <2> QED BY <1>1, <2>1, <2>2, <2>4, ClientSoundInit, OffersFitInit
<1>2. ASSUME Sound, [CompensationClientNext]_compensationClientVars
      PROVE  LinksFit(links') /\ (Shared!Next \/ UNCHANGED SharesOf(links))
  <2>1. CASE links' = links
    BY <1>2, <2>1
  <2>2. ASSUME NEW income \in Incomes, NEW amount \in 1..IncomeAmount[income],
               Create(income, amount)
        PROVE  LinksFit(links') /\ Shared!Next
    <3>1. Shared!Allocate(0, income) /\ LinksFit(links')
      BY <1>2, <2>2, LinkAllocates
    <3> QED BY <3>1 DEF Shared!Next
  <2>3. ASSUME NEW id, Delete(id) PROVE LinksFit(links') /\ Shared!Next
    <3>1. (\E income \in Incomes : Shared!Release(0, income)) /\ LinksFit(links')
      BY <1>2, <2>3, UnlinkReleases
    <3> QED BY <3>1 DEF Shared!Next
  <2>4. CASE UNCHANGED compensationClientVars
    BY <2>1, <2>4 DEF compensationClientVars
  <2>5. CASE CompensationClientNext
    <3>1. \/ links' = links
          \/ \E income \in Incomes : \E amount \in 1..IncomeAmount[income] :
                Create(income, amount)
          \/ \E id : Delete(id)
      BY <1>2, <2>5, LinksMove
    <3> QED BY <2>1, <2>2, <2>3, <3>1
  <2> QED BY <1>2, <2>4, <2>5
<1>3. Sound /\ [CompensationClientNext]_compensationClientVars => Sound'
  BY <1>2, ClientSoundStep, OffersFitStep
<1>4. Sound /\ [CompensationClientNext]_compensationClientVars
      => [Shared!Next]_(SharesOf(links))
  BY <1>2
<1> HIDE DEF Sound
<1>5. CompensationClientInit /\ [][CompensationClientNext]_compensationClientVars
      => Shared!Init /\ [][Shared!Next]_(SharesOf(links))
  BY <1>1, <1>3, <1>4, PTL
<1> QED BY <1>5, PTL DEF CompensationClientSpec, ClientsAllocate, Shared!Spec, SharesOf,
          OfIncome, Pairs
=============================================================================
