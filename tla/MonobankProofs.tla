--------------------------- MODULE MonobankProofs ---------------------------
(* What the Worker keeps about the bank, for every number of callers,      *)
(* refreshes, accounts and answers, and what a dashboard that refreshes    *)
(* them keeps of that.                                                     *)
EXTENDS MonobankGate, Accounts, MonobankData, DashboardReports, SyncStates, TLAPS

-----------------------------------------------------------------------------
(* The request gate *)

USE GateAssumption

\* The row is never behind the latest reservation or deferral.
RowCurrent ==
    /\ Interval <= clock
    /\ deferredTo <= nextAllowedAt
    /\ \/ lastReserved + Interval <= nextAllowedAt
       \/ lastReserved = 0 /\ nextAllowedAt = 0

\* A caller reserves with a reading of the past; one that may send has the
\* reading of some reservation, and reservations are an interval apart.
ReadingsApart ==
    \A c \in Callers :
        /\ caller[c].pc = "defer" => Interval <= caller[c].at
        /\ caller[c].pc \in {"reserve", "send"} =>
             Interval <= caller[c].at /\ caller[c].at <= clock
        /\ caller[c].pc = "send" =>
             /\ caller[c].at <= lastReserved
             /\ \A d \in Callers : d # c /\ caller[d].pc = "send" =>
                  \/ caller[c].at + Interval <= caller[d].at
                  \/ caller[d].at + Interval <= caller[c].at

\* How far the latest request may be from a caller about to send. The second
\* case needs a delay of an interval, for then readings and requests may cross.
SendsApart ==
    /\ lastSent <= clock
    /\ lastSent <= lastReserved + MaxDelay
    /\ \A c \in Callers :
         /\ caller[c].pc \in {"reserve", "send"} => clock <= caller[c].at + MaxDelay
         /\ caller[c].pc = "send" =>
              \/ lastSent + Interval <= caller[c].at + MaxDelay
              \/ caller[c].at + Interval <= clock

GateInv == TypeInvariant /\ RowCurrent /\ ReadingsApart /\ SendsApart

LEMMA GateInvInit == Init => GateInv
BY DEF Init, GateInv, TypeInvariant, RowCurrent, ReadingsApart, SendsApart, Steps

LEMMA GateInvStep == GateInv /\ [Next]_vars => GateInv'
<1> SUFFICES ASSUME GateInv, [Next]_vars PROVE GateInv'
  OBVIOUS
<1> USE DEF GateInv, TypeInvariant, RowCurrent, ReadingsApart, SendsApart, Steps
<1>1. CASE UNCHANGED vars
  BY <1>1 DEF vars
<1>2. CASE Tick
  BY <1>2 DEF Tick, history
<1>3. ASSUME NEW c \in Callers, Acquire(c) PROVE GateInv'
  BY <1>3 DEF Acquire, Go, history
<1>4. ASSUME NEW c \in Callers, Reserve(c) PROVE GateInv'
  <2>1. caller[c].at >= lastReserved + Interval
    BY <1>4 DEF Reserve, Free
  <2> QED BY <1>4, <2>1 DEF Reserve, Free, Reserved, Go
<1>5. ASSUME NEW c \in Callers, Refused(c) \/ Answered(c) PROVE GateInv'
  BY <1>5 DEF Refused, Answered, Go, history
<1>6. ASSUME NEW c \in Callers, Send(c) PROVE GateInv'
  BY <1>6 DEF Send, Go
<1>7. ASSUME NEW c \in Callers, TooManyRequests(c) PROVE GateInv'
  BY <1>7 DEF TooManyRequests, Go, history
<1>8. ASSUME NEW c \in Callers, Defer(c) PROVE GateInv'
  BY <1>8 DEF Defer, Deferred, Later, Go
<1> QED BY <1>1, <1>2, <1>3, <1>4, <1>5, <1>6, <1>7, <1>8 DEF Next, Call

\* A reservation is granted no earlier than the row allows.
LEMMA GrantedReading ==
    ASSUME GateInv, [Next]_vars, NEW c \in Callers, Granting(c)
    PROVE  caller[c].at >= nextAllowedAt
<1> USE DEF GateInv, TypeInvariant, Granting
<1>1. PICK d \in Callers : Call(d)
  BY DEF Next, Tick, history, vars
<1>2. d = c
  BY <1>1 DEF Call, Acquire, Reserve, Refused, Send, Answered, TooManyRequests,
              Defer, Go, Steps
<1> QED BY <1>1, <1>2 DEF Call, Acquire, Reserve, Refused, Send, Answered,
                          TooManyRequests, Defer, Go, Free, Steps

\* Reservations are spaced by the interval.
THEOREM ReservationsAreSpaced == Spec => ReservationsSpaced
<1>1. GateInv /\ [Next]_vars =>
        [\A c \in Callers : Granting(c) => caller[c].at >= lastReserved + Interval]_vars
  <2> SUFFICES ASSUME GateInv, [Next]_vars, NEW c \in Callers, Granting(c)
               PROVE  caller[c].at >= lastReserved + Interval
    OBVIOUS
  <2>1. caller[c].at >= nextAllowedAt
    BY GrantedReading
  <2> QED BY <2>1 DEF GateInv, TypeInvariant, RowCurrent, ReadingsApart, Granting
<1> QED BY <1>1, GateInvInit, GateInvStep, PTL DEF Spec, ReservationsSpaced

\* A recorded deferral holds every later reservation back.
THEOREM DeferralIsHonoured == Spec => DeferralHonoured
<1>1. GateInv /\ [Next]_vars =>
        [\A c \in Callers : Granting(c) => caller[c].at >= deferredTo]_vars
  <2> SUFFICES ASSUME GateInv, [Next]_vars, NEW c \in Callers, Granting(c)
               PROVE  caller[c].at >= deferredTo
    OBVIOUS
  <2>1. caller[c].at >= nextAllowedAt
    BY GrantedReading
  <2> QED BY <2>1 DEF GateInv, TypeInvariant, RowCurrent
<1> QED BY <1>1, GateInvInit, GateInvStep, PTL DEF Spec, DeferralHonoured

\* Requests are spaced by the interval less the longest delay.
THEOREM RequestsAreSpaced == Spec => RequestsSpaced
<1>1. GateInv /\ [Next]_vars =>
        [\A c \in Callers : Sending(c) => clock >= lastSent + Interval - MaxDelay]_vars
  BY DEF GateInv, TypeInvariant, SendsApart, ReadingsApart, Sending
<1> QED BY <1>1, GateInvInit, GateInvStep, PTL DEF Spec, RequestsSpaced

HIDE GateAssumption

-----------------------------------------------------------------------------
(* The accounts *)

Changes == 0..MaxChanges
RunIds == 0..MaxRefreshes
AccountRow == [id : RunIds, balance : Changes, active : BOOLEAN]
AccountList == [batch : Nat, accounts : SUBSET BankAccounts, cards : SUBSET Cards]
Refresh == [pc : {"idle", "fetch", "fetched", "read", "stored", "answered"}, run : RunIds,
            snapshot : Snapshots, known : [BankAccounts -> RunIds], floor : Nat,
            list : AccountList]
AccountGet == [pc : {"none", "sent", "read"}, list : AccountList]
AccountBrowser == [mutation : Refreshes \cup {Idle}, get : AccountGet,
                   shown : AccountList, overlap : BOOLEAN]

\* A refresh's snapshot is at least as new as what was stored when it began.
RefreshSound(q, change, batch) ==
    /\ q.pc # "idle" => q.run > 0
    /\ q.pc = "fetch" => q.floor <= change
    /\ q.pc \in {"fetched", "read", "stored", "answered"} =>
         q.floor <= q.snapshot.change /\ q.snapshot.change <= change
    /\ q.list.batch <= batch

\* A GET that no mutation overlaps was sent after the list on the screen was stored.
BrowserSound(b, batch) ==
    /\ b.shown.batch <= batch /\ b.get.list.batch <= batch
    /\ b.get.pc # "none" => b.overlap \/ b.mutation = Idle
    /\ b.get.pc = "read" => b.overlap \/ b.shown.batch <= b.get.list.batch

TablesSound ==
    /\ accountRow \in [BankAccounts -> AccountRow]
    /\ cardRow \in [Cards -> {"none", "active", "inactive"}]
    /\ hasSyncState \subseteq BankAccounts
    /\ lastStored.snapshot \in Snapshots /\ lastStored.batch \in Nat
    /\ ActiveIsLastStored /\ EveryAccountSynchronizable

AccountsSound ==
    /\ bank \in Snapshots /\ refreshes \in RunIds
    /\ TablesSound /\ lastStored.snapshot.change <= bank.change
    /\ refresh \in [Refreshes -> Refresh]
    /\ \A r \in Refreshes : RefreshSound(refresh[r], bank.change, lastStored.batch)
    /\ browser \in AccountBrowser /\ BrowserSound(browser, lastStored.batch)

LEMMA SnapshotFields ==
    /\ \A s \in Snapshots : /\ s.change \in Changes /\ s.accounts \in SUBSET BankAccounts
                            /\ s.cards \in SUBSET Cards
    /\ \A c \in Changes, a \in SUBSET BankAccounts, k \in SUBSET Cards :
          [change |-> c, accounts |-> a, cards |-> k] \in Snapshots
BY DEF Snapshots, Changes

LEMMA ListFields ==
    /\ \A s \in AccountList : s.batch \in Nat
    /\ \A b \in Nat, a \in SUBSET BankAccounts, k \in SUBSET Cards :
          [batch |-> b, accounts |-> a, cards |-> k] \in AccountList
    /\ NoList \in AccountList /\ NoList.batch = 0
BY DEF AccountList, NoList

LEMMA AtRestFields ==
    /\ AtRest \in Refresh /\ AtRest.pc = "idle" /\ AtRest.list.batch = 0
    /\ Nothing \in Snapshots /\ Nothing.change = 0
    /\ Nothing.accounts = {} /\ Nothing.cards = {}
<1>1. Nothing \in Snapshots /\ Nothing.change = 0 /\ Nothing.accounts = {}
      /\ Nothing.cards = {}
  BY AccountsAssumption DEF Nothing, Snapshots
<1>2. [a \in BankAccounts |-> 0] \in [BankAccounts -> RunIds] /\ 0 \in RunIds
  BY AccountsAssumption DEF RunIds
<1>3. AtRest \in Refresh
  BY <1>1, <1>2, ListFields DEF AtRest, Refresh
<1> QED BY <1>1, <1>3, ListFields DEF AtRest

\* The fields of a refresh.
LEMMA RefreshFields ==
    \A q \in Refresh :
        /\ q.run \in RunIds /\ q.snapshot \in Snapshots /\ q.known \in [BankAccounts -> RunIds]
        /\ q.floor \in Nat /\ q.list \in AccountList
        /\ q.pc \in {"idle", "fetch", "fetched", "read", "stored", "answered"}
BY DEF Refresh

LEMMA AccountsSoundInit == AccountsInit => AccountsSound
<1> SUFFICES ASSUME AccountsInit PROVE AccountsSound
  OBVIOUS
<1>1. bank \in Snapshots /\ bank.change = 0 /\ refreshes \in RunIds
  BY AccountsAssumption, SnapshotFields DEF AccountsInit, Changes, RunIds
<1>2. TablesSound
  <2>1. NoAccount \in AccountRow /\ ~NoAccount.active /\ NoAccount.id = 0
    BY AccountsAssumption DEF NoAccount, AccountRow, RunIds, Changes
  <2>2. ActiveIsLastStored
    BY <2>1, AtRestFields DEF ActiveIsLastStored, AccountsInit
  <2>3. EveryAccountSynchronizable
    BY <2>1 DEF EveryAccountSynchronizable, AccountsInit
  <2>4. lastStored.snapshot \in Snapshots /\ lastStored.batch \in Nat
    BY AtRestFields DEF AccountsInit
  <2> QED BY <2>1, <2>2, <2>3, <2>4 DEF TablesSound, AccountsInit
<1>3. lastStored.snapshot.change = 0 /\ lastStored.batch = 0
  BY AtRestFields DEF AccountsInit
<1>4. refresh \in [Refreshes -> Refresh] /\ \A r \in Refreshes : refresh[r] = AtRest
  BY AtRestFields DEF AccountsInit
<1>5. RefreshSound(AtRest, bank.change, lastStored.batch)
  BY AtRestFields, <1>3 DEF RefreshSound
<1>6. browser \in AccountBrowser
  BY ListFields DEF AccountsInit, AccountBrowser, AccountGet, NoGet
<1>7. BrowserSound(browser, lastStored.batch)
  BY <1>3, ListFields DEF AccountsInit, BrowserSound, NoGet
<1> QED BY <1>1, <1>2, <1>3, <1>4, <1>5, <1>6, <1>7 DEF AccountsSound

\* A step of one refresh that stores nothing.
LEMMA RefreshStep ==
    ASSUME AccountsSound, NEW r \in Refreshes, NEW q, q \in Refresh,
           RefreshSound(q, bank.change, lastStored.batch),
           refresh' = [refresh EXCEPT ![r] = q], refreshes' \in RunIds,
           UNCHANGED <<bank, accountTables>>,
           browser' \in AccountBrowser, BrowserSound(browser', lastStored.batch)
    PROVE  AccountsSound'
<1>1. /\ bank' = bank /\ accountRow' = accountRow /\ cardRow' = cardRow
      /\ hasSyncState' = hasSyncState /\ lastStored' = lastStored
  BY DEF accountTables
<1>2. TablesSound'
  BY <1>1 DEF AccountsSound, TablesSound, ActiveIsLastStored, EveryAccountSynchronizable
<1>3. refresh' \in [Refreshes -> Refresh]
  BY DEF AccountsSound
<1>4. ASSUME NEW t \in Refreshes
      PROVE  RefreshSound(refresh'[t], bank.change, lastStored.batch)
  BY DEF AccountsSound
<1> QED BY <1>1, <1>2, <1>3, <1>4 DEF AccountsSound

\* The mutation of the browser ends without an answer.
LEMMA MutationEnds ==
    ASSUME NEW b, b \in AccountBrowser, NEW batch, BrowserSound(b, batch)
    PROVE  /\ [b EXCEPT !.mutation = Idle] \in AccountBrowser
           /\ BrowserSound([b EXCEPT !.mutation = Idle], batch)
<1> DEFINE c == [b EXCEPT !.mutation = Idle]
<1>1. c \in AccountBrowser
  BY DEF AccountBrowser
<1>2. c.get = b.get /\ c.shown = b.shown /\ (b.overlap => c.overlap) /\ c.mutation = Idle
  BY DEF AccountBrowser
<1> HIDE DEF c
<1>3. BrowserSound(c, batch)
  BY <1>2 DEF BrowserSound
<1> QED BY <1>1, <1>3 DEF c
\* What the answer of a refresh, or of a GET, does to the list on the screen.
LEMMA ListShown ==
    ASSUME NEW b, b \in AccountBrowser, NEW batch, NEW list, list \in AccountList,
           list.batch <= batch, BrowserSound(b, batch), b.mutation # Idle
    PROVE  /\ [b EXCEPT !.mutation = Idle, !.shown = list] \in AccountBrowser
           /\ b.get.pc = "read" => b.overlap
           /\ BrowserSound([b EXCEPT !.mutation = Idle, !.shown = list], batch)
<1> DEFINE c == [b EXCEPT !.mutation = Idle, !.shown = list]
<1>1. c \in AccountBrowser
  BY DEF AccountBrowser
<1>2. c.get = b.get /\ c.shown = list /\ (b.overlap => c.overlap) /\ c.mutation = Idle
  BY DEF AccountBrowser
<1>3. b.get.pc = "read" => b.overlap
  BY DEF BrowserSound
<1> HIDE DEF c
<1>4. BrowserSound(c, batch)
  BY <1>2, <1>3 DEF BrowserSound
<1> QED BY <1>1, <1>3, <1>4 DEF c

\* The batch of a refresh leaves every table that of its snapshot.
LEMMA StoreSound ==
    ASSUME TablesSound, NEW r \in Refreshes, refresh[r] \in Refresh,
           refresh[r].run > 0, Store(r)
    PROVE  /\ TablesSound' /\ lastStored'.snapshot = refresh[r].snapshot
           /\ lastStored'.batch = lastStored.batch + 1
           /\ \A a \in BankAccounts :
                 accountRow[a].id # 0 => accountRow'[a].id = accountRow[a].id
<1> DEFINE snapshot == refresh[r].snapshot
<1>1. /\ accountRow' = [a \in BankAccounts |-> StoredAccount(r, a)]
      /\ cardRow' = [c \in Cards |-> StoredCard(r, c)]
      /\ hasSyncState' = hasSyncState \cup snapshot.accounts
      /\ lastStored' = [snapshot |-> snapshot, batch |-> lastStored.batch + 1]
  BY DEF Store, GivenState
<1>2. /\ snapshot \in Snapshots /\ snapshot.change \in Changes
      /\ snapshot.accounts \subseteq BankAccounts /\ snapshot.cards \subseteq Cards
  BY RefreshFields, SnapshotFields
<1>k. refresh[r].known \in [BankAccounts -> RunIds] /\ refresh[r].run \in RunIds
  BY RefreshFields
<1>i. RunIds \subseteq Nat
  BY AccountsAssumption DEF RunIds
<1> HIDE DEF snapshot
<1>3. ASSUME NEW a \in BankAccounts
      PROVE  /\ accountRow'[a] \in AccountRow
             /\ accountRow'[a].active <=> a \in snapshot.accounts
             /\ accountRow'[a].id # 0 <=> (a \in snapshot.accounts \/ accountRow[a].id # 0)
             /\ accountRow[a].id # 0 => accountRow'[a].id = accountRow[a].id
  <2>1. accountRow'[a] = StoredAccount(r, a) /\ accountRow[a] \in AccountRow
    BY <1>1 DEF TablesSound
  <2>2. CASE a \in snapshot.accounts
    <3> DEFINE row == [id |-> Kept(r, a), balance |-> snapshot.change, active |-> TRUE]
    <3>1. accountRow'[a] = row
      BY <2>1, <2>2 DEF StoredAccount, snapshot
    <3>2. Chosen(r, a) \in RunIds /\ Chosen(r, a) # 0
      BY <1>k, <1>i DEF Chosen
    <3>3. accountRow[a].id \in RunIds
      BY <2>1 DEF AccountRow
    <3>4. Kept(r, a) \in RunIds /\ Kept(r, a) # 0
          /\ (accountRow[a].id # 0 => Kept(r, a) = accountRow[a].id)
      BY <3>2, <3>3 DEF Kept
    <3>5. row \in AccountRow /\ row.active /\ row.id = Kept(r, a)
      BY <1>2, <3>4 DEF AccountRow
    <3> HIDE DEF row
    <3> QED BY <2>2, <3>1, <3>4, <3>5
  <2>3. CASE a \notin snapshot.accounts
    <3> DEFINE row == [accountRow[a] EXCEPT !.active = FALSE]
    <3>1. accountRow'[a] = row
      BY <2>1, <2>3 DEF StoredAccount, snapshot
    <3>2. row \in AccountRow /\ ~row.active /\ row.id = accountRow[a].id
      BY <2>1 DEF AccountRow
    <3> HIDE DEF row
    <3> QED BY <2>3, <3>1, <3>2
  <2> QED BY <2>2, <2>3
<1>4. accountRow' \in [BankAccounts -> AccountRow]
  BY <1>1, <1>3
<1>5. ASSUME NEW c \in Cards
      PROVE  /\ cardRow'[c] \in {"none", "active", "inactive"}
             /\ cardRow'[c] = "active" <=> c \in snapshot.cards
  <2>1. cardRow'[c] = StoredCard(r, c)
    BY <1>1
  <2>2. CASE c \in snapshot.cards
    BY <2>1, <2>2 DEF StoredCard, snapshot
  <2>3. CASE c \notin snapshot.cards
    BY <2>1, <2>3 DEF StoredCard, snapshot
  <2> QED BY <2>2, <2>3
<1>6. cardRow' \in [Cards -> {"none", "active", "inactive"}]
  BY <1>1, <1>5
<1>7. lastStored'.snapshot = snapshot /\ lastStored'.batch = lastStored.batch + 1
  BY <1>1
<1>8. ActiveIsLastStored'
  <2>1. {a \in BankAccounts : accountRow'[a].active} = snapshot.accounts
    BY <1>2, <1>3
  <2>2. {c \in Cards : cardRow'[c] = "active"} = snapshot.cards
    BY <1>2, <1>5
  <2> QED BY <1>7, <2>1, <2>2 DEF ActiveIsLastStored
<1>9. EveryAccountSynchronizable'
  <2>1. hasSyncState = {a \in BankAccounts : accountRow[a].id # 0}
    BY DEF TablesSound, EveryAccountSynchronizable
  <2>2. hasSyncState' = {a \in BankAccounts : accountRow'[a].id # 0}
    BY <1>1, <1>2, <1>3, <2>1
  <2> QED BY <2>2 DEF EveryAccountSynchronizable
<1>10. hasSyncState' \subseteq BankAccounts
  BY <1>1, <1>2 DEF TablesSound
<1>11. lastStored'.snapshot \in Snapshots /\ lastStored'.batch \in Nat
  BY <1>2, <1>7 DEF TablesSound
<1>12. TablesSound'
  BY <1>4, <1>6, <1>8, <1>9, <1>10, <1>11 DEF TablesSound
<1> QED BY <1>3, <1>7, <1>12 DEF snapshot

\* What an accounts step must keep.
Follows ==
    /\ \A a \in BankAccounts : accountRow[a].id # 0 => accountRow'[a].id = accountRow[a].id
    /\ \A r \in Refreshes : refresh[r].pc = "read" /\ refresh'[r].pc = "stored"
          => lastStored'.snapshot.change >= refresh[r].floor
    /\ browser'.shown # browser.shown /\ browser'.mutation = browser.mutation
          => browser'.shown.batch >= browser.shown.batch \/ browser.overlap

LEMMA AccountsSoundStep == AccountsSound /\ [AccountsNext]_accountsVars => AccountsSound' /\ Follows
<1> SUFFICES ASSUME AccountsSound, [AccountsNext]_accountsVars PROVE AccountsSound' /\ Follows
  OBVIOUS
<1>t. /\ refresh \in [Refreshes -> Refresh] /\ refreshes \in RunIds /\ bank \in Snapshots
      /\ browser \in AccountBrowser /\ BrowserSound(browser, lastStored.batch)
      /\ TablesSound /\ lastStored.snapshot.change <= bank.change
      /\ lastStored.batch \in Nat /\ lastStored.snapshot \in Snapshots
  BY DEF AccountsSound, TablesSound
<1>n. /\ bank.change \in Nat /\ lastStored.snapshot.change \in Nat
      /\ \A q \in Refresh : q.floor \in Nat /\ q.snapshot.change \in Nat
                             /\ q.list.batch \in Nat
  BY <1>t, SnapshotFields, RefreshFields, ListFields, AccountsAssumption DEF Changes
<1>f. ASSUME UNCHANGED accountTables,
             \A r \in Refreshes : refresh[r].pc = "read" => refresh'[r].pc # "stored",
             browser'.shown # browser.shown /\ browser'.mutation = browser.mutation
               => browser'.shown.batch >= browser.shown.batch \/ browser.overlap
      PROVE  Follows
  BY <1>f DEF Follows, accountTables
<1>g. ASSUME NEW r \in Refreshes, NEW q, q \in Refresh,
             RefreshSound(q, bank.change, lastStored.batch), q.pc # "stored",
             refresh' = [refresh EXCEPT ![r] = q], refreshes' \in RunIds,
             UNCHANGED <<bank, accountTables>>,
             browser' \in AccountBrowser, BrowserSound(browser', lastStored.batch),
             browser'.shown # browser.shown => browser'.mutation # browser.mutation
      PROVE  AccountsSound' /\ Follows
  <2>1. AccountsSound'
    BY <1>g, RefreshStep
  <2>2. \A t \in Refreshes : refresh[t].pc = "read" => refresh'[t].pc # "stored"
    BY <1>t, <1>g
  <2> QED BY <1>f, <1>g, <2>1, <2>2
<1>1. CASE BankChanges
  <2>1. PICK accounts \in SUBSET BankAccounts, cards \in SUBSET Cards :
          bank' = [change |-> bank.change + 1, accounts |-> accounts, cards |-> cards]
    BY <1>1 DEF BankChanges
  <2>2. /\ bank.change < MaxChanges /\ refresh' = refresh /\ browser' = browser
        /\ refreshes' = refreshes /\ accountRow' = accountRow /\ cardRow' = cardRow
        /\ hasSyncState' = hasSyncState /\ lastStored' = lastStored
    BY <1>1 DEF BankChanges, accountTables
  <2>3. bank.change + 1 \in Changes
    BY <1>n, <2>2, AccountsAssumption DEF Changes
  <2>4. bank' \in Snapshots /\ bank'.change = bank.change + 1
    BY <2>1, <2>3, SnapshotFields
  <2>5. ASSUME NEW r \in Refreshes
        PROVE  RefreshSound(refresh[r], bank'.change, lastStored.batch)
    <3>1. RefreshSound(refresh[r], bank.change, lastStored.batch) /\ refresh[r] \in Refresh
      BY DEF AccountsSound
    <3>2. refresh[r].floor \in Nat /\ refresh[r].snapshot.change \in Nat
      BY <3>1, <1>n
    <3> QED BY <1>n, <2>4, <3>1, <3>2 DEF RefreshSound
  <2>6. lastStored.snapshot.change <= bank'.change
    BY <1>t, <1>n, <2>4
  <2>7. TablesSound'
    BY <1>t, <2>2 DEF TablesSound, ActiveIsLastStored, EveryAccountSynchronizable
  <2>8. AccountsSound'
    BY <1>t, <2>2, <2>4, <2>5, <2>6, <2>7 DEF AccountsSound
  <2> QED BY <1>f, <2>2, <2>8 DEF accountTables
<1>2. ASSUME NEW b, b \in AccountBrowser, BrowserSound(b, lastStored.batch), browser' = b,
             UNCHANGED <<bank, accountTables, refresh, refreshes>>,
             b.shown # browser.shown /\ b.mutation = browser.mutation
               => b.shown.batch >= browser.shown.batch \/ browser.overlap
      PROVE  AccountsSound' /\ Follows
  <2>1. /\ bank' = bank /\ refresh' = refresh /\ refreshes' = refreshes
        /\ accountRow' = accountRow /\ cardRow' = cardRow
        /\ hasSyncState' = hasSyncState /\ lastStored' = lastStored
    BY <1>2 DEF accountTables
  <2>2. TablesSound'
    BY <1>t, <2>1 DEF TablesSound, ActiveIsLastStored, EveryAccountSynchronizable
  <2>3. AccountsSound'
    BY <1>2, <2>1, <2>2 DEF AccountsSound
  <2> QED BY <1>2, <1>f, <2>1, <2>3
<1>l. Listed \in AccountList /\ Listed.batch = lastStored.batch
  BY <1>t, ListFields DEF Listed
<1>3. CASE GetAccounts
  <2> DEFINE over == browser.mutation # Idle
             b == [browser EXCEPT !.get.pc = "sent", !.overlap = over]
  <2>1. /\ browser' = b /\ browser.get = NoGet
        /\ UNCHANGED <<bank, accountTables, refresh, refreshes>>
    BY <1>3 DEF GetAccounts
  <2>2. b \in AccountBrowser
    BY <1>t DEF AccountBrowser, AccountGet
  <2>3. /\ b.get.pc = "sent" /\ b.get.list = browser.get.list /\ b.shown = browser.shown
        /\ b.mutation = browser.mutation
    BY <1>t DEF AccountBrowser, AccountGet
  <2>4. b.overlap \/ b.mutation = Idle
    BY <1>t, <2>3 DEF AccountBrowser
  <2> HIDE DEF b
  <2>5. BrowserSound(b, lastStored.batch)
    BY <1>t, <2>3, <2>4 DEF BrowserSound
  <2> QED BY <1>2, <2>1, <2>2, <2>3, <2>5
<1>4. CASE ListAccounts
  <2> DEFINE b == [browser EXCEPT !.get = [pc |-> "read", list |-> Listed]]
  <2>1. /\ browser' = b /\ browser.get.pc = "sent"
        /\ UNCHANGED <<bank, accountTables, refresh, refreshes>>
    BY <1>4 DEF ListAccounts
  <2>2. b \in AccountBrowser
    BY <1>t, <1>l DEF AccountBrowser, AccountGet
  <2>3. /\ b.get.pc = "read" /\ b.get.list = Listed /\ b.shown = browser.shown
        /\ b.mutation = browser.mutation /\ (browser.overlap => b.overlap)
    BY <1>t DEF AccountBrowser
  <2> HIDE DEF b
  <2>5. BrowserSound(b, lastStored.batch)
    BY <1>t, <1>l, <2>1, <2>3 DEF BrowserSound
  <2> QED BY <1>2, <2>1, <2>2, <2>3, <2>5
<1>5. CASE GetAnswered
  <2> DEFINE b == [browser EXCEPT !.get = NoGet, !.shown = browser.get.list, !.overlap = FALSE]
  <2>1. /\ browser' = b /\ browser.get.pc = "read"
        /\ UNCHANGED <<bank, accountTables, refresh, refreshes>>
    BY <1>5 DEF GetAnswered
  <2>2. NoGet \in AccountGet /\ NoGet.pc = "none" /\ NoGet.list.batch = 0
    BY ListFields DEF NoGet, AccountGet
  <2>3. browser.get \in AccountGet /\ browser.get.list \in AccountList
    BY <1>t DEF AccountBrowser, AccountGet
  <2>4. b \in AccountBrowser
    BY <1>t, <2>2, <2>3 DEF AccountBrowser
  <2>5. b.get = NoGet /\ b.shown = browser.get.list
    BY <1>t DEF AccountBrowser
  <2>6. browser.overlap \/ browser.shown.batch <= browser.get.list.batch
    BY <1>t, <2>1 DEF BrowserSound
  <2>7. browser.get.list.batch \in Nat /\ browser.shown.batch \in Nat
    BY <1>t, <2>3, ListFields DEF AccountBrowser
  <2> HIDE DEF b
  <2>8. BrowserSound(b, lastStored.batch)
    BY <1>t, <2>2, <2>5 DEF BrowserSound
  <2> QED BY <1>2, <2>1, <2>4, <2>5, <2>6, <2>7, <2>8
<1>b. ASSUME NEW r \in Refreshes, Begin(r)
      PROVE  \E q \in Refresh : /\ refresh' = [refresh EXCEPT ![r] = q]
                                /\ RefreshSound(q, bank.change, lastStored.batch)
                                /\ q.pc = "fetch" /\ refreshes' \in RunIds
  <2> DEFINE run == refreshes + 1
             floor == lastStored.snapshot.change
             q == [AtRest EXCEPT !.pc = "fetch", !.run = run, !.floor = floor]
  <2>1. refreshes < MaxRefreshes /\ refreshes' = run /\ refresh' = [refresh EXCEPT ![r] = q]
    BY <1>b DEF Begin
  <2>2. run \in RunIds /\ run > 0 /\ floor \in Nat /\ floor <= bank.change
    BY <1>t, <1>n, <2>1, AccountsAssumption DEF RunIds
  <2> HIDE DEF run, floor
  <2>3. q \in Refresh
    BY <2>2, AtRestFields DEF Refresh
  <2>4. q.pc = "fetch" /\ q.run = run /\ q.floor = floor /\ q.list = AtRest.list
    BY AtRestFields DEF Refresh
  <2> HIDE DEF q
  <2>5. RefreshSound(q, bank.change, lastStored.batch)
    BY <1>t, <2>2, <2>4, AtRestFields DEF RefreshSound
  <2> QED BY <2>1, <2>2, <2>3, <2>4, <2>5
<1>6. ASSUME NEW r \in Refreshes, Sync(r) PROVE AccountsSound' /\ Follows
  <2> DEFINE b == [browser EXCEPT !.mutation = r, !.get = NoGet, !.overlap = FALSE]
  <2>1. browser' = b /\ UNCHANGED <<bank, accountTables>> /\ Begin(r)
    BY <1>6 DEF Sync
  <2>2. PICK q \in Refresh : /\ refresh' = [refresh EXCEPT ![r] = q]
                             /\ RefreshSound(q, bank.change, lastStored.batch)
                             /\ q.pc = "fetch" /\ refreshes' \in RunIds
    BY <1>b, <2>1
  <2>3. NoGet \in AccountGet /\ NoGet.pc = "none" /\ NoGet.list.batch = 0
    BY ListFields DEF NoGet, AccountGet
  <2>4. b \in AccountBrowser
    BY <1>t, <2>3 DEF AccountBrowser
  <2>5. b.get = NoGet /\ b.shown = browser.shown
    BY <1>t DEF AccountBrowser
  <2> HIDE DEF b
  <2>6. BrowserSound(b, lastStored.batch)
    BY <1>t, <2>3, <2>5 DEF BrowserSound
  <2> QED BY <1>g, <2>1, <2>2, <2>4, <2>5, <2>6
<1>7. ASSUME NEW r \in Refreshes, SyncElsewhere(r) PROVE AccountsSound' /\ Follows
  <2>1. browser' = browser /\ UNCHANGED <<bank, accountTables>> /\ Begin(r)
    BY <1>7 DEF SyncElsewhere
  <2>2. PICK q \in Refresh : /\ refresh' = [refresh EXCEPT ![r] = q]
                             /\ RefreshSound(q, bank.change, lastStored.batch)
                             /\ q.pc = "fetch" /\ refreshes' \in RunIds
    BY <1>b, <2>1
  <2> QED BY <1>g, <1>t, <2>1, <2>2
<1>r. ASSUME NEW r \in Refreshes
      PROVE  refresh[r] \in Refresh /\ RefreshSound(refresh[r], bank.change, lastStored.batch)
  BY DEF AccountsSound
<1>8. ASSUME NEW r \in Refreshes, FetchClientInfo(r) PROVE AccountsSound' /\ Follows
  <2> DEFINE q == [refresh[r] EXCEPT !.pc = "fetched", !.snapshot = bank]
  <2>1. /\ refresh[r].pc = "fetch" /\ UNCHANGED <<bank, accountTables>>
        /\ refresh' = [refresh EXCEPT ![r].pc = "fetched", ![r].snapshot = bank]
        /\ refreshes' = refreshes /\ browser' = browser
    BY <1>8 DEF FetchClientInfo
  <2>2. refresh' = [refresh EXCEPT ![r] = q]
    BY <1>t, <2>1 DEF Refresh
  <2>3. q \in Refresh
    BY <1>t, <1>r DEF Refresh
  <2>4. q.pc = "fetched" /\ q.snapshot = bank /\ q.run = refresh[r].run
        /\ q.floor = refresh[r].floor /\ q.list = refresh[r].list
    BY <1>r DEF Refresh
  <2> HIDE DEF q
  <2>5. RefreshSound(q, bank.change, lastStored.batch)
    BY <1>n, <1>r, <2>1, <2>4 DEF RefreshSound
  <2> QED BY <1>g, <1>t, <2>1, <2>2, <2>3, <2>4, <2>5
<1>a. RefreshSound(AtRest, bank.change, lastStored.batch)
  BY <1>t, AtRestFields DEF RefreshSound
<1>9. ASSUME NEW r \in Refreshes, FetchFails(r) \/ StoreFails(r)
      PROVE  AccountsSound' /\ Follows
  <2>1. /\ UNCHANGED <<bank, accountTables>> /\ refreshes' = refreshes
        /\ refresh' = [refresh EXCEPT ![r] = AtRest]
        /\ browser' = browser \/ browser' = [browser EXCEPT !.mutation = Idle]
    BY <1>9 DEF FetchFails, StoreFails
  <2>2. [browser EXCEPT !.mutation = Idle].shown = browser.shown
    BY <1>t DEF AccountBrowser
  <2>3. browser' \in AccountBrowser /\ BrowserSound(browser', lastStored.batch)
        /\ browser'.shown = browser.shown
    <3> DEFINE b == [browser EXCEPT !.mutation = Idle]
    <3>1. b \in AccountBrowser /\ BrowserSound(b, lastStored.batch)
      BY <1>t, MutationEnds
    <3>2. b.shown = browser.shown /\ (browser' = browser \/ browser' = b)
      BY <2>1, <2>2
    <3> HIDE DEF b
    <3> QED BY <1>t, <3>1, <3>2
  <2> QED BY <1>a, <1>g, <1>t, <2>1, <2>3, AtRestFields
<1>10. ASSUME NEW r \in Refreshes, ReadKnown(r) PROVE AccountsSound' /\ Follows
  <2> DEFINE known == [a \in BankAccounts |-> accountRow[a].id]
             q == [refresh[r] EXCEPT !.pc = "read", !.known = known]
  <2>1. /\ refresh[r].pc = "fetched" /\ UNCHANGED <<bank, accountTables>>
        /\ refresh' = [refresh EXCEPT ![r].pc = "read", ![r].known = known]
        /\ refreshes' = refreshes /\ browser' = browser
    BY <1>10 DEF ReadKnown
  <2>2. known \in [BankAccounts -> RunIds]
    BY <1>t DEF TablesSound, AccountRow
  <2>3. refresh' = [refresh EXCEPT ![r] = q]
    BY <1>t, <2>1 DEF Refresh
  <2> HIDE DEF known
  <2>4. q \in Refresh
    BY <1>r, <2>2 DEF Refresh
  <2>5. q.pc = "read" /\ q.snapshot = refresh[r].snapshot /\ q.run = refresh[r].run
        /\ q.floor = refresh[r].floor /\ q.list = refresh[r].list
    BY <1>r DEF Refresh
  <2> HIDE DEF q
  <2>6. RefreshSound(q, bank.change, lastStored.batch)
    BY <1>r, <2>1, <2>5 DEF RefreshSound
  <2> QED BY <1>g, <1>t, <2>1, <2>3, <2>4, <2>5, <2>6
<1>11. ASSUME NEW r \in Refreshes, Store(r) PROVE AccountsSound' /\ Follows
  <2> DEFINE q == [refresh[r] EXCEPT !.pc = "stored"]
  <2>1. /\ refresh[r].pc = "read" /\ bank' = bank /\ refreshes' = refreshes
        /\ refresh' = [refresh EXCEPT ![r].pc = "stored"] /\ browser' = browser
    BY <1>11 DEF Store
  <2>2. refresh[r].run > 0 /\ refresh[r].floor <= refresh[r].snapshot.change
        /\ refresh[r].snapshot.change <= bank.change
    BY <1>r, <2>1 DEF RefreshSound
  <2>3. /\ TablesSound' /\ lastStored'.snapshot = refresh[r].snapshot
        /\ lastStored'.batch = lastStored.batch + 1
        /\ \A a \in BankAccounts :
              accountRow[a].id # 0 => accountRow'[a].id = accountRow[a].id
    BY <1>t, <1>r, <1>11, <2>2, StoreSound
  <2>4. refresh' = [refresh EXCEPT ![r] = q] /\ q \in Refresh
    BY <1>t, <1>r, <2>1 DEF Refresh
  <2>5. q.pc = "stored" /\ q.snapshot = refresh[r].snapshot /\ q.run = refresh[r].run
        /\ q.floor = refresh[r].floor /\ q.list = refresh[r].list
    BY <1>r DEF Refresh
  <2> HIDE DEF q
  <2>6. ASSUME NEW t \in Refreshes
        PROVE  RefreshSound(refresh'[t], bank.change, lastStored'.batch)
    <3>1. refresh[t].list.batch \in Nat /\ refresh[t].list.batch <= lastStored.batch
      BY <1>n, <1>r DEF RefreshSound
    <3>2. CASE t = r
      BY <1>t, <1>r, <2>1, <2>3, <2>4, <2>5, <3>1, <3>2 DEF RefreshSound
    <3>3. CASE t # r
      <4>1. refresh'[t] = refresh[t]
        BY <1>t, <2>4, <3>3
      <4> QED BY <1>t, <1>r, <2>3, <3>1, <4>1 DEF RefreshSound
    <3> QED BY <3>2, <3>3
  <2>7. BrowserSound(browser', lastStored'.batch)
    <3>1. browser.shown.batch \in Nat /\ browser.get.list.batch \in Nat
      BY <1>t, ListFields DEF AccountBrowser, AccountGet
    <3> QED BY <1>t, <2>1, <2>3, <3>1 DEF BrowserSound
  <2>8. refresh' \in [Refreshes -> Refresh]
    BY <1>t, <2>4
  <2>9. AccountsSound'
    BY <1>t, <2>1, <2>2, <2>3, <2>6, <2>7, <2>8 DEF AccountsSound
  <2>10. Follows
    <3>1. ASSUME NEW t \in Refreshes, refresh[t].pc = "read", refresh'[t].pc = "stored"
          PROVE  lastStored'.snapshot.change >= refresh[t].floor
      <4>1. t = r
        BY <1>t, <2>4, <3>1
      <4> QED BY <1>n, <1>r, <2>2, <2>3, <4>1
    <3> QED BY <2>1, <2>3, <3>1 DEF Follows
  <2> QED BY <2>9, <2>10
<1>12. ASSUME NEW r \in Refreshes, ListAfterStore(r) PROVE AccountsSound' /\ Follows
  <2> DEFINE q == [refresh[r] EXCEPT !.pc = "answered", !.list = Listed]
  <2>1. /\ refresh[r].pc = "stored" /\ UNCHANGED <<bank, accountTables>>
        /\ refresh' = [refresh EXCEPT ![r].pc = "answered", ![r].list = Listed]
        /\ refreshes' = refreshes /\ browser' = browser
    BY <1>12 DEF ListAfterStore
  <2>2. refresh' = [refresh EXCEPT ![r] = q]
    BY <1>t, <2>1 DEF Refresh
  <2>3. q \in Refresh
    BY <1>l, <1>r DEF Refresh
  <2>4. q.pc = "answered" /\ q.snapshot = refresh[r].snapshot /\ q.run = refresh[r].run
        /\ q.floor = refresh[r].floor /\ q.list = Listed
    BY <1>r DEF Refresh
  <2> HIDE DEF q
  <2>5. RefreshSound(q, bank.change, lastStored.batch)
    BY <1>t, <1>l, <1>r, <2>1, <2>4 DEF RefreshSound
  <2> QED BY <1>g, <1>t, <2>1, <2>2, <2>3, <2>4, <2>5
<1>13. ASSUME NEW r \in Refreshes, SyncSucceeds(r) PROVE AccountsSound' /\ Follows
  <2> DEFINE b == [browser EXCEPT !.mutation = Idle, !.shown = refresh[r].list]
  <2>1. /\ refresh[r].pc = "answered" /\ UNCHANGED <<bank, accountTables>>
        /\ refresh' = [refresh EXCEPT ![r] = AtRest] /\ refreshes' = refreshes
        /\ browser' = IF browser.mutation = r THEN b ELSE browser
    BY <1>13 DEF SyncSucceeds
  <2>2. refresh[r].list \in AccountList /\ refresh[r].list.batch <= lastStored.batch
    BY <1>r, RefreshFields DEF RefreshSound
  <2>3. CASE browser.mutation = r
    <3>1. browser.mutation # Idle
      BY <2>3, RefreshesAssumption DEF Idle
    <3>2. b \in AccountBrowser /\ BrowserSound(b, lastStored.batch)
      BY <1>t, <2>2, <3>1, ListShown
    <3>3. b.mutation = Idle
      BY <1>t DEF AccountBrowser
    <3> HIDE DEF b
    <3> QED BY <1>a, <1>g, <1>t, <2>1, <2>3, <3>1, <3>2, <3>3, AtRestFields
  <2>4. CASE browser.mutation # r
    BY <1>a, <1>g, <1>t, <2>1, <2>4, AtRestFields
  <2> QED BY <2>3, <2>4
<1>14. CASE UNCHANGED accountsVars
  <2>1. /\ bank' = bank /\ refresh' = refresh /\ refreshes' = refreshes
        /\ accountRow' = accountRow /\ cardRow' = cardRow /\ browser' = browser
        /\ hasSyncState' = hasSyncState /\ lastStored' = lastStored
    BY <1>14 DEF accountsVars
  <2> QED BY <1>2, <1>t, <2>1 DEF accountTables
<1> QED BY <1>1, <1>3, <1>4, <1>5, <1>6, <1>7, <1>8, <1>9, <1>10, <1>11, <1>12, <1>13, <1>14
        DEF AccountsNext

\* After every batch of accounts-repository.ts the active accounts and cards are those of
\* the snapshot it stored, and every account has its sync_state row, whatever refreshes
\* overlap: the two deactivating UPDATEs and the upserts share one batch.
THEOREM TablesOfOneSnapshot == AccountsSpec => []AccountsInvariant
<1>1. AccountsSound => AccountsInvariant
  <2> SUFFICES ASSUME AccountsSound PROVE AccountsInvariant
    OBVIOUS
  <2>1. ActiveIsLastStored /\ EveryAccountSynchronizable
    BY DEF AccountsSound, TablesSound
  <2>2. accountRow \in [BankAccounts ->
           [id : 0..MaxRefreshes, balance : 0..MaxChanges, active : BOOLEAN]]
    BY DEF AccountsSound, TablesSound, AccountRow, RunIds, Changes
  <2>3. ASSUME NEW r \in Refreshes
        PROVE  /\ refresh[r].pc \in {"idle", "fetch", "fetched", "read", "stored", "answered"}
               /\ refresh[r].run \in 0..MaxRefreshes
               /\ refresh[r].pc # "idle" => refresh[r].run > 0
               /\ refresh[r].snapshot \in Snapshots
               /\ refresh[r].known \in [BankAccounts -> 0..MaxRefreshes]
    <3>1. refresh[r] \in Refresh /\ RefreshSound(refresh[r], bank.change, lastStored.batch)
      BY DEF AccountsSound
    <3> QED BY <3>1, RefreshFields DEF RefreshSound, RunIds
  <2>4. AccountsTypeInvariant
    BY <2>2, <2>3 DEF AccountsSound, TablesSound, AccountsTypeInvariant, RunIds
  <2> QED BY <2>1, <2>4 DEF AccountsInvariant
<1>2. AccountsSound /\ [AccountsNext]_accountsVars => AccountsSound'
  BY AccountsSoundStep
<1> QED BY <1>1, <1>2, AccountsSoundInit, PTL DEF AccountsSpec

\* No step changes the identifier of an account, stores a snapshot older than one that
\* was stored before its refresh began, or shows a list older than the one on the screen
\* unless its GET overlapped a refresh.
THEOREM AccountsNeverGoBack == AccountsSpec => AccountsFollow
<1>1. AccountsSound /\ [AccountsNext]_accountsVars => AccountsSound'
  BY AccountsSoundStep
<1>2. AccountsSound /\ [AccountsNext]_accountsVars =>
        [\A a \in BankAccounts :
           accountRow[a].id # 0 => accountRow'[a].id = accountRow[a].id]_accountsVars
  BY AccountsSoundStep DEF Follows
<1>3. AccountsSound /\ [AccountsNext]_accountsVars =>
        [\A r \in Refreshes :
           refresh[r].pc = "read" /\ refresh'[r].pc = "stored"
             => lastStored'.snapshot.change >= refresh[r].floor]_accountsVars
  BY AccountsSoundStep DEF Follows
<1>4. AccountsSound /\ [AccountsNext]_accountsVars =>
        [/\ browser'.shown # browser.shown
         /\ browser'.mutation = browser.mutation
         => browser'.shown.batch >= browser.shown.batch \/ browser.overlap]_accountsVars
  BY AccountsSoundStep DEF Follows
<1>5. AccountsSpec => AccountIdsStable
  BY <1>1, <1>2, AccountsSoundInit, PTL DEF AccountsSpec, AccountIdsStable
<1>6. AccountsSpec => NoRollbackAcrossRefreshes
  BY <1>1, <1>3, AccountsSoundInit, PTL DEF AccountsSpec, NoRollbackAcrossRefreshes
<1>7. AccountsSpec => OlderListNeedsOverlap
  BY <1>1, <1>4, AccountsSoundInit, PTL DEF AccountsSpec, OlderListNeedsOverlap
<1> QED BY <1>5, <1>6, <1>7 DEF AccountsFollow

-----------------------------------------------------------------------------
(* The answers and the tables *)

Rows == [amount : Int, direction : {"none", "income", "expense"},
         category : {<<>>} \cup {CategoryName(n) : n \in Int}]

ThreeDigitCodes == 0..999

\* The currencies that came from a code of three digits.
Resolvable == {Resolved(NumericCode(n)) : n \in ThreeDigitCodes}

DataSound ==
    /\ currencies \subseteq Resolvable
    /\ transactions \in [Ids -> Rows]
    /\ \A i \in Ids : transactions[i] = NoRow \/ TransactionAccepted(transactions[i])
    /\ outcome \in {"none", "stored", "malformed"}
    /\ outcome = "stored" => \A k \in DOMAIN latest : Parses(latest[k])

LEMMA AnswerItems ==
    ASSUME NEW answer \in Answers, NEW k \in DOMAIN answer.items
    PROVE  answer.items[k] \in Items
<1> DEFINE One == {<<i>> : i \in Items}
           Two == Items \X Items
<1>1. answer.items \in {<<>>} \cup One \cup Two
  BY DEF Answers
<1>2. CASE answer.items = <<>>
  BY <1>2
<1>3. CASE \E i \in Items : answer.items = <<i>>
  BY <1>3
<1>4. CASE answer.items \in Items \X Items
  BY <1>4
<1>5. \/ answer.items = <<>>
      \/ \E i \in Items : answer.items = <<i>>
      \/ answer.items \in Items \X Items
  <2>1. answer.items \in One => \E i \in Items : answer.items = <<i>>
    OBVIOUS
  <2> HIDE DEF One, Two
  <2>2. answer.items = <<>> \/ answer.items \in One \/ answer.items \in Two
    BY <1>1
  <2> QED BY <2>1, <2>2, Zenon DEF Two
<1> QED BY <1>2, <1>3, <1>4, <1>5, Zenon

LEMMA ItemFields ==
    \A i \in Items : /\ i.currencyCode \in Int /\ i.amount \in Int /\ i.mcc \in Int
                     /\ i.id \in Ids
<1> SUFFICES ASSUME NEW i \in Items
             PROVE  /\ i.currencyCode \in Int /\ i.amount \in Int /\ i.mcc \in Int
                    /\ i.id \in Ids
  OBVIOUS
<1>1. i \in [isRecord : BOOLEAN, id : STRING, required : BOOLEAN, optional : BOOLEAN,
             currencyCode : Int, amount : Int, mcc : Int]
  BY MonobankDataAssumption
<1>2. i.id \in Ids
  BY DEF Ids
<1> QED BY <1>1, <1>2

\* A three-digit code has three digits however it is padded.
LEMMA ThreeDigits == \A n \in ThreeDigitCodes : Len(NumericCode(n)) = 3
<1> SUFFICES ASSUME NEW n, n \in ThreeDigitCodes PROVE Len(NumericCode(n)) = 3
  OBVIOUS
<1>1. ~(n > 999)
  BY DEF ThreeDigitCodes
<1> DEFINE a == Digit((n \div 100) % 10)
           b == Digit((n \div 10) % 10)
           c == Digit(n % 10)
           D == {a, b, c}
           digits == <<a, b, c>>
<1>2. NumericCode(n) = <<>> \o digits
  <2> DEFINE fourth == IF n > 999 THEN <<Digit(n \div 1000)>> ELSE <<>>
  <2>1. NumericCode(n) = fourth \o digits
    BY DEF NumericCode
  <2> HIDE DEF digits
  <2>2. fourth = <<>>
    BY <1>1
  <2> HIDE DEF fourth
  <2> QED BY <2>1, <2>2
<1> HIDE DEF a, b, c
<1>3. digits \in Seq(D) /\ Len(digits) = 3
  <2>1. a \in D /\ b \in D /\ c \in D
    OBVIOUS
  <2> HIDE DEF D
  <2> QED BY <2>1
<1> HIDE DEF digits, D
<1>4. Len(<<>> \o digits) = 3
  BY <1>3
<1> QED BY <1>2, <1>4

\* What parses passes the constraints of currencies and transactions.
LEMMA CurrencyStorable ==
    ASSUME DataSound, NEW n, n \in ThreeDigitCodes
    PROVE  CurrencyAccepted(Resolved(NumericCode(n)))
<1> DEFINE c == Resolved(NumericCode(n))
<1>1. c.numeric = NumericCode(n)
  BY DEF Resolved
<1>2. Len(c.numeric) = 3
  BY <1>1, ThreeDigits
<1>3. Len(c.code) = 3
  <2> DEFINE numeric == NumericCode(n)
  <2>1. Len(numeric) = 3
    BY ThreeDigits
  <2>2. \A k \in DOMAIN KnownCurrencies : Len(KnownCurrencies[k]) = 3
    BY MonobankDataAssumption
  <2>3. c.code = IF numeric \in DOMAIN KnownCurrencies THEN KnownCurrencies[numeric] ELSE numeric
    BY DEF Resolved
  <2> HIDE DEF c, numeric
  <2> QED BY <2>1, <2>2, <2>3
<1>4. ASSUME NEW other \in currencies, other.numeric = c.numeric PROVE other.code = c.code
  <2>1. PICK m \in ThreeDigitCodes : other = Resolved(NumericCode(m))
    BY DEF DataSound, Resolvable
  <2>2. other.numeric = NumericCode(m)
    BY <2>1 DEF Resolved
  <2> QED BY <1>1, <1>4, <2>1, <2>2
<1> QED BY <1>2, <1>3, <1>4 DEF CurrencyAccepted

LEMMA RowStorable ==
    ASSUME NEW i \in Items
    PROVE  RowOf(i) \in Rows /\ RowOf(i) # NoRow /\ TransactionAccepted(RowOf(i))
<1> DEFINE row == RowOf(i)
<1>1. /\ row.amount = i.amount /\ row.direction = Direction(i.amount)
      /\ row.category = CategoryName(i.mcc)
      /\ row = [amount |-> row.amount, direction |-> row.direction, category |-> row.category]
  BY DEF RowOf
<1>2. Direction(i.amount) \in {"income", "expense"}
  BY DEF Direction
<1>3. row \in Rows
  BY <1>1, <1>2, ItemFields DEF Rows
<1>4. NoRow.direction = "none"
  BY DEF NoRow
<1>5. TransactionAccepted(row)
  BY <1>1, ItemFields DEF TransactionAccepted, Direction
<1> QED BY <1>1, <1>2, <1>3, <1>4, <1>5

LEMMA DataSoundInit == DataInit => DataSound
<1> SUFFICES ASSUME DataInit PROVE DataSound
  OBVIOUS
<1>1. NoRow \in Rows
  BY DEF NoRow, Rows
<1> QED BY <1>1 DEF DataInit, DataSound

\* What one row is after a statement.
LEMMA ImportedRow ==
    ASSUME DataSound, NEW answer \in Answers, NEW i \in Ids
    PROVE  LET row == Imported(i, answer.items)
           IN /\ row \in Rows /\ (row = NoRow \/ TransactionAccepted(row))
              /\ transactions[i] # NoRow => row = transactions[i]
              /\ (\E k \in DOMAIN answer.items : answer.items[k].id = i) => row # NoRow
<1> DEFINE items == answer.items
<1>1. CASE transactions[i] = NoRow /\ \E k \in DOMAIN items : items[k].id = i
  <2> DEFINE first == CHOOSE k \in DOMAIN items :
                        /\ items[k].id = i
                        /\ \A j \in 1..(k - 1) : items[j].id # i
  <2>1. \E k \in DOMAIN items : items[k].id = i /\ \A j \in 1..(k - 1) : items[j].id # i
    <3>1. DOMAIN items \in {{}, {1}, {1, 2}}
      <4>1. answer.items \in {<<>>} \cup {<<x>> : x \in Items} \cup (Items \X Items)
        BY DEF Answers
      <4>2. CASE answer.items = <<>>
        BY <4>2
      <4>3. CASE \E x \in Items : answer.items = <<x>>
        BY <4>3
      <4>4. CASE answer.items \in Items \X Items
        BY <4>4
      <4> QED BY <4>1, <4>2, <4>3, <4>4
    <3> HIDE DEF items
    <3>2. PICK k \in DOMAIN items : items[k].id = i
      BY <1>1
    <3>3. k \in {1, 2}
      BY <3>1
    <3>4. CASE k = 1
      BY <3>2, <3>4
    <3>5. CASE k = 2
      <4>1. 1 \in DOMAIN items
        BY <3>1, <3>5
      <4>2. CASE items[1].id = i
        BY <4>1, <4>2
      <4>3. CASE items[1].id # i
        <5>1. \A j \in 1..(2 - 1) : j = 1
          OBVIOUS
        <5> QED BY <3>2, <3>5, <4>3, <5>1
      <4> QED BY <4>2, <4>3
    <3> QED BY <3>3, <3>4, <3>5
  <2>2. first \in DOMAIN items
    BY <2>1
  <2>3. Imported(i, items) = RowOf(items[first])
    BY <1>1 DEF Imported
  <2> HIDE DEF first
  <2>4. items[first] \in Items
    BY <2>2, AnswerItems
  <2> QED BY <1>1, <2>3, <2>4, RowStorable
<1>2. CASE ~(transactions[i] = NoRow /\ \E k \in DOMAIN items : items[k].id = i)
  <2>1. Imported(i, items) = transactions[i]
    BY <1>2 DEF Imported
  <2> QED BY <1>2, <2>1 DEF DataSound
<1> QED BY <1>1, <1>2

Keeps ==
    /\ \A i \in Ids : transactions[i] # NoRow => transactions'[i] = transactions[i]
    /\ transactions' # transactions =>
          \A k \in DOMAIN latest' :
             Parses(latest'[k]) /\ transactions'[latest'[k].id] # NoRow

LEMMA DataSoundStep == DataSound /\ [DataNext]_dataVars => DataSound' /\ Keeps
<1> SUFFICES ASSUME DataSound, [DataNext]_dataVars PROVE DataSound' /\ Keeps
  OBVIOUS
<1>1. ASSUME NEW answer \in Answers, ReceiveMalformed(answer) PROVE DataSound' /\ Keeps
  <2>1. outcome' = "malformed" /\ currencies' = currencies /\ transactions' = transactions
    BY <1>1 DEF ReceiveMalformed
  <2> QED BY <2>1 DEF DataSound, Keeps
<1>2. ASSUME NEW answer \in Answers, ReceiveAccounts(answer) PROVE DataSound' /\ Keeps
  <2> DEFINE sent == {Resolved(NumericCode(answer.items[k].currencyCode)) :
                        k \in DOMAIN answer.items}
  <2>1. /\ ParsesWhole(answer) /\ latest' = answer.items /\ transactions' = transactions
        /\ IF \A c \in sent : CurrencyAccepted(c)
           THEN /\ currencies' = sent \cup {c \in currencies : \A s \in sent : s.code # c.code}
                /\ outcome' = "stored"
           ELSE outcome' = "aborted" /\ UNCHANGED currencies
    BY <1>2 DEF ReceiveAccounts
  <2>2. ASSUME NEW k \in DOMAIN answer.items
        PROVE  answer.items[k].currencyCode \in ThreeDigitCodes
    <3>1. answer.items[k].currencyCode \in Int
      BY AnswerItems, ItemFields
    <3>2. ValidCurrency(answer.items[k].currencyCode)
      BY <2>1 DEF ParsesWhole, Parses
    <3> DEFINE n == answer.items[k].currencyCode
    <3>3. n \in Int /\ n >= 0 /\ n <= 999
      BY <3>1, <3>2 DEF ValidCurrency
    <3> HIDE DEF n
    <3>4. n \in ThreeDigitCodes
      BY <3>3 DEF ThreeDigitCodes
    <3> QED BY <3>4 DEF n
  <2>3. ASSUME NEW c \in sent
        PROVE  \E n \in ThreeDigitCodes : c = Resolved(NumericCode(n))
    <3>1. PICK k \in DOMAIN answer.items : c = Resolved(NumericCode(answer.items[k].currencyCode))
      OBVIOUS
    <3> QED BY <2>2, <3>1, Zenon
  <2>4. sent \subseteq Resolvable /\ \A c \in sent : CurrencyAccepted(c)
    <3> SUFFICES ASSUME NEW c \in sent PROVE c \in Resolvable /\ CurrencyAccepted(c)
      OBVIOUS
    <3>1. PICK n \in ThreeDigitCodes : c = Resolved(NumericCode(n))
      BY <2>3
    <3>2. CurrencyAccepted(Resolved(NumericCode(n)))
      BY CurrencyStorable, Zenon
    <3> QED BY <3>1, <3>2, Zenon DEF Resolvable
  <2> HIDE DEF sent
  <2>5. currencies' \subseteq Resolvable /\ outcome' = "stored"
    BY <2>1, <2>4 DEF DataSound
  <2>6. \A k \in DOMAIN latest' : Parses(latest'[k])
    BY <2>1 DEF ParsesWhole
  <2> QED BY <2>1, <2>5, <2>6 DEF DataSound, Keeps
<1>3. ASSUME NEW answer \in Answers, ReceiveStatement(answer) PROVE DataSound' /\ Keeps
  <2>1. \A k \in DOMAIN answer.items : TransactionAccepted(RowOf(answer.items[k]))
    BY AnswerItems, RowStorable
  <2>2. /\ ParsesWhole(answer) /\ latest' = answer.items /\ currencies' = currencies
        /\ transactions' = [i \in Ids |-> Imported(i, answer.items)] /\ outcome' = "stored"
    BY <1>3, <2>1 DEF ReceiveStatement
  <2>3. ASSUME NEW i \in Ids
        PROVE  /\ transactions'[i] \in Rows
               /\ transactions'[i] = NoRow \/ TransactionAccepted(transactions'[i])
               /\ transactions[i] # NoRow => transactions'[i] = transactions[i]
               /\ (\E k \in DOMAIN answer.items : answer.items[k].id = i)
                    => transactions'[i] # NoRow
    <3>1. transactions'[i] = Imported(i, answer.items)
      BY <2>2
    <3> QED BY <3>1, ImportedRow
  <2>4. \A k \in DOMAIN latest' : Parses(latest'[k])
    BY <2>2 DEF ParsesWhole
  <2>5. ASSUME NEW k \in DOMAIN latest' PROVE transactions'[latest'[k].id] # NoRow
    <3>1. latest'[k].id \in Ids
      BY <2>2, AnswerItems, ItemFields
    <3> QED BY <2>2, <2>3, <3>1
  <2>6. transactions' \in [Ids -> Rows]
    BY <2>2, <2>3
  <2>7. DataSound'
    BY <2>2, <2>3, <2>4, <2>6 DEF DataSound
  <2> QED BY <2>3, <2>4, <2>5, <2>7 DEF Keeps
<1>4. CASE UNCHANGED dataVars
  BY <1>4 DEF dataVars, DataSound, Keeps
<1> QED BY <1>1, <1>2, <1>3, <1>4 DEF DataNext

\* Whatever the bank answers, what parser.ts accepts no constraint of the tables refuses:
\* a batch of well-formed currencies or transactions never aborts.
THEOREM WellFormedIsStorable == DataSpec => []DataInvariant
<1>1. DataSound => DataInvariant
  <2> SUFFICES ASSUME DataSound PROVE DataInvariant
    OBVIOUS
  <2>1. ASSUME NEW c \in currencies PROVE Len(c.code) = 3 /\ Len(c.numeric) = 3
    <3>1. PICK n \in ThreeDigitCodes : c = Resolved(NumericCode(n))
      BY DEF DataSound, Resolvable
    <3> QED BY <3>1, CurrencyStorable DEF CurrencyAccepted
  <2>2. AcceptedIsStorable
    BY DEF DataSound, AcceptedIsStorable
  <2> QED BY <2>1, <2>2 DEF DataSound, DataTypeInvariant, DataInvariant
<1>2. DataSound /\ [DataNext]_dataVars => DataSound'
  BY DataSoundStep
<1> QED BY <1>1, <1>2, DataSoundInit, PTL DEF DataSpec

\* A statement is stored whole or not at all, and no later one changes what was stored:
\* importTransactions inserts in one batch and does nothing on a conflict.
THEOREM StatementsAreKept == DataSpec => StatementKept
<1>1. DataSound /\ [DataNext]_dataVars => DataSound'
  BY DataSoundStep
<1>2. DataSound /\ [DataNext]_dataVars =>
        [\A i \in Ids : transactions[i] # NoRow => transactions'[i] = transactions[i]]_dataVars
  BY DataSoundStep DEF Keeps
<1>3. DataSound /\ [DataNext]_dataVars =>
        [transactions' # transactions =>
           \A k \in DOMAIN latest' :
              Parses(latest'[k]) /\ transactions'[latest'[k].id] # NoRow]_dataVars
  BY DataSoundStep DEF Keeps
<1>4. DataSpec => OriginalsKept
  BY <1>1, <1>2, DataSoundInit, PTL DEF DataSpec, OriginalsKept
<1>5. DataSpec => StatementStoredWhole
  BY <1>1, <1>3, DataSoundInit, PTL DEF DataSpec, StatementStoredWhole
<1> QED BY <1>4, <1>5 DEF StatementKept

-----------------------------------------------------------------------------
(* The reports of the dashboard *)

Stamp == [code : Codes, at : Nat]
Datum == {NoData} \cup Stamp
CacheQuery == [data : Datum, phase : {"idle", "sent", "read"}, got : Datum,
               invalid : BOOLEAN, failed : BOOLEAN, cached : BOOLEAN, overtaken : BOOLEAN]
Bases == Codes \cup {Original}

\* What the page may show of data older than the change a refresh here has made.
Excused(q) == Fetching(q) \/ q.failed \/ q.cached \/ q.overtaken
Outdated(q, n) == Has(q) /\ q.data.at < n

\* A query that nobody observes knows of the change at least by being invalid; an
\* answer on its way was read after it, or the query was told that it was not.
ReportSound(q, n, most) ==
    /\ q \in CacheQuery
    /\ q.data.at <= most /\ q.got.at <= most
    /\ Outdated(q, n) => Excused(q) \/ q.invalid
    /\ q.phase = "read" => q.overtaken \/ n <= q.got.at

ShownSound(q, n) == Outdated(q, n) => Excused(q)

CurrencySound(q, n, most) ==
    /\ q \in CacheQuery
    /\ q.data.at <= most /\ q.got.at <= most
    /\ Has(q) => n <= q.data.at
    /\ q.phase = "read" => n <= q.got.at

RequestStates == [phase : {"idle", "sent", "stored"}, here : BOOLEAN]
Refreshings == [Kinds -> [Requests -> RequestStates]]
SaveStates == [phase : {"idle", "sent", "stored"}, code : Codes, at : Nat,
               here : BOOLEAN, alone : BOOLEAN]
Owns == [saves : Nat, books : Nat, last : Nat, overlapped : BOOLEAN]

\* A save that was alone so far is the newest the tab will have the answer of.
SaveSound(s) ==
    s.phase = "stored" => s.at <= saved.at /\ (s.alone => own.saves <= s.at)
SavesSound ==
    /\ save \in [Requests -> SaveStates]
    /\ \A r \in Requests : SaveSound(save[r])
    /\ \A r \in Requests : save[r].alone => \A t \in Requests \ {r} : save[t].phase = "idle"
OwnSound ==
    /\ own \in Owns
    /\ own.last <= own.saves /\ own.saves <= saved.at /\ own.books <= books
    /\ own.overlapped \/ own.last = own.saves

ServerSound ==
    /\ saved \in [code : Codes, at : Nat] /\ saved.at <= MaxSaves
    /\ books \in Nat /\ books <= MaxBooks
    /\ refreshing \in Refreshings
    /\ OwnSound
    /\ SavesSound

ReportsSound ==
    /\ ServerSound
    /\ CurrencySound(currency, own.last, saved.at)
    /\ DOMAIN report = Bases /\ report = [k \in Bases |-> report[k]]
    /\ \A k \in Bases : ReportSound(report[k], own.books, books)
    /\ page \in {"dashboard", "settings"} /\ mode \in {"base", "original"}
    /\ page = "dashboard" => ShownSound(report[ShownKey], own.books)

LEMMA DatumAt == \A d \in Datum : d.at \in Int /\ (d # NoData => d \in Stamp /\ d.at \in Nat)
BY DEF Datum, Stamp, NoData

LEMMA StampHas == \A d \in Stamp : d # NoData /\ d \in Datum /\ d.at \in Nat /\ d.code \in Codes
BY DEF Datum, Stamp, NoData

LEMMA NoDatum == NoData \in Datum /\ NoData.at = -1
BY DEF Datum, NoData

\* What a query keeps when it is asked for again.
LEMMA FetchKeeps ==
    ASSUME NEW q, q \in CacheQuery
    PROVE  /\ Fetch(q) \in CacheQuery
           /\ Fetch(q).data = q.data
           /\ Fetching(Fetch(q))
           /\ Fetch(q) = q \/ (Fetch(q).phase = "sent" /\ Fetch(q).got = NoData)
<1>1. CASE Fetching(q)
  BY <1>1 DEF Fetch
<1>2. CASE ~Fetching(q)
  <2> DEFINE r == [q EXCEPT !.phase = "sent", !.got = NoData, !.overtaken = FALSE]
  <2>1. Fetch(q) = r
    BY <1>2 DEF Fetch
  <2>2. r \in CacheQuery
    BY NoDatum DEF CacheQuery
  <2>3. r.data = q.data /\ r.phase = "sent" /\ r.got = NoData
    BY DEF CacheQuery
  <2> HIDE DEF r
  <2> QED BY <2>1, <2>2, <2>3 DEF Fetching
<1> QED BY <1>1, <1>2

\* A query that keeps its data and is being fetched anew, or as it was, is sound.
LEMMA FetchedSound ==
    ASSUME NEW q, NEW n, n \in Nat, NEW most, most \in Nat, ReportSound(q, n, most),
           NEW r, r \in CacheQuery, r.data = q.data,
           r = q \/ (r.phase = "sent" /\ r.got = NoData),
           Outdated(q, n) => Excused(r)
    PROVE  ReportSound(r, n, most) /\ ShownSound(r, n)
<1>1. CASE r = q
  BY <1>1 DEF ShownSound
<1>2. CASE r.phase = "sent" /\ r.got = NoData
  <2>1. Excused(r)
    BY <1>2 DEF Excused, Fetching
  <2> QED BY <1>2, <2>1, NoDatum DEF ReportSound, ShownSound
<1> QED BY <1>1, <1>2

LEMMA ObservedSound ==
    ASSUME NEW q, NEW n, n \in Nat, NEW most, most \in Nat, ReportSound(q, n, most),
           NEW stale, stale \in BOOLEAN
    PROVE  ReportSound(Observed(q, stale), n, most) /\ ShownSound(Observed(q, stale), n)
<1>1. q \in CacheQuery
  BY DEF ReportSound
<1>2. CASE ~Has(q) \/ q.invalid \/ stale
  <2>1. Observed(q, stale) = Fetch(q)
    BY <1>2 DEF Observed
  <2>2. Excused(Fetch(q))
    BY <1>1, FetchKeeps DEF Excused
  <2> QED BY <1>1, <2>1, <2>2, FetchKeeps, FetchedSound
<1>3. CASE ~(~Has(q) \/ q.invalid \/ stale)
  <2>1. Observed(q, stale) = q
    BY <1>3 DEF Observed
  <2>2. ShownSound(q, n)
    BY <1>3 DEF ReportSound, ShownSound
  <2> QED BY <2>1, <2>2
<1> QED BY <1>2, <1>3

LEMMA RefetchedSound ==
    ASSUME NEW q, NEW n, n \in Nat, NEW most, most \in Nat, ReportSound(q, n, most)
    PROVE  ReportSound(Refetched(q), n, most) /\ ShownSound(Refetched(q), n)
<1>1. q \in CacheQuery
  BY DEF ReportSound
<1>2. CASE Has(q)
  <2> DEFINE p == [q EXCEPT !.phase = "idle"]
  <2>1. Refetched(q) = Fetch(p)
    BY <1>2 DEF Refetched
  <2>2. p \in CacheQuery /\ p.data = q.data /\ p.phase = "idle"
    BY <1>1 DEF CacheQuery
  <2> HIDE DEF p
  <2>3. Fetch(p) \in CacheQuery /\ Fetch(p).data = q.data
        /\ Fetch(p).phase = "sent" /\ Fetch(p).got = NoData
    BY <2>2, FetchKeeps DEF Fetching
  <2>4. Excused(Fetch(p))
    BY <2>3 DEF Excused, Fetching
  <2> QED BY <1>1, <2>1, <2>3, <2>4, FetchedSound
<1>3. CASE ~Has(q)
  <2>1. Refetched(q) = Fetch(q)
    BY <1>3 DEF Refetched
  <2>2. Excused(Fetch(q))
    BY <1>1, FetchKeeps DEF Excused
  <2> QED BY <1>1, <2>1, <2>2, FetchKeeps, FetchedSound
<1> QED BY <1>2, <1>3

\* However an invalidation finds a query, it is sound for any change that was made.
LEMMA InvalidatedSound ==
    ASSUME NEW q, NEW n, n \in Nat, NEW most, most \in Nat, ReportSound(q, n, most),
           NEW later, later \in Nat, NEW active, active \in BOOLEAN
    PROVE  /\ ReportSound(Invalidated(q, active), later, most)
           /\ active => ShownSound(Invalidated(q, active), later)
<1> DEFINE marked == [q EXCEPT !.invalid = TRUE]
<1>1. q \in CacheQuery
  BY DEF ReportSound
<1>2. /\ marked \in CacheQuery /\ marked.data = q.data /\ marked.phase = q.phase
      /\ marked.got = q.got /\ marked.invalid
  BY <1>1 DEF CacheQuery
<1>3. Has(marked) <=> Has(q)
  BY <1>2 DEF Has
<1>4. Fetching(marked) <=> Fetching(q)
  BY <1>2 DEF Fetching
<1>5. CASE Fetching(q) /\ ~(active /\ Has(q))
  <2> DEFINE r == [marked EXCEPT !.overtaken = TRUE]
  <2>1. Invalidated(q, active) = r
    BY <1>5 DEF Invalidated
  <2>2. /\ r \in CacheQuery /\ r.data = q.data /\ r.phase = q.phase /\ r.got = q.got
        /\ r.overtaken
    BY <1>2 DEF CacheQuery
  <2> HIDE DEF r
  <2>3. Excused(r)
    BY <2>2 DEF Excused
  <2> QED BY <2>1, <2>2, <2>3 DEF ReportSound, ShownSound
<1>6. CASE ~(Fetching(q) /\ ~(active /\ Has(q))) /\ active
  <2>1. Invalidated(q, active) = Refetched(marked)
    BY <1>6 DEF Invalidated
  <2> HIDE DEF marked
  <2>2. CASE Has(q)
    <3> DEFINE p == [marked EXCEPT !.phase = "idle"]
    <3>1. Refetched(marked) = Fetch(p)
      BY <1>3, <2>2 DEF Refetched
    <3>2. p \in CacheQuery /\ p.data = q.data /\ p.phase = "idle"
      BY <1>2 DEF CacheQuery
    <3> HIDE DEF p
    <3>3. Fetch(p) \in CacheQuery /\ Fetch(p).data = q.data
          /\ Fetch(p).phase = "sent" /\ Fetch(p).got = NoData
      BY <3>2, FetchKeeps DEF Fetching
    <3>4. Excused(Fetch(p))
      BY <3>3 DEF Excused, Fetching
    <3> QED BY <2>1, <3>1, <3>3, <3>4, NoDatum DEF ReportSound, ShownSound
  <2>3. CASE ~Has(q)
    <3>1. Refetched(marked) = Fetch(marked) /\ ~Fetching(marked)
      BY <1>3, <1>4, <1>6, <2>3 DEF Refetched
    <3>2. Fetch(marked) \in CacheQuery /\ Fetch(marked).data = q.data
          /\ Fetch(marked).phase = "sent" /\ Fetch(marked).got = NoData
      BY <1>2, <3>1, FetchKeeps DEF Fetching
    <3>3. Excused(Fetch(marked))
      BY <3>2 DEF Excused, Fetching
    <3> QED BY <2>1, <3>1, <3>2, <3>3, NoDatum DEF ReportSound, ShownSound
  <2> QED BY <2>2, <2>3
<1>7. CASE ~Fetching(q) /\ ~active
  <2>1. Invalidated(q, active) = marked
    BY <1>7 DEF Invalidated
  <2>2. marked.phase = "idle"
    BY <1>2, <1>7 DEF Fetching
  <2> HIDE DEF marked
  <2> QED BY <1>2, <1>7, <2>1, <2>2 DEF ReportSound
<1> QED BY <1>5, <1>6, <1>7

\* An answer that was read after the change, one that was read before and knows it, and
\* one that says it comes from the snapshot.
LEMMA ReceivedFields ==
    ASSUME NEW q, q \in CacheQuery, NEW d, d \in Datum
    PROVE  /\ Received(q, d) \in CacheQuery /\ Received(q, d).data = d
           /\ Received(q, d).phase = "idle" /\ Received(q, d).got = NoData
           /\ q.overtaken => Received(q, d).overtaken
<1>1. Received(q, d) \in CacheQuery
  BY NoDatum DEF CacheQuery, Received
<1> QED BY <1>1 DEF CacheQuery, Received

LEMMA FailedFields ==
    ASSUME NEW q, q \in CacheQuery
    PROVE  /\ Failed(q) \in CacheQuery /\ Failed(q).data = q.data /\ Failed(q).failed
           /\ Failed(q).phase = "idle" /\ Failed(q).got = NoData
<1>1. Failed(q) \in CacheQuery
  BY NoDatum DEF CacheQuery, Failed
<1> QED BY <1>1 DEF CacheQuery, Failed

LEMMA ReadFields ==
    ASSUME NEW q, q \in CacheQuery, NEW d, d \in Datum
    PROVE  /\ ReadAt(q, d) \in CacheQuery /\ ReadAt(q, d).data = q.data
           /\ ReadAt(q, d).phase = "read" /\ ReadAt(q, d).got = d
           /\ q.invalid => ReadAt(q, d).invalid
<1>1. ReadAt(q, d) \in CacheQuery
  BY DEF CacheQuery, ReadAt
<1> QED BY <1>1 DEF CacheQuery, ReadAt

LEMMA WrittenFields ==
    ASSUME NEW q, q \in CacheQuery, NEW d, d \in Datum
    PROVE  /\ Written(Cancelled(q), d) \in CacheQuery /\ Written(Cancelled(q), d).data = d
           /\ Written(Cancelled(q), d).phase = "idle" /\ Written(Cancelled(q), d).got = NoData
<1> DEFINE c == [q EXCEPT !.phase = "idle", !.got = NoData]
           over == Fetching(c)
           w == [c EXCEPT !.data = d, !.invalid = FALSE, !.failed = FALSE, !.overtaken = over]
<1>1. c \in CacheQuery /\ c.phase = "idle" /\ c.got = NoData
  BY NoDatum DEF CacheQuery
<1>2. Written(Cancelled(q), d) = w
  BY DEF Written, Cancelled
<1>3. over \in BOOLEAN
  BY DEF Fetching
<1> HIDE DEF c, over
<1>4. w \in CacheQuery
  BY <1>1, <1>3 DEF CacheQuery
<1>5. w.data = d /\ w.phase = "idle" /\ w.got = NoData
  BY <1>1 DEF CacheQuery
<1> HIDE DEF w
<1> QED BY <1>2, <1>4, <1>5
LEMMA ReportsSoundInit == ReportsInit => ReportsSound
<1> SUFFICES ASSUME ReportsInit PROVE ReportsSound
  OBVIOUS
<1>1. ServerSound
  <2>1. NoSave \in SaveStates /\ NoSave.phase = "idle" /\ ~NoSave.alone
    BY ReportsAssumption DEF NoSave, SaveStates
  <2>2. /\ save \in [Requests -> SaveStates] /\ \A r \in Requests : save[r] = NoSave
    BY <2>1 DEF ReportsInit
  <2>3. SavesSound
    BY <2>1, <2>2 DEF SavesSound, SaveSound
  <2>4. refreshing \in Refreshings
    BY DEF ReportsInit, Refreshings, RequestStates, NotPending
  <2>5. OwnSound
    BY DEF ReportsInit, OwnSound, Owns
  <2>6. saved \in [code : Codes, at : Nat] /\ saved.at <= MaxSaves /\ books \in Nat
        /\ books <= MaxBooks
    BY ReportsAssumption DEF ReportsInit
  <2> QED BY <2>3, <2>4, <2>5, <2>6 DEF ServerSound
<1>2. /\ Query \in CacheQuery /\ Query.data = NoData /\ Query.got = NoData
      /\ Query.phase = "idle"
  BY NoDatum DEF Query, CacheQuery
<1>3. \A k \in Bases : report[k] = Query
  BY DEF ReportsInit, Bases
<1>4. ~Has(Query) /\ ~Has(Fetch(Query))
  BY <1>2, FetchKeeps DEF Has
<1>5. ReportSound(Query, 0, 0)
  BY <1>2, <1>4, NoDatum DEF ReportSound, Outdated
<1>6. Fetch(Query).got = NoData /\ Fetch(Query).data = NoData /\ Fetch(Query) \in CacheQuery
      /\ Fetch(Query).phase # "read"
  BY <1>2, FetchKeeps
<1>7. CurrencySound(Fetch(Query), 0, 0)
  BY <1>4, <1>6, NoDatum DEF CurrencySound
<1>8. own.last = 0 /\ own.books = 0 /\ books = 0 /\ saved.at = 0 /\ currency = Fetch(Query)
  BY DEF ReportsInit
<1>9. /\ DOMAIN report = Bases /\ report = [k \in Bases |-> report[k]]
      /\ page = "settings" /\ mode = "base"
  BY DEF ReportsInit, Bases
<1> QED BY <1>1, <1>3, <1>5, <1>7, <1>8, <1>9 DEF ReportsSound

\* The key of the report on the page depends on the preference's data alone.
LEMMA KeyOfData ==
    ASSUME NEW p, NEW q, p.data = q.data, NEW m
    PROVE  KeyFor(p, m) = KeyFor(q, m)
BY DEF KeyFor, Has

LEMMA KeyInBases ==
    ASSUME NEW q, q \in CacheQuery, NEW m
    PROVE  KeyFor(q, m) \in Bases
<1>1. q.data \in Datum
  BY DEF CacheQuery
<1> QED BY <1>1, StampHas, DatumAt, ReportsAssumption DEF KeyFor, Bases, Has

\* A step of the reports that changes one of them.
LEMMA OneReport ==
    ASSUME ReportsSound, NEW k \in Bases, NEW q, ReportSound(q, own.books, books),
           report' = [report EXCEPT ![k] = q], NEW m, mode' = m,
           m \in {"base", "original"},
           page' \in {"dashboard", "settings"},
           currency'.data = currency.data, CurrencySound(currency', own.last, saved.at),
           page' = "dashboard" =>
              \/ k = KeyFor(currency, m) /\ ShownSound(q, own.books)
              \/ page = "dashboard" /\ m = mode /\ k # ShownKey,
           ServerSound', saved' = saved, books' = books, own' = own
    PROVE  ReportsSound'
<1>3. DOMAIN report' = Bases /\ report' = [j \in Bases |-> report'[j]]
  BY DEF ReportsSound
<1>4. ASSUME NEW j \in Bases PROVE ReportSound(report'[j], own.books, books)
  <2>1. CASE j = k
    BY <2>1 DEF ReportsSound
  <2>2. CASE j # k
    <3>1. report'[j] = report[j]
      BY <2>2 DEF ReportsSound
    <3> QED BY <3>1 DEF ReportsSound
  <2> QED BY <2>1, <2>2
<1>5. ShownKey' = KeyFor(currency, m)
  BY KeyOfData DEF ShownKey
<1>6. ASSUME page' = "dashboard" PROVE ShownSound(report'[ShownKey'], own.books)
  <2>1. CASE k = KeyFor(currency, m) /\ ShownSound(q, own.books)
    BY <1>5, <2>1 DEF ReportsSound
  <2>2. CASE page = "dashboard" /\ m = mode /\ k # ShownKey
    <3>1. ShownKey' = ShownKey
      BY <1>5, <2>2 DEF ShownKey
    <3>2. ShownKey \in Bases
      BY KeyInBases DEF ShownKey, ReportsSound, CurrencySound
    <3>3. report'[ShownKey] = report[ShownKey]
      BY <2>2, <3>2 DEF ReportsSound
    <3> QED BY <2>2, <3>1, <3>3 DEF ReportsSound
  <2> QED BY <1>6, <2>1, <2>2
<1> QED BY <1>3, <1>4, <1>6 DEF ReportsSound

\* A step that leaves every report as it is, and what shows which one.
LEMMA SameReports ==
    ASSUME ReportsSound, ServerSound', report' = report, mode' = mode,
           page' \in {"dashboard", "settings"}, page' = "dashboard" => page = "dashboard",
           currency'.data = currency.data, CurrencySound(currency', own'.last, saved'.at),
           own'.books = own.books, books <= books'
    PROVE  ReportsSound'
<1>1. ShownKey' = ShownKey
  BY KeyOfData DEF ShownKey
<1>2. ASSUME NEW k \in Bases PROVE ReportSound(report[k], own.books, books')
  <2>1. ReportSound(report[k], own.books, books) /\ books \in Nat /\ books' \in Nat
    BY DEF ReportsSound, ServerSound
  <2>2. report[k].data.at \in Int /\ report[k].got.at \in Int
    BY <2>1, DatumAt DEF ReportSound, CacheQuery
  <2> QED BY <2>1, <2>2 DEF ReportSound
<1> QED BY <1>1, <1>2 DEF ReportsSound

\* The observer of the reports follows the preference to the one of its new key.
LEMMA FollowSound ==
    ASSUME NEW reports, DOMAIN reports = Bases, reports = [k \in Bases |-> reports[k]],
           NEW n, n \in Nat, NEW most, most \in Nat,
           \A k \in Bases : ReportSound(reports[k], n, most),
           page = "dashboard" => ShownSound(reports[ShownKey], n),
           NEW preference, preference \in CacheQuery,
           NEW after, after \in Follow(reports, preference)
    PROVE  /\ DOMAIN after = Bases /\ after = [k \in Bases |-> after[k]]
           /\ \A k \in Bases : ReportSound(after[k], n, most)
           /\ page = "dashboard" => ShownSound(after[KeyFor(preference, mode)], n)
<1> DEFINE next == KeyFor(preference, mode)
<1>1. next \in Bases
  BY KeyInBases
<1>2. CASE page = "dashboard" /\ next # ShownKey
  <2>1. PICK stale \in BOOLEAN : after = [reports EXCEPT ![next] = Observed(@, stale)]
    BY <1>2 DEF Follow
  <2>2. ReportSound(Observed(reports[next], stale), n, most)
        /\ ShownSound(Observed(reports[next], stale), n)
    BY <1>1, ObservedSound
  <2> HIDE DEF next
  <2>3. DOMAIN after = Bases /\ after = [k \in Bases |-> after[k]]
    BY <1>1, <2>1
  <2>4. ASSUME NEW k \in Bases
        PROVE  ReportSound(after[k], n, most)
    <3>1. CASE k = next
      BY <2>1, <2>2, <3>1
    <3>2. CASE k # next
      BY <2>1, <3>2
    <3> QED BY <3>1, <3>2
  <2>5. ShownSound(after[next], n)
    BY <1>1, <2>1, <2>2
  <2> QED BY <2>3, <2>4, <2>5 DEF next
<1>3. CASE ~(page = "dashboard" /\ next # ShownKey)
  <2>1. after = reports
    BY <1>3 DEF Follow
  <2> QED BY <1>3, <2>1
<1> QED BY <1>2, <1>3

\* An answer of the reports, a refusal and a snapshot.
LEMMA AnsweredReport ==
    ASSUME ReportsSound, NEW k \in Bases,
           ReportArrives(k) \/ ReportFails(k) \/ ReportFromSnapshot(k) \/ ReadReport(k)
    PROVE  \E q : /\ report' = [report EXCEPT ![k] = q]
                  /\ ReportSound(q, own.books, books)
                  /\ k = ShownKey /\ page = "dashboard" => ShownSound(q, own.books)
<1> DEFINE p == report[k]
<1>1. /\ ReportSound(p, own.books, books)
      /\ k = ShownKey /\ page = "dashboard" => ShownSound(p, own.books)
  BY DEF ReportsSound
<1>2. /\ p \in CacheQuery /\ p.data \in Datum /\ p.got \in Datum
      /\ own.books \in Nat /\ books \in Nat /\ own.books <= books
  BY <1>1 DEF ReportSound, CacheQuery, ReportsSound, ServerSound, OwnSound, Owns
<1> HIDE DEF p
<1>3. CASE ReportArrives(k)
  <2> DEFINE q == Received(p, p.got)
  <2>1. p.phase = "read" /\ report' = [report EXCEPT ![k] = q]
    BY <1>3 DEF ReportArrives, p
  <2>2. /\ q \in CacheQuery /\ q.data = p.got /\ q.phase = "idle" /\ q.got = NoData
        /\ p.overtaken => q.overtaken
    BY <1>2, ReceivedFields
  <2> HIDE DEF q
  <2>3. p.overtaken \/ own.books <= p.got.at
    BY <1>1, <2>1 DEF ReportSound
  <2>4. Outdated(q, own.books) => q.overtaken
    BY <1>2, <2>2, <2>3, DatumAt DEF Outdated
  <2>5. ShownSound(q, own.books)
    BY <2>4 DEF ShownSound, Excused
  <2>6. ReportSound(q, own.books, books)
    BY <1>1, <1>2, <2>2, <2>5, NoDatum DEF ReportSound, ShownSound
  <2> QED BY <2>1, <2>5, <2>6
<1>4. CASE ReportFails(k)
  <2> DEFINE q == Failed(p)
  <2>1. report' = [report EXCEPT ![k] = q]
    BY <1>4 DEF ReportFails, p
  <2>2. /\ q \in CacheQuery /\ q.data = p.data /\ q.failed /\ q.phase = "idle"
        /\ q.got = NoData
    BY <1>2, FailedFields
  <2> HIDE DEF q
  <2>3. Excused(q)
    BY <2>2 DEF Excused
  <2>4. ShownSound(q, own.books)
    BY <2>3 DEF ShownSound
  <2>5. ReportSound(q, own.books, books)
    BY <1>1, <1>2, <2>2, <2>3, NoDatum DEF ReportSound
  <2> QED BY <2>1, <2>4, <2>5
<1>5. CASE ReportFromSnapshot(k)
  <2> DEFINE snapshot == IF Has(p) THEN p.data ELSE Told(0)
             r == Received(p, snapshot)
             q == [r EXCEPT !.cached = TRUE]
  <2>1. report' = [report EXCEPT ![k] = q]
    BY <1>5 DEF ReportFromSnapshot, p
  <2>2. Told(0) \in Stamp /\ Told(0).at = 0
    BY ReportsAssumption DEF Told, Stamp
  <2>3. snapshot \in Datum /\ snapshot.at <= books
    BY <1>1, <1>2, <2>2, StampHas DEF ReportSound
  <2> HIDE DEF snapshot
  <2>4. r \in CacheQuery /\ r.data = snapshot /\ r.phase = "idle" /\ r.got = NoData
    BY <1>2, <2>3, ReceivedFields
  <2> HIDE DEF r
  <2>5. /\ q \in CacheQuery /\ q.data = snapshot /\ q.phase = "idle" /\ q.got = NoData
        /\ q.cached
    BY <2>4 DEF CacheQuery
  <2> HIDE DEF q
  <2>6. Excused(q)
    BY <2>5 DEF Excused
  <2>7. ShownSound(q, own.books)
    BY <2>6 DEF ShownSound
  <2>8. ReportSound(q, own.books, books)
    BY <1>2, <2>3, <2>5, <2>6, NoDatum DEF ReportSound
  <2> QED BY <2>1, <2>7, <2>8
<1>6. CASE ReadReport(k)
  <2> DEFINE told == Told(books)
             q == ReadAt(p, told)
  <2>1. p.phase = "sent" /\ report' = [report EXCEPT ![k] = q]
    BY <1>6 DEF ReadReport, p
  <2>2. told \in Stamp /\ told.at = books
    BY <1>2, ReportsAssumption DEF Told, Stamp
  <2> HIDE DEF told
  <2>3. /\ q \in CacheQuery /\ q.data = p.data /\ q.phase = "read" /\ q.got = told
    BY <1>2, <2>2, StampHas, ReadFields
  <2> HIDE DEF q
  <2>4. Excused(q)
    BY <2>3 DEF Excused, Fetching
  <2>5. ShownSound(q, own.books)
    BY <2>4 DEF ShownSound
  <2>6. ReportSound(q, own.books, books)
    BY <1>1, <1>2, <2>2, <2>3, <2>4 DEF ReportSound
  <2> QED BY <2>1, <2>5, <2>6
<1> QED BY <1>3, <1>4, <1>5, <1>6

\* Asking for the preference leaves what is known of it.
LEMMA CurrencyAsked ==
    ASSUME ReportsSound, NEW q, q \in CacheQuery, q.data = currency.data,
           q = currency \/ (q.phase # "read" /\ q.got = NoData)
    PROVE  CurrencySound(q, own.last, saved.at)
<1>1. CurrencySound(currency, own.last, saved.at) /\ saved.at \in Nat
  BY DEF ReportsSound, ServerSound
<1>2. CASE q = currency
  BY <1>1, <1>2
<1>3. CASE q.phase # "read" /\ q.got = NoData
  <2>1. Has(q) <=> Has(currency)
    BY DEF Has
  <2> QED BY <1>1, <1>3, <2>1, NoDatum DEF CurrencySound
<1> QED BY <1>2, <1>3

LEMMA AskedAgain ==
    ASSUME NEW q, q \in CacheQuery, NEW stale, stale \in BOOLEAN,
           NEW r, r = Observed(q, stale) \/ r = Refetched(q)
    PROVE  /\ r \in CacheQuery /\ r.data = q.data
           /\ r = q \/ (r.phase # "read" /\ r.got = NoData)
<1>1. CASE r = Observed(q, stale)
  <2>1. r = q \/ r = Fetch(q)
    BY <1>1 DEF Observed
  <2> QED BY <2>1, FetchKeeps
<1>2. CASE r = Refetched(q)
  <2> DEFINE p == [q EXCEPT !.phase = "idle"]
  <2>1. r = Fetch(p) \/ r = Fetch(q)
    BY <1>2 DEF Refetched
  <2>2. p \in CacheQuery /\ p.data = q.data /\ p.phase = "idle"
    BY DEF CacheQuery
  <2> HIDE DEF p
  <2>3. Fetch(p) \in CacheQuery /\ Fetch(p).data = q.data
        /\ Fetch(p).phase = "sent" /\ Fetch(p).got = NoData
    BY <2>2, FetchKeeps DEF Fetching
  <2> QED BY <2>1, <2>3, FetchKeeps
<1> QED BY <1>1, <1>2

\* What the server and the tab know of each other, after the steps that change it.
LEMMA ServerUnchanged ==
    ASSUME ServerSound, UNCHANGED <<serverVars, save, refreshing, own>>
    PROVE  ServerSound' /\ own' = own /\ saved' = saved /\ books' = books
<1>1. saved' = saved /\ books' = books /\ save' = save /\ refreshing' = refreshing /\ own' = own
  BY DEF serverVars
<1>2. OwnSound' /\ SavesSound'
  BY <1>1 DEF ServerSound, OwnSound, SavesSound, SaveSound
<1> QED BY <1>1, <1>2 DEF ServerSound

LEMMA PageLeftSound ==
    ASSUME ServerSound, PageLeft, UNCHANGED <<serverVars, own>>
    PROVE  ServerSound' /\ own' = own /\ saved' = saved /\ books' = books
<1>1. saved' = saved /\ books' = books /\ own' = own
  BY DEF serverVars
<1>2. save \in [Requests -> SaveStates] /\ save' = [r \in Requests |-> [save[r] EXCEPT !.here = FALSE]]
  BY DEF ServerSound, SavesSound, PageLeft, Unmounted
<1>3. \A r \in Requests :
        /\ save'[r] \in SaveStates /\ save'[r].phase = save[r].phase
        /\ save'[r].at = save[r].at /\ save'[r].alone = save[r].alone
  BY <1>2 DEF SaveStates
<1>4. save' \in [Requests -> SaveStates]
  BY <1>2, <1>3
<1>5. SavesSound'
  BY <1>1, <1>3, <1>4 DEF ServerSound, SavesSound, SaveSound
<1>6. refreshing' \in Refreshings
  <2>1. ASSUME NEW k \in Kinds PROVE Unmounted(refreshing[k]) \in [Requests -> RequestStates]
    <3>1. refreshing[k] \in [Requests -> RequestStates]
      BY DEF ServerSound, Refreshings
    <3>2. ASSUME NEW r \in Requests
          PROVE  [refreshing[k][r] EXCEPT !.here = FALSE] \in RequestStates
      BY <3>1 DEF RequestStates
    <3> QED BY <3>2 DEF Unmounted
  <2>2. refreshing' = [k \in Kinds |-> Unmounted(refreshing[k])]
    BY DEF PageLeft
  <2> QED BY <2>1, <2>2 DEF Refreshings
<1>7. OwnSound'
  BY <1>1 DEF ServerSound, OwnSound
<1> QED BY <1>1, <1>5, <1>6, <1>7 DEF ServerSound

LEMMA SubmitSound ==
    ASSUME ServerSound, NEW r \in Requests, Submit(r)
    PROVE  ServerSound'
<1>1. saved' = saved /\ books' = books /\ own' = own /\ refreshing' = refreshing
  BY DEF Submit, serverVars
<1> DEFINE alone == \A u \in Requests : save[u].phase = "idle"
<1>2. PICK code \in Codes :
        save' = [t \in Requests |->
                   IF t = r THEN [phase |-> "sent", code |-> code, at |-> 0, here |-> TRUE,
                                  alone |-> alone]
                   ELSE [save[t] EXCEPT !.alone = FALSE]]
  BY DEF Submit
<1>3. alone \in BOOLEAN /\ (alone => \A u \in Requests : save[u].phase = "idle")
  OBVIOUS
<1> HIDE DEF alone
<1>4. save'[r] \in SaveStates /\ save'[r].phase = "sent" /\ save'[r].alone = alone
  BY <1>2, <1>3 DEF SaveStates
<1>5. ASSUME NEW t \in Requests, t # r
      PROVE  /\ save'[t] \in SaveStates /\ save'[t].phase = save[t].phase
             /\ save'[t].at = save[t].at /\ ~save'[t].alone
  <2>1. save[t] \in SaveStates
    BY DEF ServerSound, SavesSound
  <2>2. save'[t] = [save[t] EXCEPT !.alone = FALSE]
    BY <1>2, <1>5
  <2> QED BY <2>1, <2>2 DEF SaveStates
<1>6. save' \in [Requests -> SaveStates]
  BY <1>2, <1>4, <1>5
<1>7. \A t \in Requests : SaveSound(save[t])
  BY DEF ServerSound, SavesSound
<1>8. ASSUME NEW t \in Requests PROVE SaveSound(save[t])'
  BY <1>1, <1>4, <1>5, <1>7 DEF SaveSound
<1>9. ASSUME NEW t \in Requests, save'[t].alone
      PROVE  \A u \in Requests \ {t} : save'[u].phase = "idle"
  BY <1>3, <1>4, <1>5, <1>9
<1>10. SavesSound'
  BY <1>6, <1>8, <1>9 DEF SavesSound
<1>11. OwnSound'
  BY <1>1 DEF ServerSound, OwnSound
<1> QED BY <1>1, <1>10, <1>11 DEF ServerSound

\* A save that is over, however it ended.
LEMMA SaveOver ==
    ASSUME SavesSound, NEW r \in Requests, save' = [save EXCEPT ![r] = NoSave],
           saved' = saved,
           own'.saves = own.saves \/ \A t \in Requests \ {r} : ~save[t].alone
    PROVE  SavesSound'
<1>1. NoSave \in SaveStates /\ NoSave.phase = "idle" /\ ~NoSave.alone
  BY ReportsAssumption DEF NoSave, SaveStates
<1>2. save \in [Requests -> SaveStates] /\ save'[r] = NoSave
      /\ \A t \in Requests \ {r} : save'[t] = save[t]
  BY DEF SavesSound
<1>3. save' \in [Requests -> SaveStates]
  BY <1>1, <1>2
<1>4. ASSUME NEW t \in Requests PROVE SaveSound(save[t])'
  <2>1. CASE t = r
    BY <1>1, <1>2, <2>1 DEF SaveSound
  <2>2. CASE t # r
    <3>1. SaveSound(save[t])
      BY DEF SavesSound
    <3> QED BY <1>2, <2>2, <3>1 DEF SaveSound
  <2> QED BY <2>1, <2>2
<1>5. ASSUME NEW t \in Requests, save'[t].alone
      PROVE  \A u \in Requests \ {t} : save'[u].phase = "idle"
  <2>1. save[t].alone /\ t # r
    BY <1>1, <1>2, <1>5
  <2>2. \A u \in Requests \ {t} : save[u].phase = "idle"
    BY <2>1 DEF SavesSound
  <2> QED BY <1>1, <1>2, <2>2
<1> QED BY <1>3, <1>4, <1>5 DEF SavesSound

\* A save is stored, this tab's or another's.
LEMMA StoredSound ==
    ASSUME SavesSound, OwnSound, saved.at \in Nat, saved'.at = saved.at + 1, own' = own,
           books' = books, save' \in [Requests -> SaveStates],
           \A r \in Requests :
              /\ save'[r].alone = save[r].alone
              /\ \/ save'[r] = save[r]
                 \/ save'[r].at = saved'.at /\ save[r].phase # "idle"
    PROVE  SavesSound' /\ OwnSound'
<1>1. own.saves \in Nat /\ own.saves <= saved'.at /\ saved.at <= saved'.at
  BY DEF OwnSound, Owns
<1>2. OwnSound'
  BY <1>1 DEF OwnSound
<1>3. ASSUME NEW r \in Requests PROVE SaveSound(save[r])'
  <2>1. SaveSound(save[r]) /\ save[r].at \in Nat /\ saved'.at \in Nat
    BY DEF SavesSound, SaveStates
  <2>2. CASE save'[r] = save[r]
    BY <1>1, <2>1, <2>2 DEF SaveSound
  <2>3. CASE save'[r].at = saved'.at
    BY <1>1, <2>1, <2>3 DEF SaveSound
  <2> QED BY <2>2, <2>3
<1>4. ASSUME NEW r \in Requests, save'[r].alone, NEW t \in Requests \ {r}
      PROVE  save'[t].phase = "idle"
  <2>1. save[t].phase = "idle"
    BY <1>4 DEF SavesSound
  <2> QED BY <2>1
<1> QED BY <1>2, <1>3, <1>4 DEF SavesSound

LEMMA ReportsSoundStep == ReportsSound /\ [ReportsNext]_reportsVars => ReportsSound'
<1> SUFFICES ASSUME ReportsSound, [ReportsNext]_reportsVars PROVE ReportsSound'
  OBVIOUS
<1>s. ServerSound /\ CurrencySound(currency, own.last, saved.at)
  BY DEF ReportsSound
<1>c. /\ currency \in CacheQuery /\ currency.data \in Datum /\ currency.got \in Datum
      /\ own.saves \in Nat /\ saved.at \in Nat /\ own.saves <= saved.at
      /\ own.last \in Nat /\ own.last <= saved.at
      /\ own.books \in Nat /\ books \in Nat /\ own.books <= books
  BY <1>s DEF CurrencySound, CacheQuery, ServerSound, OwnSound, Owns
<1>p. page \in {"dashboard", "settings"} /\ mode \in {"base", "original"}
  BY DEF ReportsSound
<1>k. ShownKey \in Bases /\ ReportSound(report[ShownKey], own.books, books)
  BY <1>c, KeyInBases DEF ShownKey, ReportsSound
<1>u. ASSUME UNCHANGED <<serverVars, save, refreshing, own>>
      PROVE  ServerSound' /\ own' = own /\ saved' = saved /\ books' = books
  BY <1>s, <1>u, ServerUnchanged
<1>1. CASE OpenDashboard
  <2>1. PICK stale \in BOOLEAN : currency' = Observed(currency, stale)
    BY <1>1 DEF OpenDashboard
  <2>2. PICK old \in BOOLEAN : report' = [report EXCEPT ![ShownKey] = Observed(@, old)]
    BY <1>1 DEF OpenDashboard
  <2>3. page' = "dashboard" /\ mode' = mode
    BY <1>1 DEF OpenDashboard
  <2>9. ServerSound' /\ own' = own /\ saved' = saved /\ books' = books
    BY <1>1, <1>s, PageLeftSound DEF OpenDashboard
  <2>4. currency'.data = currency.data /\ CurrencySound(currency', own.last, saved.at)
    BY <1>c, <2>1, AskedAgain, CurrencyAsked
  <2> DEFINE q == Observed(report[ShownKey], old)
  <2>5. ReportSound(q, own.books, books) /\ ShownSound(q, own.books)
    BY <1>c, <1>k, ObservedSound
  <2>6. report' = [report EXCEPT ![ShownKey] = q]
    BY <2>2
  <2> HIDE DEF q
  <2>7. ShownKey = KeyFor(currency, mode)
    BY DEF ShownKey
  <2> QED BY <1>k, <1>p, <2>3, <2>4, <2>5, <2>6, <2>7, <2>9, OneReport
<1>2. CASE OpenSettings
  <2>1. PICK stale \in BOOLEAN : currency' = Observed(currency, stale)
    BY <1>2 DEF OpenSettings
  <2>2. page' = "settings" /\ mode' = mode /\ report' = report
    BY <1>2 DEF OpenSettings
  <2>3. currency'.data = currency.data /\ CurrencySound(currency', own.last, saved.at)
    BY <1>c, <2>1, AskedAgain, CurrencyAsked
  <2>4. ServerSound' /\ own' = own /\ saved' = saved /\ books' = books
    BY <1>2, <1>s, PageLeftSound DEF OpenSettings
  <2> QED BY <1>c, <2>2, <2>3, <2>4, SameReports
<1>3. CASE SetMode
  <2>1. PICK m \in {"base", "original"}, old \in BOOLEAN :
          /\ mode' = m
          /\ report' = [report EXCEPT ![KeyFor(currency, m)] = Observed(@, old)]
    BY <1>3 DEF SetMode
  <2>2. page' = page /\ currency' = currency /\ UNCHANGED <<serverVars, save, refreshing, own>>
    BY <1>3 DEF SetMode
  <2> DEFINE k == KeyFor(currency, m)
             q == Observed(report[k], old)
  <2>3. k \in Bases
    BY <1>c, KeyInBases
  <2>4. ReportSound(report[k], own.books, books)
    BY <2>3 DEF ReportsSound
  <2>5. ReportSound(q, own.books, books) /\ ShownSound(q, own.books)
    BY <1>c, <2>4, ObservedSound
  <2>6. report' = [report EXCEPT ![k] = q]
    BY <2>1
  <2> HIDE DEF q
  <2>7. currency'.data = currency.data /\ CurrencySound(currency', own.last, saved.at)
    BY <1>s, <2>2
  <2>8. ServerSound' /\ own' = own /\ saved' = saved /\ books' = books
    BY <1>u, <2>2
  <2> QED BY <1>p, <2>1, <2>2, <2>3, <2>5, <2>6, <2>7, <2>8, OneReport
<1>4. CASE ReadCurrency
  <2>1. /\ currency.phase = "sent" /\ currency' = ReadAt(currency, saved)
        /\ page' = page /\ mode' = mode /\ report' = report
        /\ UNCHANGED <<serverVars, save, refreshing, own>>
    BY <1>4 DEF ReadCurrency, viewVars
  <2>2. saved \in Datum /\ saved \in Stamp
    BY <1>s, StampHas DEF ServerSound, Stamp
  <2>3. currency' \in CacheQuery /\ currency'.data = currency.data /\ currency'.got = saved
    BY <1>c, <2>1, <2>2, ReadFields
  <2>4. CurrencySound(currency', own.last, saved.at)
    BY <1>c, <1>s, <2>3 DEF CurrencySound, Has
  <2>5. ServerSound' /\ own' = own /\ saved' = saved /\ books' = books
    BY <1>u, <2>1
  <2> QED BY <1>c, <1>p, <2>1, <2>3, <2>4, <2>5, SameReports
<1>5. CASE CurrencyArrives
  <2>1. /\ currency.phase = "read" /\ currency' = Received(currency, currency.got)
        /\ report' \in Follow(report, currency') /\ page' = page /\ mode' = mode
        /\ UNCHANGED <<serverVars, save, refreshing, own>>
    BY <1>5 DEF CurrencyArrives, viewVars
  <2>2. /\ currency' \in CacheQuery /\ currency'.data = currency.got
        /\ currency'.phase = "idle" /\ currency'.got = NoData
    BY <1>c, <2>1, ReceivedFields
  <2>3. CurrencySound(currency', own.last, saved.at)
    BY <1>c, <1>s, <2>1, <2>2, NoDatum DEF CurrencySound
  <2>4. ServerSound' /\ own' = own /\ saved' = saved /\ books' = books
    BY <1>u, <2>1
  <2>5. /\ DOMAIN report' = Bases /\ report' = [k \in Bases |-> report'[k]]
        /\ \A k \in Bases : ReportSound(report'[k], own.books, books)
        /\ page = "dashboard" => ShownSound(report'[KeyFor(currency', mode)], own.books)
    BY <1>c, <2>1, <2>2, FollowSound DEF ReportsSound
  <2>6. ShownKey' = KeyFor(currency', mode)
    BY <2>1 DEF ShownKey
  <2> QED BY <1>p, <2>1, <2>3, <2>4, <2>5, <2>6 DEF ReportsSound
<1>6. CASE CurrencyFails
  <2>1. /\ currency' = Failed(currency) /\ page' = page /\ mode' = mode /\ report' = report
        /\ UNCHANGED <<serverVars, save, refreshing, own>>
    BY <1>6 DEF CurrencyFails, viewVars
  <2>2. CurrencySound(currency', own.last, saved.at) /\ currency'.data = currency.data
    BY <1>c, <2>1, FailedFields, CurrencyAsked
  <2>3. ServerSound' /\ own' = own /\ saved' = saved /\ books' = books
    BY <1>u, <2>1
  <2> QED BY <1>c, <1>p, <2>1, <2>2, <2>3, SameReports
<1>7. CASE RefetchCurrency
  <2>1. /\ currency' = Refetched(currency) /\ page' = page /\ mode' = mode /\ report' = report
        /\ UNCHANGED <<serverVars, save, refreshing, own>>
    BY <1>7 DEF RefetchCurrency, viewVars
  <2>2. CurrencySound(currency', own.last, saved.at) /\ currency'.data = currency.data
    BY <1>c, <2>1, AskedAgain, CurrencyAsked
  <2>3. ServerSound' /\ own' = own /\ saved' = saved /\ books' = books
    BY <1>u, <2>1
  <2> QED BY <1>c, <1>p, <2>1, <2>2, <2>3, SameReports
<1>8. CASE RefetchReport
  <2> DEFINE q == Refetched(report[ShownKey])
  <2>1. /\ report' = [report EXCEPT ![ShownKey] = q] /\ page' = page /\ mode' = mode
        /\ currency' = currency /\ UNCHANGED <<serverVars, save, refreshing, own>>
    BY <1>8 DEF RefetchReport, viewVars
  <2>2. ReportSound(q, own.books, books) /\ ShownSound(q, own.books)
    BY <1>c, <1>k, RefetchedSound
  <2> HIDE DEF q
  <2>3. ShownKey = KeyFor(currency, mode)
    BY DEF ShownKey
  <2>4. ServerSound' /\ own' = own /\ saved' = saved /\ books' = books
    BY <1>u, <2>1
  <2> QED BY <1>k, <1>p, <1>s, <2>1, <2>2, <2>3, <2>4, OneReport
<1>9. ASSUME NEW k \in Bases,
             ReadReport(k) \/ ReportArrives(k) \/ ReportFails(k) \/ ReportFromSnapshot(k)
      PROVE  ReportsSound'
  <2>1. /\ page' = page /\ mode' = mode /\ currency' = currency
        /\ UNCHANGED <<serverVars, save, refreshing, own>>
    BY <1>9 DEF ReadReport, ReportArrives, ReportFails, ReportFromSnapshot, viewVars
  <2>2. PICK q : /\ report' = [report EXCEPT ![k] = q]
                 /\ ReportSound(q, own.books, books)
                 /\ k = ShownKey /\ page = "dashboard" => ShownSound(q, own.books)
    BY <1>9, AnsweredReport
  <2>3. ShownKey = KeyFor(currency, mode)
    BY DEF ShownKey
  <2>4. ServerSound' /\ own' = own /\ saved' = saved /\ books' = books
    BY <1>u, <2>1
  <2> QED BY <1>p, <1>s, <2>1, <2>2, <2>3, <2>4, OneReport
<1>10. ASSUME ServerSound', own' = own, saved.at <= saved'.at, books <= books',
              UNCHANGED <<viewVars, currency, report>>
       PROVE  ReportsSound'
  <2>1. page' = page /\ mode' = mode /\ currency' = currency /\ report' = report
    BY <1>10 DEF viewVars
  <2>2. saved'.at \in Nat
    BY <1>10 DEF ServerSound
  <2>3. currency.data.at \in Int /\ currency.got.at \in Int
    BY <1>c, DatumAt
  <2>4. CurrencySound(currency', own'.last, saved'.at)
    BY <1>c, <1>s, <1>10, <2>1, <2>2, <2>3 DEF CurrencySound
  <2> QED BY <1>p, <1>10, <2>1, <2>4, SameReports
<1>11. ASSUME NEW r \in Requests, Submit(r) \/ SaveFails(r) PROVE ReportsSound'
  <2>1. UNCHANGED <<serverVars, viewVars, currency, report, refreshing, own>>
    BY <1>11 DEF Submit, SaveFails
  <2>2. ServerSound' /\ saved' = saved /\ books' = books
    <3>1. CASE Submit(r)
      BY <1>s, <2>1, <3>1, SubmitSound DEF serverVars
    <3>2. CASE SaveFails(r)
      <4>1. save' = [save EXCEPT ![r] = NoSave] /\ saved' = saved /\ books' = books
            /\ own' = own /\ refreshing' = refreshing
        BY <3>2 DEF SaveFails, serverVars
      <4>2. SavesSound'
        BY <1>s, <4>1, SaveOver DEF ServerSound
      <4>3. OwnSound'
        BY <1>s, <4>1 DEF ServerSound, OwnSound
      <4> QED BY <1>s, <4>1, <4>2, <4>3 DEF ServerSound
    <3> QED BY <1>11, <3>1, <3>2
  <2> QED BY <1>c, <1>10, <2>1, <2>2
<1>12. ASSUME NEW r \in Requests, SaveBaseCurrency(r) PROVE ReportsSound'
  <2> DEFINE at == saved.at + 1
             row == [code |-> save[r].code, at |-> at]
             after == [save[r] EXCEPT !.phase = "stored", !.at = at]
  <2>1. /\ saved' = row /\ saved.at < MaxSaves /\ save' = [save EXCEPT ![r] = after]
        /\ save[r].phase = "sent" /\ books' = books
        /\ UNCHANGED <<viewVars, currency, report, refreshing, own>>
    BY <1>12 DEF SaveBaseCurrency
  <2>2. at \in Nat /\ at <= MaxSaves /\ saved.at <= at /\ at = saved.at + 1
    BY <1>c, <2>1, ReportsAssumption
  <2> HIDE DEF at
  <2>3. save \in [Requests -> SaveStates] /\ save[r] \in SaveStates
    BY <1>s DEF ServerSound, SavesSound
  <2>4. row \in [code : Codes, at : Nat] /\ row.at = at
    BY <2>2, <2>3 DEF SaveStates
  <2>5. after \in SaveStates /\ after.at = at /\ after.alone = save[r].alone
    BY <2>2, <2>3 DEF SaveStates
  <2> HIDE DEF row, after
  <2>6. /\ save' \in [Requests -> SaveStates] /\ save'[r] = after
        /\ \A t \in Requests \ {r} : save'[t] = save[t]
    BY <2>1, <2>3, <2>5
  <2>7. saved'.at = at
    BY <2>1, <2>4
  <2>8. SavesSound' /\ OwnSound'
    BY <1>c, <1>s, <2>1, <2>2, <2>5, <2>6, <2>7, StoredSound DEF ServerSound
  <2>9. ServerSound'
    BY <1>s, <2>1, <2>2, <2>4, <2>8 DEF ServerSound
  <2> QED BY <1>c, <1>10, <2>1, <2>2, <2>7, <2>9
<1>13. CASE SaveElsewhere
  <2>1. PICK code \in Codes : saved' = [code |-> code, at |-> saved.at + 1]
    BY <1>13 DEF SaveElsewhere
  <2>2. /\ saved.at < MaxSaves /\ books' = books
        /\ UNCHANGED <<viewVars, currency, report, save, refreshing, own>>
    BY <1>13 DEF SaveElsewhere
  <2>3. saved.at + 1 \in Nat /\ saved.at + 1 <= MaxSaves
    BY <1>c, <2>2, ReportsAssumption
  <2>4. saved' \in [code : Codes, at : Nat] /\ saved'.at = saved.at + 1
    BY <2>1, <2>3
  <2>5. SavesSound' /\ OwnSound'
    <3>1. save' \in [Requests -> SaveStates]
      BY <1>s, <2>2 DEF ServerSound, SavesSound
    <3> QED BY <1>c, <1>s, <2>2, <2>4, <3>1, StoredSound DEF ServerSound
  <2>6. ServerSound'
    BY <1>c, <1>s, <2>2, <2>3, <2>4, <2>5 DEF ServerSound
  <2> QED BY <1>c, <1>10, <2>2, <2>4, <2>6
<1>i. /\ DOMAIN ReportsInvalidated = Bases
      /\ ReportsInvalidated = [k \in Bases |-> ReportsInvalidated[k]]
      /\ \A k \in Bases : ReportsInvalidated[k] = Invalidated(report[k], IsObserved(k))
  BY DEF ReportsInvalidated, ReportsSound
<1>j. ASSUME NEW later, later \in Nat
      PROVE  /\ \A k \in Bases : ReportSound(ReportsInvalidated[k], later, books)
             /\ page = "dashboard" => ShownSound(ReportsInvalidated[ShownKey], later)
  <2>1. ASSUME NEW k \in Bases
        PROVE  /\ ReportSound(ReportsInvalidated[k], later, books)
               /\ IsObserved(k) => ShownSound(ReportsInvalidated[k], later)
    <3>1. ReportSound(report[k], own.books, books)
      BY DEF ReportsSound
    <3>2. IsObserved(k) \in BOOLEAN
      BY DEF IsObserved
    <3> QED BY <1>c, <1>i, <1>j, <3>1, <3>2, InvalidatedSound
  <2>2. page = "dashboard" => IsObserved(ShownKey)
    BY DEF IsObserved
  <2> QED BY <1>k, <2>1, <2>2
<1>14. ASSUME NEW r \in Requests, SaveSucceeds(r) PROVE ReportsSound'
  <2> DEFINE answer == [code |-> save[r].code, at |-> save[r].at]
  <2>1. /\ save[r].phase = "stored" /\ currency' = Written(Cancelled(currency), answer)
        /\ report' \in Follow(ReportsInvalidated, currency')
        /\ save' = [save EXCEPT ![r] = NoSave] /\ own' = SaveAnswered(save[r])
        /\ UNCHANGED <<serverVars, viewVars, refreshing>>
    BY <1>14 DEF SaveSucceeds
  <2>s. save[r] \in SaveStates /\ SaveSound(save[r]) /\ own \in Owns
    BY <1>s DEF ServerSound, SavesSound, OwnSound
  <2>2. answer \in Stamp /\ answer.at = save[r].at /\ save[r].at \in Nat /\ save[r].at <= saved.at
    BY <2>1, <2>s DEF SaveSound, SaveStates, Stamp
  <2> HIDE DEF answer
  <2>3. /\ currency' \in CacheQuery /\ currency'.data = answer
        /\ currency'.phase = "idle" /\ currency'.got = NoData
    <3>1. answer \in Datum /\ currency \in CacheQuery
      BY <1>c, <2>2, StampHas
    <3>2. currency' = Written(Cancelled(currency), answer)
      BY <2>1
    <3> QED BY <3>1, <3>2, WrittenFields
  <2>4. /\ own' \in Owns /\ own'.books = own.books /\ own'.last = save[r].at
        /\ own'.saves = (IF save[r].at > own.saves THEN save[r].at ELSE own.saves)
        /\ own'.overlapped = ~save[r].alone
    BY <2>1, <2>2, <2>s DEF SaveAnswered, Owns, SaveStates
  <2>5. /\ saved' = saved /\ books' = books /\ page' = page /\ mode' = mode
        /\ refreshing' = refreshing
    BY <2>1 DEF serverVars, viewVars
  <2>6. CurrencySound(currency', own'.last, saved'.at)
    BY <1>c, <2>2, <2>3, <2>4, <2>5, NoDatum DEF CurrencySound
  <2>7. OwnSound'
    <3>1. save[r].alone => own.saves <= save[r].at
      BY <2>1, <2>s DEF SaveSound
    <3>2. own'.last <= own'.saves /\ own'.saves <= saved'.at
      BY <1>c, <2>2, <2>4, <2>5
    <3>3. own'.overlapped \/ own'.last = own'.saves
      <4>1. CASE save[r].alone
        BY <1>c, <2>2, <2>4, <3>1, <4>1
      <4>2. CASE ~save[r].alone
        BY <2>4, <4>2
      <4> QED BY <4>1, <4>2
    <3>4. own'.books <= books'
      BY <1>c, <2>4, <2>5
    <3> QED BY <2>4, <3>2, <3>3, <3>4 DEF OwnSound
  <2>8. SavesSound'
    <3>1. \A t \in Requests \ {r} : ~save[t].alone
      BY <1>s, <2>1 DEF ServerSound, SavesSound
    <3> QED BY <1>s, <2>1, <2>5, <3>1, SaveOver DEF ServerSound
  <2>11. ServerSound'
    BY <1>s, <2>5, <2>7, <2>8 DEF ServerSound
  <2>9. /\ DOMAIN report' = Bases /\ report' = [k \in Bases |-> report'[k]]
        /\ \A k \in Bases : ReportSound(report'[k], own.books, books)
        /\ page = "dashboard" => ShownSound(report'[KeyFor(currency', mode)], own.books)
    BY <1>c, <1>i, <1>j, <2>1, <2>3, FollowSound
  <2>10. ShownKey' = KeyFor(currency', mode)
    BY <2>5 DEF ShownKey
  <2> QED BY <1>p, <2>4, <2>5, <2>6, <2>11, <2>9, <2>10 DEF ReportsSound
<1>r. ASSUME NEW kind \in Kinds, NEW r \in Requests,
             \/ StartRefresh(kind, r) \/ RefreshFails(kind, r)
             \/ BooksChange(kind, r) \/ RefreshSucceeds(kind, r)
      PROVE  refreshing' \in Refreshings
  <2>1. PICK state \in RequestStates : refreshing' = [refreshing EXCEPT ![kind][r] = state]
    <3>1. refreshing[kind][r] \in RequestStates
      BY <1>s DEF ServerSound, Refreshings
    <3>2. CASE StartRefresh(kind, r)
      <4>1. [phase |-> "sent", here |-> TRUE] \in RequestStates
        BY DEF RequestStates
      <4> QED BY <3>2, <4>1 DEF StartRefresh
    <3>3. CASE RefreshFails(kind, r) \/ RefreshSucceeds(kind, r)
      <4>1. NotPending \in RequestStates
        BY DEF NotPending, RequestStates
      <4> QED BY <3>3, <4>1 DEF RefreshFails, RefreshSucceeds
    <3>4. CASE BooksChange(kind, r)
      <4>1. [refreshing[kind][r] EXCEPT !.phase = "stored"] \in RequestStates
        BY <3>1 DEF RequestStates
      <4> QED BY <3>4, <4>1 DEF BooksChange
    <3> QED BY <1>r, <3>2, <3>3, <3>4
  <2> QED BY <1>s, <2>1 DEF ServerSound, Refreshings
<1>15. ASSUME NEW kind \in Kinds, NEW r \in Requests, StartRefresh(kind, r) \/ RefreshFails(kind, r)
       PROVE  ReportsSound'
  <2>1. UNCHANGED <<serverVars, viewVars, currency, report, save, own>>
    BY <1>15 DEF StartRefresh, RefreshFails
  <2>2. refreshing' \in Refreshings
    BY <1>15, <1>r
  <2>3. saved' = saved /\ books' = books /\ save' = save /\ own' = own
    BY <2>1 DEF serverVars
  <2>4. SavesSound' /\ OwnSound'
    BY <1>s, <2>3 DEF ServerSound, SavesSound, SaveSound, OwnSound
  <2>5. ServerSound'
    BY <1>s, <2>2, <2>3, <2>4 DEF ServerSound
  <2> QED BY <1>c, <1>10, <2>1, <2>3, <2>5
<1>16. ASSUME NEW kind \in Kinds, NEW r \in Requests, BooksChange(kind, r) PROVE ReportsSound'
  <2>1. /\ books < MaxBooks /\ books' = books + 1 /\ saved' = saved
        /\ UNCHANGED <<viewVars, currency, report, save, own>>
    BY <1>16 DEF BooksChange
  <2>2. refreshing' \in Refreshings
    BY <1>16, <1>r
  <2>3. books' \in Nat /\ books' <= MaxBooks /\ books <= books'
    BY <1>c, <2>1, ReportsAssumption
  <2>4. own.books <= books'
    BY <1>c, <2>1
  <2>5. SavesSound' /\ OwnSound'
    BY <1>s, <2>1, <2>4 DEF ServerSound, SavesSound, SaveSound, OwnSound
  <2>6. ServerSound'
    BY <1>s, <2>1, <2>2, <2>3, <2>5 DEF ServerSound
  <2> QED BY <1>c, <1>10, <2>1, <2>3, <2>6
<1>17. ASSUME NEW kind \in Kinds, NEW r \in Requests, RefreshSucceeds(kind, r) PROVE ReportsSound'
  <2>1. /\ report' = ReportsInvalidated /\ own' = [own EXCEPT !.books = books]
        /\ UNCHANGED <<serverVars, viewVars, currency, save>>
    BY <1>17 DEF RefreshSucceeds
  <2>6. refreshing' \in Refreshings
    BY <1>17, <1>r
  <2>2. /\ saved' = saved /\ books' = books /\ page' = page /\ mode' = mode
        /\ currency' = currency /\ save' = save
    BY <2>1 DEF serverVars, viewVars
  <2>3. /\ own'.books = books /\ own'.saves = own.saves /\ own'.last = own.last
        /\ own'.overlapped = own.overlapped /\ own' \in Owns
    BY <1>s, <1>c, <2>1 DEF ServerSound, OwnSound, Owns
  <2>7. SavesSound' /\ OwnSound'
    BY <1>c, <1>s, <2>2, <2>3 DEF ServerSound, SavesSound, SaveSound, OwnSound
  <2>4. ServerSound'
    BY <1>s, <2>2, <2>6, <2>7 DEF ServerSound
  <2>5. ShownKey' = ShownKey
    BY <2>2 DEF ShownKey
  <2> QED BY <1>c, <1>i, <1>j, <1>p, <1>s, <2>2, <2>1, <2>3, <2>4, <2>5 DEF ReportsSound
<1>18. CASE UNCHANGED reportsVars
  BY <1>18, <1>c, <1>10, <1>u DEF reportsVars
<1>19. ReportsNext => \/ OpenDashboard \/ OpenSettings \/ SetMode
                      \/ ReadCurrency \/ CurrencyArrives \/ CurrencyFails \/ RefetchCurrency
                      \/ RefetchReport \/ SaveElsewhere
                      \/ \E r \in Requests : Submit(r) \/ SaveFails(r)
                      \/ \E r \in Requests : SaveBaseCurrency(r)
                      \/ \E r \in Requests : SaveSucceeds(r)
                      \/ \E k \in Bases : ReadReport(k) \/ ReportArrives(k)
                                         \/ ReportFails(k) \/ ReportFromSnapshot(k)
                      \/ \E kind \in Kinds : \E r \in Requests :
                            StartRefresh(kind, r) \/ RefreshFails(kind, r)
                      \/ \E kind \in Kinds : \E r \in Requests : BooksChange(kind, r)
                      \/ \E kind \in Kinds : \E r \in Requests : RefreshSucceeds(kind, r)
  BY DEF ReportsNext, ReportsSound
<1> QED BY <1>1, <1>2, <1>3, <1>4, <1>5, <1>6, <1>7, <1>8, <1>9, <1>11, <1>12, <1>13, <1>14,
           <1>15, <1>16, <1>17, <1>18, <1>19

\* What the settings or the dashboard were answered last, the dashboard keeps to, for
\* any number of bases, saves and refreshes, under way together or not: the preference is
\* never from before the save this tab was answered last, nor from before any it was
\* answered unless that last one was under way together with another; and a report of
\* before the refresh this tab has the answer of is shown only while the page says so or
\* fetches it.
THEOREM ReportsKeepUp == ReportsSpec => []ReportsInvariant
<1>1. ReportsSound => ReportsInvariant
  <2> SUFFICES ASSUME ReportsSound PROVE ReportsInvariant
    OBVIOUS
  <2>1. /\ ServerSound /\ CurrencySound(currency, own.last, saved.at)
        /\ DOMAIN report = Bases
        /\ \A k \in Bases : ReportSound(report[k], own.books, books)
    BY DEF ReportsSound
  <2>2. PreferenceFollows
    <3>1. own.overlapped \/ own.last = own.saves
      BY <2>1 DEF ServerSound, OwnSound
    <3>2. own.last \in Nat /\ currency.data.at \in Int
      BY <2>1, DatumAt DEF ServerSound, OwnSound, Owns, CurrencySound, CacheQuery
    <3> QED BY <2>1, <3>1, <3>2 DEF PreferenceFollows, CurrencySound
  <2>3. ReportFollows
    BY DEF ReportFollows, ReportsSound, ShownSound, Outdated, Excused
  <2>4. /\ saved.code \in Codes /\ saved.at \in 0..MaxSaves /\ books \in 0..MaxBooks
        /\ refreshing \in Refreshings
        /\ own.last <= own.saves /\ own.saves <= saved.at /\ own.books <= books
    BY <2>1, ReportsAssumption DEF ServerSound, OwnSound
  <2>5. ASSUME NEW q \in CacheQuery, NEW most, most \in Nat, most <= MaxBooks + MaxSaves,
               q.data.at <= most
        PROVE  q.phase \in {"idle", "sent", "read"} /\ q.data.at \in -1..(MaxBooks + MaxSaves)
    <3>1. q.data \in Datum /\ q.phase \in {"idle", "sent", "read"}
      BY DEF CacheQuery
    <3>2. q.data.at \in Int /\ q.data.at >= -1
      BY <3>1, DatumAt, NoDatum
    <3> QED BY <2>5, <3>1, <3>2, ReportsAssumption
  <2>6. ASSUME NEW q \in {currency} \cup {report[k] : k \in DOMAIN report}
        PROVE  q.phase \in {"idle", "sent", "read"} /\ q.data.at \in -1..(MaxBooks + MaxSaves)
    <3>1. CASE q = currency
      <4>1. q \in CacheQuery /\ q.data.at <= saved.at /\ saved.at \in Nat
            /\ saved.at <= MaxBooks + MaxSaves
        BY <2>1, <2>4, <3>1, ReportsAssumption DEF CurrencySound
      <4> QED BY <2>5, <4>1
    <3>2. ASSUME NEW k \in Bases, q = report[k]
          PROVE  q.phase \in {"idle", "sent", "read"}
                 /\ q.data.at \in -1..(MaxBooks + MaxSaves)
      <4>1. q \in CacheQuery /\ q.data.at <= books /\ books \in Nat
            /\ books <= MaxBooks + MaxSaves
        BY <2>1, <2>4, <3>2, ReportsAssumption DEF ReportSound
      <4> QED BY <2>5, <4>1
    <3> QED BY <2>1, <3>1, <3>2
  <2>7. ReportsTypeInvariant
    BY <2>4, <2>6 DEF ReportsTypeInvariant, Refreshings, RequestStates
  <2> QED BY <2>2, <2>3, <2>7 DEF ReportsInvariant
<1> QED BY <1>1, ReportsSoundInit, ReportsSoundStep, PTL DEF ReportsSpec

-----------------------------------------------------------------------------
(* The states of synchronization a dashboard shows *)

USE SyncStatesAssumption

Moment == [at : Int]
StatusQuery == [data : Moment, phase : {"idle", "sent", "read"}, got : Moment, invalid : BOOLEAN,
                failed : BOOLEAN, cached : BOOLEAN, overtaken : BOOLEAN]
State == [shown : Nat \cup {-1}, first : {"none", "sent", "read"}, told : Nat, own : Int,
          late : BOOLEAN]
Update == [phase : {"idle", "sent", "stored", "read"}, made : Nat, told : Nat]

StatesTyping ==
    /\ round \in Nat /\ toldRound \in Nat
    /\ dashboard \in [mount : Nat, open : BOOLEAN]
    /\ syncStates \in [Mounts -> State]
    /\ updates \in [Mounts -> Update]
    /\ syncStatus \in StatusQuery

\* What a refresh is told comes after what it made, and neither is of the future.
UpdatesInOrder ==
    /\ toldRound <= round
    /\ \A d \in Mounts :
         /\ updates[d].phase \in {"stored", "read"} => updates[d].made <= round
         /\ updates[d].phase = "read" => updates[d].made <= updates[d].told

\* A mount that does not exist yet refreshed nothing, and a first GET that is still
\* under way after a refresh was under way when it ended.
FirstIsLate ==
    \A d \in Mounts :
      /\ d > dashboard.mount => updates[d].phase = "idle" /\ syncStates[d].own = -1
      /\ syncStates[d].first # "none" =>
           syncStates[d].own = -1 \/ syncStates[d].late

\* An answer that is on its way was read after the latest refresh wrote the query,
\* or the query knows that it was overtaken.
AnswerIsCurrent ==
    syncStatus.phase = "read" => syncStatus.overtaken \/ toldRound <= syncStatus.got.at

StatesInv == StatesTyping /\ UpdatesInOrder /\ FirstIsLate /\ AnswerIsCurrent
          /\ SyncStatesInvariant

\* What the operations of the query cache make of a query.
LEMMA QueryTyping ==
    ASSUME NEW q \in StatusQuery, NEW told \in Moment, NEW stale \in BOOLEAN
    PROVE  /\ Fetch(q) \in StatusQuery /\ Observed(q, stale) \in StatusQuery
           /\ Refetched(q) \in StatusQuery /\ ReadAt(q, told) \in StatusQuery
           /\ Received(q, told) \in StatusQuery /\ Failed(q) \in StatusQuery
           /\ Written(q, told) \in StatusQuery
<1> USE DEF StatusQuery
<1>0. NoData \in Moment
  BY DEF NoData, Moment
<1>1. Fetch(q) \in StatusQuery
  BY <1>0 DEF Fetch, Fetching
<1>2. Observed(q, stale) \in StatusQuery
  BY <1>1 DEF Observed
<1>3. Refetched(q) \in StatusQuery
  BY <1>0 DEF Refetched, Fetch, Fetching
<1>4. ReadAt(q, told) \in StatusQuery
  BY DEF ReadAt
<1>5. Received(q, told) \in StatusQuery /\ Failed(q) \in StatusQuery
  BY <1>0 DEF Received, Failed
<1>6. Written(q, told) \in StatusQuery
  BY DEF Written, Fetching
<1> QED BY <1>1, <1>2, <1>3, <1>4, <1>5, <1>6

\* Asking for a query leaves it as it is or begins a fetch of what it holds.
LEMMA Asked ==
    ASSUME NEW q \in StatusQuery, NEW stale \in BOOLEAN,
           NEW r, r = Observed(q, stale) \/ r = Refetched(q)
    PROVE  r = q \/ (r.phase = "sent" /\ r.data = q.data)
BY DEF StatusQuery, Fetch, Observed, Refetched, Fetching

\* What a refresh makes of a mount.
LEMMA ShownTyping ==
    ASSUME NEW s \in State, NEW told \in Nat, NEW made \in Nat, NEW open \in BOOLEAN
    PROVE  [s EXCEPT !.shown = told, !.own = made, !.late = open] \in State
<1> DEFINE a == [s EXCEPT !.shown = told]
           b == [a EXCEPT !.own = made]
<1>1. a \in State
  BY DEF State
<1> HIDE DEF a
<1>2. b \in State
  BY <1>1 DEF State
<1> HIDE DEF b
<1>3. [b EXCEPT !.late = open] \in State
  BY <1>2 DEF State
<1>4. [s EXCEPT !.shown = told, !.own = made, !.late = open] = [b EXCEPT !.late = open]
  BY DEF a, b
<1> QED BY <1>3, <1>4

LEMMA StatesInvInit == SyncStatesInit => StatesInv
<1> SUFFICES ASSUME SyncStatesInit PROVE StatesInv
  OBVIOUS
<1>1. StatesTyping
  BY DEF SyncStatesInit, StatesTyping, NotMounted, NoUpdate, Query, NoData, StatusQuery, Moment,
         State, Update
<1>2. UpdatesInOrder /\ FirstIsLate
  BY DEF SyncStatesInit, UpdatesInOrder, FirstIsLate, NotMounted, NoUpdate, Mounts
<1>3. AnswerIsCurrent /\ SyncStatesInvariant
  BY DEF SyncStatesInit, AnswerIsCurrent, SyncStatesInvariant, DashboardStatesFollow,
         StatusFollows, NotMounted, Query, NoData, Has, Mounts
<1> QED BY <1>1, <1>2, <1>3 DEF StatesInv

LEMMA TypingStep == StatesTyping /\ [SyncStatesNext]_syncStatesVars => StatesTyping'
<1> SUFFICES ASSUME StatesTyping, [SyncStatesNext]_syncStatesVars PROVE StatesTyping'
  OBVIOUS
<1> USE DEF StatesTyping
<1>1. CASE UNCHANGED syncStatesVars
  BY <1>1 DEF syncStatesVars
<1>2. CASE OpenDashboardSync \/ LeaveDashboard
  <2>1. syncStatus' \in StatusQuery
    <3>1. \E stale \in BOOLEAN : syncStatus' = Observed(syncStatus, stale)
      BY <1>2 DEF OpenDashboardSync, LeaveDashboard
    <3>2. PICK stale \in BOOLEAN : syncStatus' = Observed(syncStatus, stale)
      BY <3>1
    <3>3. NoData \in Moment
      BY DEF NoData, Moment
    <3> QED BY <3>2, <3>3, QueryTyping
  <2>a. dashboard.mount \in Nat
    OBVIOUS
  <2>2. dashboard' \in [mount : Nat, open : BOOLEAN]
    <3>1. CASE OpenDashboardSync
      BY <3>1, <2>a DEF OpenDashboardSync
    <3>2. CASE LeaveDashboard
      BY <3>2 DEF LeaveDashboard
    <3> QED BY <1>2, <3>1, <3>2
  <2>3. syncStates' \in [Mounts -> State]
    <3>1. CASE OpenDashboardSync
      BY <3>1 DEF OpenDashboardSync, State
    <3>2. CASE LeaveDashboard
      BY <3>2 DEF LeaveDashboard
    <3> QED BY <1>2, <3>1, <3>2
  <2> QED BY <1>2, <2>1, <2>2, <2>3 DEF OpenDashboardSync, LeaveDashboard
<1>3. CASE SyncTransactions \/ SynchronizeByCron
  BY <1>3 DEF SyncTransactions, SynchronizeByCron, Update
<1>4. ASSUME NEW d \in Mounts, ReadFirstStates(d) \/ SetFirstStates(d) \/ FirstStatesFail(d)
      PROVE StatesTyping'
  BY <1>4 DEF ReadFirstStates, SetFirstStates, FirstStatesFail, State
<1>5. ASSUME NEW d \in Mounts, Synchronize(d) \/ ReadNextStates(d) \/ UpdateFails(d)
      PROVE StatesTyping'
  BY <1>5 DEF Synchronize, ReadNextStates, UpdateFails, NoUpdate, Update
<1>6. ASSUME NEW d \in Mounts, SetNextStates(d) PROVE StatesTyping'
  <2>0. updates[d] \in Update /\ updates[d].told \in Nat /\ updates[d].made \in Nat
    BY DEF Update
  <2>a. Round(updates[d].told) \in Moment
    BY <2>0 DEF Round, Moment
  <2>1. syncStatus' \in StatusQuery
    BY <1>6, <2>a, QueryTyping DEF SetNextStates
  <2>2. updates' \in [Mounts -> Update]
    BY <1>6 DEF SetNextStates, NoUpdate, Update
  <2>b. (syncStates[d].first # "none") \in BOOLEAN
    OBVIOUS
  <2>c. syncStates[d] \in State
    OBVIOUS
  <2>e. [syncStates[d] EXCEPT !.shown = updates[d].told, !.own = updates[d].made,
                              !.late = (syncStates[d].first # "none")] \in State
    BY <2>0, <2>b, <2>c, ShownTyping
  <2>3. syncStates' \in [Mounts -> State]
    BY <1>6, <2>e DEF SetNextStates
  <2>4. toldRound' \in Nat /\ UNCHANGED <<round, dashboard>>
    BY <1>6, <2>0 DEF SetNextStates
  <2> QED BY <2>1, <2>2, <2>3, <2>4
<1>7. CASE ReadStatus \/ StatusArrives \/ StatusFails \/ RefetchStatus
  <2>1. Round(round) \in Moment
    BY DEF Round, Moment
  <2>2. syncStatus.got \in Moment
    BY DEF StatusQuery
  <2>3. syncStatus' \in StatusQuery
    <3>1. CASE ReadStatus
      BY <3>1, <2>1, QueryTyping DEF ReadStatus
    <3>2. CASE StatusArrives
      BY <3>2, <2>2, QueryTyping DEF StatusArrives
    <3>3. CASE StatusFails
      BY <3>3, <2>2, QueryTyping DEF StatusFails
    <3>4. CASE RefetchStatus
      BY <3>4, <2>2, QueryTyping DEF RefetchStatus
    <3> QED BY <1>7, <3>1, <3>2, <3>3, <3>4
  <2>4. UNCHANGED <<round, dashboard, syncStates, updates, toldRound>>
    BY <1>7 DEF ReadStatus, StatusArrives, StatusFails, RefetchStatus
  <2> QED BY <2>3, <2>4
<1> QED BY <1>1, <1>2, <1>3, <1>4, <1>5, <1>6, <1>7 DEF SyncStatesNext

LEMMA StatesInvStep == StatesInv /\ [SyncStatesNext]_syncStatesVars => StatesInv'
<1> SUFFICES ASSUME StatesInv, [SyncStatesNext]_syncStatesVars PROVE StatesInv'
  OBVIOUS
<1>0. StatesTyping /\ StatesTyping'
  BY TypingStep DEF StatesInv
<1>a. UpdatesInOrder' /\ FirstIsLate' /\ DashboardStatesFollow'
  <2> USE <1>0 DEF StatesTyping
  <2>0. UpdatesInOrder /\ FirstIsLate /\ DashboardStatesFollow
    BY DEF StatesInv, SyncStatesInvariant
  <2>t. \A e \in Mounts : /\ e \in Nat /\ syncStates[e] \in State /\ updates[e] \in Update
                          /\ syncStates'[e] \in State /\ updates'[e] \in Update
    BY DEF Mounts
  <2>1. CASE UNCHANGED <<round, dashboard, syncStates, updates, toldRound>>
    BY <2>0, <2>1 DEF UpdatesInOrder, FirstIsLate, DashboardStatesFollow
  <2>2. CASE OpenDashboardSync
    <3>1. /\ dashboard'.mount = dashboard.mount + 1 /\ dashboard.mount \in Nat
          /\ dashboard.mount + 1 \in Mounts
      BY <2>2 DEF OpenDashboardSync, Mounts
    <3>2. \A e \in Mounts : /\ syncStates'[e].own = syncStates[e].own
                            /\ syncStates'[e].shown = syncStates[e].shown
                            /\ syncStates'[e].late = syncStates[e].late
      BY <2>2, <2>t DEF OpenDashboardSync, State
    <3>3. \A e \in Mounts :
             e # dashboard.mount + 1 => syncStates'[e].first = syncStates[e].first
      BY <2>2, <2>t DEF OpenDashboardSync, State
    <3>4. UNCHANGED <<round, updates, toldRound>>
      BY <2>2 DEF OpenDashboardSync
    <3>5. UpdatesInOrder'
      BY <3>4, <2>0 DEF UpdatesInOrder
    <3>6. DashboardStatesFollow'
      BY <3>2, <2>0 DEF DashboardStatesFollow
    <3>7. FirstIsLate'
      BY <3>1, <3>2, <3>3, <3>4, <2>0, <2>t DEF FirstIsLate
    <3> QED BY <3>5, <3>6, <3>7
  <2>3. CASE LeaveDashboard
    <3>1. dashboard'.mount = dashboard.mount /\ UNCHANGED <<round, syncStates, updates, toldRound>>
      BY <2>3 DEF LeaveDashboard
    <3> QED BY <3>1, <2>0 DEF UpdatesInOrder, FirstIsLate, DashboardStatesFollow
  <2>4. CASE SyncTransactions
    <3>1. /\ dashboard.mount \in Nat /\ UNCHANGED <<round, dashboard, syncStates, toldRound>>
          /\ \A e \in Mounts : e # dashboard.mount => updates'[e] = updates[e]
      BY <2>4 DEF SyncTransactions
    <3>2. dashboard.mount \in Mounts => updates'[dashboard.mount].phase = "sent"
      BY <2>4, <2>t DEF SyncTransactions, Update
    <3> QED BY <3>1, <3>2, <2>0, <2>t DEF UpdatesInOrder, FirstIsLate, DashboardStatesFollow
  <2>5. CASE SynchronizeByCron
    <3>1. round' = round + 1 /\ UNCHANGED <<dashboard, syncStates, updates, toldRound>>
      BY <2>5 DEF SynchronizeByCron
    <3>2. \A e \in Mounts : updates[e].made \in Nat
      BY <2>t DEF Update
    <3> QED BY <3>1, <3>2, <2>0 DEF UpdatesInOrder, FirstIsLate, DashboardStatesFollow
  <2>6. ASSUME NEW d \in Mounts, ReadFirstStates(d) \/ SetFirstStates(d) \/ FirstStatesFail(d)
        PROVE UpdatesInOrder' /\ FirstIsLate' /\ DashboardStatesFollow'
    <3>1. UNCHANGED <<round, dashboard, updates, toldRound>>
      BY <2>6 DEF ReadFirstStates, SetFirstStates, FirstStatesFail
    <3>2. \A e \in Mounts : /\ syncStates'[e].own = syncStates[e].own
                            /\ syncStates'[e].late = syncStates[e].late
      BY <2>6, <2>t DEF ReadFirstStates, SetFirstStates, FirstStatesFail, State
    <3>3. \A e \in Mounts : syncStates'[e].first # "none" => syncStates[e].first # "none"
      BY <2>6, <2>t DEF ReadFirstStates, SetFirstStates, FirstStatesFail, State
    <3>4. \A e \in Mounts : \/ syncStates'[e].shown = syncStates[e].shown
                            \/ syncStates[e].first # "none"
      BY <2>6, <2>t DEF ReadFirstStates, SetFirstStates, FirstStatesFail, State
    <3>5. \A e \in Mounts : syncStates'[e].shown >= -1 /\ syncStates'[e].shown \in Int
      BY <2>t DEF State
    <3> QED BY <3>1, <3>2, <3>3, <3>4, <3>5, <2>0
            DEF UpdatesInOrder, FirstIsLate, DashboardStatesFollow
  <2>7. ASSUME NEW d \in Mounts, Synchronize(d) \/ ReadNextStates(d) \/ UpdateFails(d)
        PROVE UpdatesInOrder' /\ FirstIsLate' /\ DashboardStatesFollow'
    <3>1. UNCHANGED <<dashboard, syncStates, toldRound>> /\ round <= round'
      BY <2>7 DEF Synchronize, ReadNextStates, UpdateFails
    <3>2. \A e \in Mounts : e # d => updates'[e] = updates[e]
      BY <2>7 DEF Synchronize, ReadNextStates, UpdateFails
    <3>3. updates'[d].phase \in {"stored", "read"} => updates'[d].made <= round'
      <4>1. CASE Synchronize(d)
        BY <4>1, <2>t DEF Synchronize, Update
      <4>2. CASE ReadNextStates(d)
        BY <4>2, <2>0, <2>t DEF ReadNextStates, Update, UpdatesInOrder
      <4>3. CASE UpdateFails(d)
        BY <4>3 DEF UpdateFails, NoUpdate
      <4> QED BY <2>7, <4>1, <4>2, <4>3
    <3>4. updates'[d].phase = "read" => updates'[d].made <= updates'[d].told
      <4>1. CASE Synchronize(d)
        BY <4>1, <2>t DEF Synchronize, Update
      <4>2. CASE ReadNextStates(d)
        BY <4>2, <2>0, <2>t DEF ReadNextStates, Update, UpdatesInOrder
      <4>3. CASE UpdateFails(d)
        BY <4>3 DEF UpdateFails, NoUpdate
      <4> QED BY <2>7, <4>1, <4>2, <4>3
    <3>5. d > dashboard.mount => updates'[d].phase = "idle"
      <4>1. d > dashboard.mount => updates[d].phase = "idle"
        BY <2>0 DEF FirstIsLate
      <4> QED BY <4>1, <2>7 DEF Synchronize, ReadNextStates, UpdateFails, NoUpdate
    <3>6. UpdatesInOrder'
      <4>1. \A e \in Mounts : updates[e].made \in Nat
        BY <2>t DEF Update
      <4> QED BY <4>1, <3>1, <3>2, <3>3, <3>4, <2>0 DEF UpdatesInOrder
    <3> QED BY <3>1, <3>2, <3>5, <3>6, <2>0 DEF FirstIsLate, DashboardStatesFollow
  <2>8. ASSUME NEW d \in Mounts, SetNextStates(d)
        PROVE UpdatesInOrder' /\ FirstIsLate' /\ DashboardStatesFollow'
    <3>1. UNCHANGED <<round, dashboard>> /\ toldRound' = updates[d].made
      BY <2>8 DEF SetNextStates
    <3>2. updates[d].phase = "read" /\ updates[d].made <= round
             /\ updates[d].made <= updates[d].told
      BY <2>8, <2>0 DEF SetNextStates, UpdatesInOrder
    <3>3. /\ updates'[d].phase = "idle"
          /\ \A e \in Mounts \ {d} : updates'[e] = updates[e] /\ syncStates'[e] = syncStates[e]
      BY <2>8 DEF SetNextStates, NoUpdate
    <3>4. /\ syncStates'[d].shown = updates[d].told /\ syncStates'[d].own = updates[d].made
          /\ syncStates'[d].first = syncStates[d].first
          /\ syncStates'[d].late = (syncStates[d].first # "none")
      BY <2>8, <2>t DEF SetNextStates, State
    <3>5. updates[d].told \in Nat /\ updates[d].made \in Nat
      BY <2>t DEF Update
    <3>6. UpdatesInOrder'
      BY <3>1, <3>2, <3>3, <2>0 DEF UpdatesInOrder
    <3>7. DashboardStatesFollow'
      BY <3>2, <3>3, <3>4, <3>5, <2>0 DEF DashboardStatesFollow
    <3>8. ~(d > dashboard.mount)
      BY <3>2, <2>0 DEF FirstIsLate
    <3>9. FirstIsLate'
      BY <3>1, <3>3, <3>4, <3>8, <2>0 DEF FirstIsLate
    <3> QED BY <3>6, <3>7, <3>9
  <2> QED
    BY <2>1, <2>2, <2>3, <2>4, <2>5, <2>6, <2>7, <2>8 DEF SyncStatesNext, syncStatesVars,
       ReadStatus, StatusArrives, StatusFails, RefetchStatus
<1>b. AnswerIsCurrent' /\ StatusFollows'
  <2> USE <1>0 DEF StatesTyping
  <2>0. AnswerIsCurrent /\ StatusFollows /\ toldRound <= round
    BY DEF StatesInv, SyncStatesInvariant, UpdatesInOrder
  <2>1. CASE UNCHANGED <<syncStatus, toldRound>>
    BY <2>0, <2>1 DEF AnswerIsCurrent, StatusFollows, Fetching, Has
  <2>2. ASSUME UNCHANGED toldRound, NEW stale \in BOOLEAN,
               syncStatus' = Observed(syncStatus, stale) \/ syncStatus' = Refetched(syncStatus)
        PROVE AnswerIsCurrent' /\ StatusFollows'
    <3>1. \/ syncStatus' = syncStatus
          \/ syncStatus'.phase = "sent" /\ syncStatus'.data = syncStatus.data
      BY <2>2, Asked
    <3> QED BY <2>0, <2>2, <3>1 DEF AnswerIsCurrent, StatusFollows, Fetching, Has
  <2>3. ASSUME NEW d \in Mounts, SetNextStates(d) PROVE AnswerIsCurrent' /\ StatusFollows'
    <3>0. updates[d].made <= updates[d].told
      BY <2>3 DEF StatesInv, UpdatesInOrder, SetNextStates
    <3>1. /\ syncStatus'.phase = syncStatus.phase /\ syncStatus'.data.at = updates[d].told
          /\ syncStatus.phase # "idle" => syncStatus'.overtaken
          /\ toldRound' = updates[d].made
      BY <2>3 DEF SetNextStates, Written, Round, Fetching, StatusQuery
    <3>2. updates[d].told \in Nat /\ updates[d].made \in Nat
      BY DEF Update
    <3> QED BY <3>0, <3>1, <3>2 DEF AnswerIsCurrent, StatusFollows, Fetching, Has
  <2>4. CASE ReadStatus
    <3>1. /\ syncStatus'.phase = "read" /\ syncStatus'.got.at = round
          /\ UNCHANGED toldRound
      BY <2>4 DEF ReadStatus, ReadAt, Round, StatusQuery
    <3> QED BY <2>0, <3>1 DEF AnswerIsCurrent, StatusFollows, Fetching, Has
  <2>5. CASE StatusArrives
    <3>1. /\ syncStatus.phase = "read" /\ syncStatus'.phase = "idle"
          /\ syncStatus'.data = syncStatus.got /\ syncStatus'.overtaken = syncStatus.overtaken
          /\ UNCHANGED toldRound
      BY <2>5 DEF StatusArrives, Received, StatusQuery
    <3>2. syncStatus.got.at \in Int
      BY DEF StatusQuery, Moment
    <3> QED BY <2>0, <3>1, <3>2 DEF AnswerIsCurrent, StatusFollows, Fetching, Has
  <2>6. CASE StatusFails
    <3>1. syncStatus'.phase = "idle" /\ syncStatus'.failed
      BY <2>6 DEF StatusFails, Failed, StatusQuery
    <3> QED BY <3>1 DEF AnswerIsCurrent, StatusFollows
  <2>7. CASE OpenDashboardSync \/ LeaveDashboard
    <3>1. PICK stale \in BOOLEAN : syncStatus' = Observed(syncStatus, stale)
      BY <2>7 DEF OpenDashboardSync, LeaveDashboard
    <3>2. UNCHANGED toldRound
      BY <2>7 DEF OpenDashboardSync, LeaveDashboard
    <3> QED BY <2>2, <3>1, <3>2
  <2>8. CASE RefetchStatus
    BY <2>2, <2>8 DEF RefetchStatus
  <2> QED
    BY <2>1, <2>3, <2>4, <2>5, <2>6, <2>7, <2>8 DEF SyncStatesNext, syncStatesVars,
       SyncTransactions, SynchronizeByCron, ReadFirstStates, SetFirstStates, FirstStatesFail,
       Synchronize, ReadNextStates, UpdateFails
<1> QED BY <1>0, <1>a, <1>b DEF StatesInv, SyncStatesInvariant

\* What a "Refresh transactions" brought is not taken back, neither on its dashboard
\* nor where the query is observed, for any number of mounts and rounds
\* (useDashboardSync, SettingsSyncStatus).
THEOREM StatesAreKept == SyncStatesSpec => []SyncStatesInvariant
<1>1. StatesInv => SyncStatesInvariant
  BY DEF StatesInv
<1> QED BY StatesInvInit, StatesInvStep, <1>1, PTL DEF SyncStatesSpec

HIDE SyncStatesAssumption

=============================================================================
