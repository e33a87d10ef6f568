------------------------------ MODULE Accounts ------------------------------
(* Refreshing the accounts from Monobank: three awaits of AccountService   *)
(* (client info, two SELECTs and one atomic batch, the list of the         *)
(* answer), for refreshes of several tabs and isolates at once, and the    *)
(* query cache of one browser that holds the list. A balance stands for    *)
(* everything a snapshot says of an account: it is the number of the       *)
(* bank's change that produced it. Timestamps and currencies are left out. *)
EXTENDS Naturals, FiniteSets

CONSTANTS
    Refreshes,      \* POST /api/sync/accounts requests that may be under way
    BankAccounts,   \* provider account identifiers
    Cards,          \* pairs of an account and a masked card number
    MaxChanges,     \* bound: changes at the bank
    MaxRefreshes    \* bound: refreshes started

ASSUME AccountsAssumption ==
    /\ \A c \in Cards : c[1] \in BankAccounts
    /\ MaxChanges \in Nat
    /\ MaxRefreshes \in Nat

\* "nobody" is not a request.
ASSUME RefreshesAssumption == "nobody" \notin Refreshes

VARIABLES
    bank,           \* [change, accounts, cards]: what client-info answers
    accountRow,     \* accounts: [id, balance, active]; id 0 when there is none
    cardRow,        \* account_cards: "none", "active" or "inactive"
    hasSyncState,   \* sync_state: the accounts that have their row
    refresh,        \* [pc, run, snapshot, known, floor, list] of each request
    refreshes,      \* refreshes started: each mints identifiers of its own
    browser,        \* [mutation, get, shown, overlap]: useAccountSync, ['accounts']
    lastStored      \* [snapshot, batch]: history: the latest committed batch

accountsVars == <<bank, accountRow, cardRow, hasSyncState, refresh, refreshes,
                  browser, lastStored>>
accountTables == <<accountRow, cardRow, hasSyncState, lastStored>>

Nothing == [change |-> 0, accounts |-> {}, cards |-> {}]
Snapshots == [change : 0..MaxChanges, accounts : SUBSET BankAccounts,
              cards : SUBSET Cards]
NoList == [batch |-> 0, accounts |-> {}, cards |-> {}]
NoAccount == [id |-> 0, balance |-> 0, active |-> FALSE]
AtRest == [pc |-> "idle", run |-> 0, snapshot |-> Nothing,
           known |-> [a \in BankAccounts |-> 0], floor |-> 0, list |-> NoList]
NoGet == [pc |-> "none", list |-> NoList]
Idle == "nobody"

\* listByUser: the active accounts and cards, of the store they were read from.
Listed == [batch |-> lastStored.batch,
           accounts |-> {a \in BankAccounts : accountRow[a].active},
           cards |-> {c \in Cards : cardRow[c] = "active"}]

AccountsInit ==
    /\ bank = [change |-> 0, accounts |-> BankAccounts, cards |-> Cards]
    /\ accountRow = [a \in BankAccounts |-> NoAccount]
    /\ cardRow = [c \in Cards |-> "none"]
    /\ hasSyncState = {}
    /\ refresh = [r \in Refreshes |-> AtRest]
    /\ refreshes = 0
    /\ browser = [mutation |-> Idle, get |-> NoGet, shown |-> NoList,
                  overlap |-> FALSE]
    /\ lastStored = [snapshot |-> Nothing, batch |-> 0]

\* The bank opens or closes accounts and cards, or a balance moves.
BankChanges ==
    /\ bank.change < MaxChanges
    /\ \E accounts \in SUBSET BankAccounts, cards \in SUBSET Cards :
          /\ \A c \in cards : c[1] \in accounts
          /\ bank' = [change |-> bank.change + 1, accounts |-> accounts,
                      cards |-> cards]
    /\ UNCHANGED <<accountTables, refresh, refreshes, browser>>

Begin(r) ==
    /\ refresh[r].pc = "idle"
    /\ refreshes < MaxRefreshes
    /\ refreshes' = refreshes + 1
    /\ refresh' = [refresh EXCEPT ![r] =
           [AtRest EXCEPT !.pc = "fetch", !.run = refreshes',
                          !.floor = lastStored.snapshot.change]]

SyncKeepsGets(r) ==                  \* mutant: onMutate cancels no query
    /\ browser.mutation = Idle
    /\ Begin(r)
    /\ browser' = [browser EXCEPT !.mutation = r]
    /\ UNCHANGED <<bank, accountTables>>

\* sync: one mutation at a time; onMutate cancels the GET under way.
Sync(r) ==
    /\ browser.mutation = Idle
    /\ Begin(r)
    /\ browser' = [browser EXCEPT !.mutation = r, !.get = NoGet,
                                  !.overlap = FALSE]
    /\ UNCHANGED <<bank, accountTables>>

\* Another tab or device refreshes the same accounts.
SyncElsewhere(r) ==
    /\ Begin(r)
    /\ UNCHANGED <<bank, accountTables, browser>>

\* getClientInfo answers with the accounts of this moment.
FetchClientInfo(r) ==
    /\ refresh[r].pc = "fetch"
    /\ refresh' = [refresh EXCEPT ![r].pc = "fetched", ![r].snapshot = bank]
    /\ UNCHANGED <<bank, accountTables, refreshes, browser>>

\* It fails: 429, 504 or 502, and nothing is stored. The mutation is not retried.
FetchFails(r) ==
    /\ refresh[r].pc = "fetch"
    /\ refresh' = [refresh EXCEPT ![r] = AtRest]
    /\ browser' = IF browser.mutation = r
                  THEN [browser EXCEPT !.mutation = Idle] ELSE browser
    /\ UNCHANGED <<bank, accountTables, refreshes>>

\* The SELECTs before the batch: the identifiers of the accounts that exist.
ReadKnown(r) ==
    /\ refresh[r].pc = "fetched"
    /\ refresh' = [refresh EXCEPT ![r].pc = "read",
                      ![r].known = [a \in BankAccounts |-> accountRow[a].id]]
    /\ UNCHANGED <<bank, accountTables, refreshes, browser>>

\* accountIds.get(providerAccountId) ?? crypto.randomUUID()
Chosen(r, a) == IF refresh[r].known[a] # 0 THEN refresh[r].known[a]
                ELSE refresh[r].run

\* The identifier of the row after its upsert: a conflict keeps the stored one.
Kept(r, a) == IF accountRow[a].id # 0 THEN accountRow[a].id ELSE Chosen(r, a)

\* sync_state and account_cards refer to the chosen identifier, which no row
\* has when another refresh inserted the account after the SELECT.
ForeignKeysHold(r) ==
    \A a \in refresh[r].snapshot.accounts : Kept(r, a) = Chosen(r, a)

\* One upsert of the batch, or the row every account is left with by the two
\* deactivating UPDATEs.
StoredAccount(r, a) ==
    IF a \in refresh[r].snapshot.accounts
    THEN [id |-> Kept(r, a), balance |-> refresh[r].snapshot.change, active |-> TRUE]
    ELSE [accountRow[a] EXCEPT !.active = FALSE]

CardKept(r, c) ==                    \* mutant: cards are never deactivated
    IF c \in refresh[r].snapshot.cards THEN "active" ELSE cardRow[c]

StoredCard(r, c) ==
    IF c \in refresh[r].snapshot.cards THEN "active"
    ELSE IF cardRow[c] = "none" THEN "none" ELSE "inactive"

\* The accounts of the INSERT INTO sync_state ... ON CONFLICT DO NOTHING.
GivenState(r) == refresh[r].snapshot.accounts

\* One atomic batch.
Store(r) ==
    /\ refresh[r].pc = "read"
    /\ ForeignKeysHold(r)
    /\ accountRow' = [a \in BankAccounts |-> StoredAccount(r, a)]
    /\ cardRow' = [c \in Cards |-> StoredCard(r, c)]
    /\ hasSyncState' = hasSyncState \cup GivenState(r)
    /\ lastStored' = [snapshot |-> refresh[r].snapshot,
                      batch |-> lastStored.batch + 1]
    /\ refresh' = [refresh EXCEPT ![r].pc = "stored"]
    /\ UNCHANGED <<bank, refreshes, browser>>

\* A foreign key fails: the batch rolls back and the answer is 500.
StoreFails(r) ==
    /\ refresh[r].pc = "read"
    /\ ~ForeignKeysHold(r)
    /\ refresh' = [refresh EXCEPT ![r] = AtRest]
    /\ browser' = IF browser.mutation = r
                  THEN [browser EXCEPT !.mutation = Idle] ELSE browser
    /\ UNCHANGED <<bank, accountTables, refreshes>>

\* return this.repository.listByUser(userId)
ListAfterStore(r) ==
    /\ refresh[r].pc = "stored"
    /\ refresh' = [refresh EXCEPT ![r].pc = "answered", ![r].list = Listed]
    /\ UNCHANGED <<bank, accountTables, refreshes, browser>>

\* onSuccess: setQueryData(accountQueryKeys.all, accounts)
SyncSucceeds(r) ==
    /\ refresh[r].pc = "answered"
    /\ refresh' = [refresh EXCEPT ![r] = AtRest]
    /\ browser' = IF browser.mutation = r
                  THEN [browser EXCEPT !.mutation = Idle, !.shown = refresh[r].list]
                  ELSE browser
    /\ UNCHANGED <<bank, accountTables, refreshes>>

\* A mount, a focus or a reconnection refetches the list.
GetAccounts ==
    /\ browser.get = NoGet
    /\ browser' = [browser EXCEPT !.get.pc = "sent",
                                  !.overlap = (browser.mutation # Idle)]
    /\ UNCHANGED <<bank, accountTables, refresh, refreshes>>

ListAccounts ==
    /\ browser.get.pc = "sent"
    /\ browser' = [browser EXCEPT !.get = [pc |-> "read", list |-> Listed]]
    /\ UNCHANGED <<bank, accountTables, refresh, refreshes>>

GetAnswered ==
    /\ browser.get.pc = "read"
    /\ browser' = [browser EXCEPT !.get = NoGet, !.shown = browser.get.list,
                                  !.overlap = FALSE]
    /\ UNCHANGED <<bank, accountTables, refresh, refreshes>>

AccountsNext ==
    \/ BankChanges \/ GetAccounts \/ ListAccounts \/ GetAnswered
    \/ \E r \in Refreshes :
          \/ Sync(r) \/ SyncElsewhere(r) \/ FetchClientInfo(r) \/ FetchFails(r)
          \/ ReadKnown(r) \/ Store(r) \/ StoreFails(r)
          \/ ListAfterStore(r) \/ SyncSucceeds(r)

AccountsSpec == AccountsInit /\ [][AccountsNext]_accountsVars

-----------------------------------------------------------------------------
\* Every variable stays in the set its column, map or state allows.
AccountsTypeInvariant ==
    /\ bank \in Snapshots
    /\ accountRow \in [BankAccounts ->
           [id : 0..MaxRefreshes, balance : 0..MaxChanges, active : BOOLEAN]]
    /\ cardRow \in [Cards -> {"none", "active", "inactive"}]
    /\ hasSyncState \subseteq BankAccounts
    /\ refreshes \in 0..MaxRefreshes
    /\ \A r \in Refreshes :
          /\ refresh[r].pc \in {"idle", "fetch", "fetched", "read", "stored", "answered"}
          /\ refresh[r].run \in 0..MaxRefreshes
          /\ refresh[r].pc # "idle" => refresh[r].run > 0
          /\ refresh[r].snapshot \in Snapshots
          /\ refresh[r].known \in [BankAccounts -> 0..MaxRefreshes]
    /\ lastStored.snapshot \in Snapshots

\* However refreshes interleave, the accounts and the cards that are active
\* are together those of one snapshot, the one stored last: never a mixture
\* of two, and no active card under an account the bank no longer reports.
ActiveIsLastStored ==
    /\ {a \in BankAccounts : accountRow[a].active} = lastStored.snapshot.accounts
    /\ {c \in Cards : cardRow[c] = "active"} = lastStored.snapshot.cards

\* An account that transactions can be imported for has its sync_state row,
\* whichever of two concurrent first refreshes inserted it: the run that
\* selects the next account joins the two tables.
EveryAccountSynchronizable ==
    hasSyncState = {a \in BankAccounts : accountRow[a].id # 0}

\* Transactions, cards and sync states refer to an account by its identifier:
\* a refresh that does not know the account yet must not give it another one.
AccountIdsStable ==
    [][\A a \in BankAccounts :
          accountRow[a].id # 0 => accountRow'[a].id = accountRow[a].id]_accountsVars

\* A refresh begun after another had stored its snapshot never stores an older
\* one over it. (Two that overlap may: the balances go back until the next.)
NoRollbackAcrossRefreshes ==
    [][\A r \in Refreshes :
          refresh[r].pc = "read" /\ refresh'[r].pc = "stored"
             => lastStored'.snapshot.change >= refresh[r].floor]_accountsVars

\* "An older GET must not overwrite the successful sync response." A list that
\* was read before the one on the screen replaces it only if its GET was sent
\* while the mutation was pending, which cancelQueries came too early for.
OlderListNeedsOverlap ==
    [][/\ browser'.shown # browser.shown
       /\ browser'.mutation = browser.mutation
       => browser'.shown.batch >= browser.shown.batch \/ browser.overlap]_accountsVars

\* After every batch the tables are those of one snapshot, whatever refreshes overlap.
AccountsInvariant == AccountsTypeInvariant /\ ActiveIsLastStored /\ EveryAccountSynchronizable

\* What one refresh or one answer leaves behind, a later one keeps or follows:
\* identifiers, the newest snapshot, the newest list.
AccountsFollow == AccountIdsStable /\ NoRollbackAcrossRefreshes /\ OlderListNeedsOverlap
=============================================================================
