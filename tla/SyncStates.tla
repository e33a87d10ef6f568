------------------------------ MODULE SyncStates ------------------------------
(* The states of synchronization in one tab: useDashboardSync keeps its    *)
(* own, of the GET of its mount and of the one after each "Refresh         *)
(* transactions", and DataFreshness and the settings observe the query     *)
(* ['transaction-sync-status'], which the second one is written to. Rounds *)
(* of the Worker's synchronization number the states it tells.             *)
EXTENDS QueryCache

CONSTANTS
    Dashboards,     \* mounts of the dashboard, in this order
    MaxRounds       \* bound: rounds of synchronization

ASSUME SyncStatesAssumption == Dashboards \in Nat /\ MaxRounds \in Nat

VARIABLES
    round,          \* the latest round of synchronization
    dashboard,      \* the mount that is open, and whether it is
    syncStates,     \* [shown, first, told, own, late] of each mount
    updates,        \* [phase, made, told]: the syncTransactions of each mount, the
                    \* round it made and the one the states after it are from
    syncStatus,     \* the query
    toldRound       \* history: the round made before setQueryData wrote last

syncStatesVars == <<round, dashboard, syncStates, updates, syncStatus, toldRound>>

Round(at) == [at |-> at]
Mounts == 1..Dashboards
NotMounted == [shown |-> -1, first |-> "none", told |-> 0, own |-> -1, late |-> FALSE]

NoUpdate == [phase |-> "idle", made |-> 0, told |-> 0]

SyncStatesInit ==
    /\ round = 0
    /\ dashboard = [mount |-> 0, open |-> FALSE]
    /\ syncStates = [d \in Mounts |-> NotMounted]
    /\ updates = [d \in Mounts |-> NoUpdate]
    /\ syncStatus = Query
    /\ toldRound = 0
-----------------------------------------------------------------------------
\* Mounted: the effect asks for the states, DataFreshness observes the query.
OpenDashboardSync ==
    /\ ~dashboard.open /\ dashboard.mount < Dashboards
    /\ dashboard' = [mount |-> dashboard.mount + 1, open |-> TRUE]
    /\ syncStates' = [syncStates EXCEPT ![dashboard.mount + 1].first = "sent"]
    /\ \E stale \in BOOLEAN : syncStatus' = Observed(syncStatus, stale)
    /\ UNCHANGED <<round, updates, toldRound>>

\* The settings open: SettingsSyncStatus observes the query; what the dashboard
\* had under way goes on, for nobody.
LeaveDashboard ==
    /\ dashboard.open
    /\ dashboard' = [dashboard EXCEPT !.open = FALSE]
    /\ \E stale \in BOOLEAN : syncStatus' = Observed(syncStatus, stale)
    /\ UNCHANGED <<round, syncStates, updates, toldRound>>

\* getTransactionSyncStatus of the effect; an error leaves the states as they are.
ReadFirstStates(d) ==
    /\ syncStates[d].first = "sent"
    /\ syncStates' = [syncStates EXCEPT ![d].first = "read", ![d].told = round]
    /\ UNCHANGED <<round, dashboard, updates, syncStatus, toldRound>>

SetFirstStates(d) ==
    /\ syncStates[d].first = "read"
    /\ syncStates' = [syncStates EXCEPT ![d].first = "none", ![d].shown = syncStates[d].told]
    /\ UNCHANGED <<round, dashboard, updates, syncStatus, toldRound>>

FirstStatesFail(d) ==
    /\ syncStates[d].first # "none"
    /\ syncStates' = [syncStates EXCEPT ![d].first = "none"]
    /\ UNCHANGED <<round, dashboard, updates, syncStatus, toldRound>>

\* syncTransactions, whose button is disabled while syncing.
SyncTransactions ==
    /\ dashboard.open /\ updates[dashboard.mount].phase = "idle"
    /\ updates' = [updates EXCEPT ![dashboard.mount].phase = "sent"]
    /\ UNCHANGED <<round, dashboard, syncStates, syncStatus, toldRound>>

SynchronizeAside(d) ==               \* mutant: the states are asked for meanwhile
    /\ updates[d].phase = "sent" /\ round < MaxRounds
    /\ round' = round + 1
    /\ updates' = [updates EXCEPT ![d] = [phase |-> "read", made |-> round', told |-> round]]
    /\ UNCHANGED <<dashboard, syncStates, syncStatus, toldRound>>

\* synchronizeTransactions ends in the Worker.
Synchronize(d) ==
    /\ updates[d].phase = "sent" /\ round < MaxRounds
    /\ round' = round + 1
    /\ updates' = [updates EXCEPT ![d].phase = "stored", ![d].made = round']
    /\ UNCHANGED <<dashboard, syncStates, syncStatus, toldRound>>

\* The same for the cron.
SynchronizeByCron ==
    /\ round < MaxRounds /\ round' = round + 1
    /\ UNCHANGED <<dashboard, syncStates, updates, syncStatus, toldRound>>

\* After refreshTransactionLedger: the second getTransactionSyncStatus.
ReadNextStates(d) ==
    /\ updates[d].phase = "stored"
    /\ updates' = [updates EXCEPT ![d].phase = "read", ![d].told = round]
    /\ UNCHANGED <<round, dashboard, syncStates, syncStatus, toldRound>>

\* setSyncStates and setQueryData.
SetNextStates(d) ==
    /\ updates[d].phase = "read"
    /\ LET told == updates[d].told IN
       /\ syncStates' = [syncStates EXCEPT ![d].shown = told, ![d].own = updates[d].made,
                                           ![d].late = (syncStates[d].first # "none")]
       /\ syncStatus' = Written(syncStatus, Round(told))
       /\ toldRound' = updates[d].made
    /\ updates' = [updates EXCEPT ![d] = NoUpdate]
    /\ UNCHANGED <<round, dashboard>>

UpdateFails(d) ==
    /\ updates[d].phase # "idle"
    /\ updates' = [updates EXCEPT ![d] = NoUpdate]
    /\ UNCHANGED <<round, dashboard, syncStates, syncStatus, toldRound>>

\* The observed query.
ReadStatus ==
    /\ syncStatus.phase = "sent"
    /\ syncStatus' = ReadAt(syncStatus, Round(round))
    /\ UNCHANGED <<round, dashboard, syncStates, updates, toldRound>>

StatusArrives ==
    /\ syncStatus.phase = "read"
    /\ syncStatus' = Received(syncStatus, syncStatus.got)
    /\ UNCHANGED <<round, dashboard, syncStates, updates, toldRound>>

\* "Refresh status".
RefetchStatus ==
    /\ dashboard.mount > 0
    /\ syncStatus' = Refetched(syncStatus)
    /\ UNCHANGED <<round, dashboard, syncStates, updates, toldRound>>

StatusFails ==
    /\ Fetching(syncStatus)
    /\ syncStatus' = Failed(syncStatus)
    /\ UNCHANGED <<round, dashboard, syncStates, updates, toldRound>>

SyncStatesNext ==
    \/ OpenDashboardSync \/ LeaveDashboard \/ SyncTransactions \/ SynchronizeByCron
    \/ \E d \in Mounts :
          ReadFirstStates(d) \/ SetFirstStates(d) \/ FirstStatesFail(d)
          \/ Synchronize(d) \/ ReadNextStates(d) \/ SetNextStates(d) \/ UpdateFails(d)
    \/ ReadStatus \/ StatusArrives \/ StatusFails \/ RefetchStatus

SyncStatesSpec == SyncStatesInit /\ [][SyncStatesNext]_syncStatesVars
-----------------------------------------------------------------------------
\* Once a "Refresh transactions" has ended, its dashboard shows the states of after
\* the round it made and does not go back to those of before, unless the GET of its
\* mount was still under way then.
DashboardStatesFollow ==
    \A d \in Mounts : syncStates[d].shown < syncStates[d].own => syncStates[d].late

\* What DataFreshness and the settings observe is not older than the states a
\* "Refresh transactions" of this tab made and wrote there, unless a GET of before
\* was under way then, or a later one is or failed.
StatusFollows ==
    syncStatus.data.at < toldRound /\ Has(syncStatus) =>
       Fetching(syncStatus) \/ syncStatus.overtaken \/ syncStatus.failed

\* What a "Refresh transactions" brought is not taken back.
SyncStatesInvariant == DashboardStatesFollow /\ StatusFollows
=============================================================================
