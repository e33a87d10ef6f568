------------------------ MODULE ServiceWorkerUpdates ------------------------
(* The update prompt of the app: tabs that edit, save and lose the network *)
(* share one service worker registration. A new worker waits until a tab   *)
(* tells it to take over; then every tab it claims learns of it by an      *)
(* event, and reloads only if its own owner agreed and nothing is at stake.*)
EXTENDS Naturals, FiniteSets

CONSTANTS
    Tabs,
    MaxVersion,      \* bound: the last version deployed, from 1
    MaxEditors       \* bound: editors open at once in a tab

ASSUME UpdatesAssumption == MaxVersion \in Nat \ {0} /\ MaxEditors \in Nat \ {0}

VARIABLES
    active,          \* version of the active worker
    waiting,         \* version of the waiting worker, 0 if none
    skip,            \* versions that SKIP_WAITING was posted to
    inspect,         \* tabs with an undelivered statechange or registration
    changed,         \* tabs with an undelivered controllerchange
    tab              \* the ServiceWorkerUpdates object and activity of each tab

vars == <<active, waiting, skip, inspect, changed, tab>>

Versions == 0..MaxVersion
Statuses == {"current", "available", "waiting", "activating", "failed"}

\* A page just loaded; a forced refresh loads it without a controller.
Fresh(controlled, online) ==
    [status |-> "current", editors |-> 0, saving |-> FALSE, online |-> online,
     worker |-> 0, requested |-> FALSE, activated |-> FALSE,
     activating |-> FALSE, reloading |-> FALSE, timer |-> FALSE,
     controlled |-> controlled]

Init ==
    /\ active = 1
    /\ waiting = 0
    /\ skip = {}
    /\ inspect = Tabs
    /\ changed = {}
    /\ tab \in [Tabs -> {Fresh(controlled, TRUE) : controlled \in BOOLEAN}]

Blocked(s) == ~s.online \/ s.editors > 0 \/ s.saving
Failed(s) == [s EXCEPT !.activating = FALSE, !.requested = FALSE, !.timer = FALSE,
                       !.status = "failed"]
Activating(s) == [s EXCEPT !.activating = TRUE, !.timer = TRUE, !.status = "activating"]

AdvancedWhileSaving(s) ==                   \* mutant: saves are not awaited
    IF ~s.requested \/ s.reloading THEN {s}
    ELSE IF ~s.online \/ s.editors > 0 THEN {[s EXCEPT !.status = "waiting"]}
    ELSE IF s.activated
    THEN {[s EXCEPT !.reloading = TRUE, !.status = "activating"]}
    ELSE IF s.activating \/ s.worker = 0 THEN {s}
    ELSE {Activating(s), Failed(s)}

\* advance(): nothing, wait, reload, or post SKIP_WAITING, which may throw
Advanced(s) ==
    IF ~s.requested \/ s.reloading THEN {s}
    ELSE IF Blocked(s) THEN {[s EXCEPT !.status = "waiting"]}
    ELSE IF s.activated
    THEN {[s EXCEPT !.reloading = TRUE, !.status = "activating"]}
    ELSE IF s.activating \/ s.worker = 0 THEN {s}
    ELSE {Activating(s), Failed(s)}

\* A handler of tab t that leaves it in state s and ends in advance()
AdvanceFrom(t, s) ==
    \E next \in Advanced(s) :
      /\ tab' = [tab EXCEPT ![t] = next]
      /\ skip' = IF next.activating /\ ~s.activating
                 THEN skip \cup {next.worker} ELSE skip

OpenEditor(t) ==
    /\ tab[t].editors < MaxEditors
    /\ tab' = [tab EXCEPT ![t].editors = @ + 1]
    /\ UNCHANGED <<active, waiting, skip, inspect, changed>>

CloseEditor(t) ==
    /\ tab[t].editors > 0
    /\ AdvanceFrom(t, [tab[t] EXCEPT !.editors = @ - 1])
    /\ UNCHANGED <<active, waiting, inspect, changed>>

SetPendingMutations(t) ==
    /\ AdvanceFrom(t, [tab[t] EXCEPT !.saving = ~@])
    /\ UNCHANGED <<active, waiting, inspect, changed>>

SetOnline(t) ==
    /\ AdvanceFrom(t, [tab[t] EXCEPT !.online = ~@])
    /\ UNCHANGED <<active, waiting, inspect, changed>>

OfferedKeepsConsent(s, version) ==          \* mutant: consent is not withdrawn
    [s EXCEPT !.worker = version, !.activated = FALSE, !.activating = FALSE,
              !.timer = FALSE, !.status = "available"]

\* updateAvailable with another worker than the one already offered
Offered(s, version) ==
    [s EXCEPT !.worker = version, !.activated = FALSE, !.activating = FALSE,
              !.requested = FALSE, !.timer = FALSE, !.status = "available"]

\* inspectWaiting, once registered and at each state change of a new worker;
\* a claimed tab has a controller before it hears of it
InspectWaiting(t) ==
    /\ t \in inspect
    /\ inspect' = inspect \ {t}
    /\ tab' = IF /\ waiting # 0
                 /\ tab[t].controlled \/ t \in changed
                 /\ tab[t].worker # waiting
              THEN [tab EXCEPT ![t] = Offered(tab[t], waiting)]
              ELSE tab
    /\ UNCHANGED <<active, waiting, skip, changed>>

ClaimedSilently(s) ==                       \* mutant: only the asking tab is told
    [s EXCEPT !.worker = 0, !.activated = TRUE, !.activating = FALSE,
              !.timer = FALSE,
              !.status = IF s.requested THEN "waiting" ELSE "current"]

\* controllerChanged before advance()
Claimed(s) ==
    [s EXCEPT !.worker = 0, !.activated = TRUE, !.activating = FALSE,
              !.timer = FALSE,
              !.status = IF s.requested THEN "waiting" ELSE "available"]

ControllerChange(t) ==
    /\ t \in changed
    /\ changed' = changed \ {t}
    /\ IF tab[t].controlled
       THEN AdvanceFrom(t, Claimed(tab[t]))
       ELSE /\ tab' = [tab EXCEPT ![t].controlled = TRUE]
            /\ UNCHANGED skip
    /\ UNCHANGED <<active, waiting, inspect>>

\* The button, which is disabled while it is busy
RequestUpdate(t) ==
    LET s == tab[t] IN
    /\ s.status \in {"available", "failed"}
    /\ s.online /\ s.editors = 0
    /\ s.activated \/ s.worker # 0
    /\ AdvanceFrom(t, [s EXCEPT !.requested = TRUE])
    /\ UNCHANGED <<active, waiting, inspect, changed>>

TimedOutStillActivating(s) ==               \* mutant: activating is not reset
    [s EXCEPT !.requested = FALSE, !.timer = FALSE, !.status = "failed"]

TimedOut(s) == Failed(s)

ActivationTimeout(t) ==
    /\ tab[t].timer
    /\ tab' = [tab EXCEPT ![t] = TimedOut(tab[t])]
    /\ UNCHANGED <<active, waiting, skip, inspect, changed>>

\* reload() takes effect, or the owner refreshes the page.
Load(t) ==
    /\ \E controlled \in BOOLEAN :
         tab' = [tab EXCEPT ![t] = Fresh(controlled, tab[t].online)]
    /\ inspect' = inspect \cup {t}
    /\ changed' = changed \ {t}
    /\ UNCHANGED <<active, waiting, skip>>

\* A new worker is installed: it waits, and replaces one that already waited.
Install ==
    /\ LET newest == IF waiting = 0 THEN active ELSE waiting IN
         /\ newest < MaxVersion
         /\ waiting' = newest + 1
    /\ inspect' = Tabs
    /\ UNCHANGED <<active, skip, changed, tab>>

\* skipWaiting(), or no tab is controlled any more; then clients.claim().
Activate ==
    /\ waiting # 0
    /\ waiting \in skip \/ \A t \in Tabs : ~tab[t].controlled
    /\ active' = waiting
    /\ waiting' = 0
    /\ skip' = {}
    /\ changed' = Tabs
    /\ inspect' = Tabs
    /\ UNCHANGED tab

Handle(t) ==
    \/ OpenEditor(t) \/ CloseEditor(t) \/ SetPendingMutations(t) \/ SetOnline(t)
    \/ InspectWaiting(t) \/ ControllerChange(t) \/ RequestUpdate(t)
    \/ ActivationTimeout(t) \/ Load(t)

Next == Install \/ Activate \/ \E t \in Tabs : Handle(t)

\* Timers fire, reload() takes effect and events are delivered.
Fairness ==
    \A t \in Tabs :
      /\ WF_vars(ActivationTimeout(t))
      /\ WF_vars(tab[t].reloading /\ Load(t))
      /\ WF_vars(InspectWaiting(t))
      /\ WF_vars(ControllerChange(t))

Spec == Init /\ [][Next]_vars /\ Fairness

-----------------------------------------------------------------------------
Busy(s) == s.status \in {"waiting", "activating"}
Tab == [status : Statuses, editors : 0..MaxEditors, saving : BOOLEAN,
        online : BOOLEAN, worker : Versions, requested : BOOLEAN,
        activated : BOOLEAN, activating : BOOLEAN, reloading : BOOLEAN,
        timer : BOOLEAN, controlled : BOOLEAN]

TypeInvariant ==
    /\ active \in Versions /\ waiting \in Versions /\ skip \subseteq Versions
    /\ inspect \subseteq Tabs /\ changed \subseteq Tabs
    /\ tab \in [Tabs -> Tab]

Reloading(t) == ~tab[t].reloading /\ tab'[t].reloading

\* README, "rechecks activity before reloading": a tab reloads itself only while
\* it is online, nothing is being edited and no save is pending, whatever
\* happened between the owner's consent and the activation.
ReloadsSafely ==
    [][\A t \in Tabs : Reloading(t) => ~Blocked(tab'[t])]_vars

\* README, "without forcing this tab to reload": a tab reloads, or posts a worker
\* to take over, only under a prompt its owner has accepted and that was not
\* replaced by a newer offer or a failure since.
OnlyWithConsent ==
    [][\A t \in Tabs :
         Reloading(t) \/ (tab'[t].activating /\ ~tab[t].activating) =>
           Busy(tab[t]) \/ (~tab[t].requested /\ tab'[t].requested)]_vars

\* A tab that learned of a newer worker keeps showing the prompt until it loads
\* again, also when workers replace one another while it is asked.
PromptStays ==
    \A t \in Tabs : tab[t].worker # 0 \/ tab[t].activated => tab[t].status # "current"

\* No busy prompt for ever: with nothing in its way the button becomes usable
\* again, or the page reloads.
BusyEnds == \A t \in Tabs : Busy(tab[t]) ~> (~Busy(tab[t]) \/ Blocked(tab[t]))
=============================================================================
