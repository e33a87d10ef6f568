--------------------- MODULE ServiceWorkerUpdatesProofs ---------------------
(* Reloads and activations of any number of tabs, versions and editors.    *)
EXTENDS ServiceWorkerUpdates, TLAPS

\* An accepted prompt, and one whose worker is taking over, is busy.
Good(s) ==
    /\ s.requested => Busy(s) \/ s.reloading
    /\ s.activating => Busy(s)

Inv ==
    /\ tab \in [Tabs -> Tab]
    /\ waiting \in Versions
    /\ active \in Versions
    /\ \A t \in Tabs : Good(tab[t])

\* What a step may do to one tab: s before, n after.
Allowed(s, n) ==
    /\ n \in Tab
    /\ Good(n)
    /\ ~s.reloading /\ n.reloading => ~Blocked(n)
    /\ (~s.reloading /\ n.reloading) \/ (n.activating /\ ~s.activating) =>
         Busy(s) \/ (~s.requested /\ n.requested)

LEMMA FreshAllowed ==
    ASSUME NEW s, NEW controlled \in BOOLEAN, NEW online \in BOOLEAN
    PROVE  Allowed(s, Fresh(controlled, online))
  BY UpdatesAssumption DEF Allowed, Good, Fresh, Tab, Statuses, Versions, Busy

\* advance() from a state q that a handler made of s.
LEMMA AdvanceAllowed ==
    ASSUME NEW s \in Tab, NEW q \in Tab, NEW n \in Advanced(q), Good(s),
           q.reloading = s.reloading,
           q.activating => s.activating /\ Busy(q),
           q.requested =>
             \/ s.requested /\ (Busy(q) \/ q.reloading)
             \/ ~s.requested /\ ~q.activating /\ (q.activated \/ q.worker # 0)
    PROVE  Allowed(s, n)
  <1>1. CASE ~q.requested \/ q.reloading
    BY <1>1 DEF Advanced, Allowed, Good, Tab
  <1>2. CASE q.requested /\ ~q.reloading /\ Blocked(q)
    <2>1. n = [q EXCEPT !.status = "waiting"]
      BY <1>2 DEF Advanced
    <2>2. n \in Tab /\ Busy(n)
      BY <2>1 DEF Tab, Statuses, Busy
    <2>3. n.reloading = q.reloading /\ n.activating = q.activating
      BY <2>1 DEF Tab
    <2> QED BY <1>2, <2>2, <2>3 DEF Allowed, Good
  <1>3. CASE q.requested /\ ~q.reloading /\ ~Blocked(q)
    <2>1. CASE q.activated
      <3>1. n = [q EXCEPT !.reloading = TRUE, !.status = "activating"]
        BY <1>3, <2>1 DEF Advanced
      <3>2. /\ n \in Tab /\ Busy(n)
            /\ n.online = q.online /\ n.editors = q.editors /\ n.saving = q.saving
            /\ n.requested = q.requested
        BY <3>1 DEF Tab, Statuses, Busy
      <3> QED BY <1>3, <3>2 DEF Allowed, Good, Blocked
    <2>2. CASE ~q.activated /\ (q.activating \/ q.worker = 0)
      <3>1. n = q
        BY <1>3, <2>2 DEF Advanced
      <3> QED BY <1>3, <2>2, <3>1 DEF Allowed, Good
    <2>3. CASE ~q.activated /\ ~(q.activating \/ q.worker = 0)
      <3>1. n = Activating(q) \/ n = Failed(q)
        BY <1>3, <2>3 DEF Advanced
      <3>2. CASE n = Activating(q)
        <4>1. /\ n \in Tab /\ Busy(n)
              /\ n.reloading = q.reloading /\ n.requested = q.requested
          BY <3>2 DEF Activating, Tab, Statuses, Busy
        <4> QED BY <1>3, <4>1 DEF Allowed, Good
      <3>3. CASE n = Failed(q)
        <4>1. /\ n \in Tab
              /\ n.reloading = q.reloading /\ ~n.requested /\ ~n.activating
          BY <3>3 DEF Failed, Tab, Statuses
        <4> QED BY <1>3, <4>1 DEF Allowed, Good
      <3> QED BY <3>1, <3>2, <3>3
    <2> QED BY <2>1, <2>2, <2>3
  <1> QED BY <1>1, <1>2, <1>3
\* A step changes the state of one tab, in an allowed way.
Steps(t, n) == Allowed(tab[t], n) /\ tab' = [tab EXCEPT ![t] = n]

LEMMA HandlerAdvances ==
    ASSUME NEW t \in Tabs, NEW q \in Tab, Inv, AdvanceFrom(t, q),
           q.reloading = tab[t].reloading,
           q.activating => tab[t].activating /\ Busy(q),
           q.requested =>
             \/ tab[t].requested /\ (Busy(q) \/ q.reloading)
             \/ /\ ~tab[t].requested /\ ~q.activating
                /\ q.activated \/ q.worker # 0
    PROVE  \E n : Steps(t, n)
  <1>1. PICK n \in Advanced(q) : tab' = [tab EXCEPT ![t] = n]
    BY DEF AdvanceFrom
  <1>2. Allowed(tab[t], n)
    BY AdvanceAllowed DEF Inv
  <1> QED BY <1>1, <1>2 DEF Steps

LEMMA HandleSteps ==
    ASSUME NEW t \in Tabs, Inv, Handle(t)
    PROVE  \E n : Steps(t, n)
  <1> DEFINE s == tab[t]
  <1>0. s \in Tab /\ Good(s)
    BY DEF Inv
  <1> HIDE DEF s
  <1>1. CASE OpenEditor(t)
    <2> DEFINE n == [s EXCEPT !.editors = @ + 1]
    <2>1. n \in Tab
      BY <1>0, <1>1, UpdatesAssumption DEF OpenEditor, Tab, s
    <2>2. Allowed(s, n)
      BY <1>0, <2>1 DEF Allowed, Good, Busy, Tab
    <2>3. tab' = [tab EXCEPT ![t] = n]
      BY <1>1 DEF OpenEditor, s
    <2> QED BY <2>2, <2>3 DEF Steps, s
  <1>2. CASE CloseEditor(t)
    <2> DEFINE q == [s EXCEPT !.editors = @ - 1]
    <2>1. /\ q \in Tab
          /\ q.reloading = s.reloading /\ q.activating = s.activating
          /\ q.requested = s.requested /\ q.status = s.status
      BY <1>0, <1>2, UpdatesAssumption DEF CloseEditor, Tab, s
    <2>2. AdvanceFrom(t, q)
      BY <1>2 DEF CloseEditor, s
    <2> HIDE DEF q
    <2> QED BY <1>0, <2>1, <2>2, HandlerAdvances DEF Good, Busy, s
  <1>3. CASE SetPendingMutations(t)
    <2> DEFINE q == [s EXCEPT !.saving = ~@]
    <2>1. /\ q \in Tab
          /\ q.reloading = s.reloading /\ q.activating = s.activating
          /\ q.requested = s.requested /\ q.status = s.status
      BY <1>0 DEF Tab
    <2>2. AdvanceFrom(t, q)
      BY <1>3 DEF SetPendingMutations, s
    <2> HIDE DEF q
    <2> QED BY <1>0, <2>1, <2>2, HandlerAdvances DEF Good, Busy, s
  <1>4. CASE SetOnline(t)
    <2> DEFINE q == [s EXCEPT !.online = ~@]
    <2>1. /\ q \in Tab
          /\ q.reloading = s.reloading /\ q.activating = s.activating
          /\ q.requested = s.requested /\ q.status = s.status
      BY <1>0 DEF Tab
    <2>2. AdvanceFrom(t, q)
      BY <1>4 DEF SetOnline, s
    <2> HIDE DEF q
    <2> QED BY <1>0, <2>1, <2>2, HandlerAdvances DEF Good, Busy, s
  <1>5. CASE InspectWaiting(t)
    <2>1. Allowed(s, Offered(s, waiting))
      BY <1>0 DEF Inv, Allowed, Good, Offered, Tab, Statuses
    <2>2. Allowed(s, s)
      BY <1>0 DEF Allowed
    <2>3. tab' = [tab EXCEPT ![t] = Offered(s, waiting)] \/ tab' = [tab EXCEPT ![t] = s]
      BY <1>5 DEF InspectWaiting, Inv, s
    <2> QED BY <2>1, <2>2, <2>3 DEF Steps, s
  <1>6. CASE ControllerChange(t)
    <2>1. CASE s.controlled
      <3>1. /\ Claimed(s) \in Tab
            /\ Claimed(s).reloading = s.reloading /\ ~Claimed(s).activating
            /\ Claimed(s).requested = s.requested
            /\ s.requested => Busy(Claimed(s))
        <4>1. 0 \in Versions
          BY UpdatesAssumption DEF Versions
        <4>2. CASE s.requested
          <5>1. Claimed(s) = [s EXCEPT !.worker = 0, !.activated = TRUE,
                                !.activating = FALSE, !.timer = FALSE,
                                !.status = "waiting"]
            BY <4>2 DEF Claimed
          <5>2. Claimed(s) \in Tab
            BY <1>0, <4>1, <5>1 DEF Tab, Statuses
          <5>3. /\ Claimed(s).reloading = s.reloading
                /\ Claimed(s).activating = FALSE
                /\ Claimed(s).requested = s.requested
                /\ Claimed(s).status = "waiting"
            BY <1>0, <5>1 DEF Tab
          <5> QED BY <4>2, <5>2, <5>3 DEF Busy
        <4>3. CASE ~s.requested
          <5>1. Claimed(s) = [s EXCEPT !.worker = 0, !.activated = TRUE,
                                !.activating = FALSE, !.timer = FALSE,
                                !.status = "available"]
            BY <4>3 DEF Claimed
          <5>2. Claimed(s) \in Tab
            BY <1>0, <4>1, <5>1 DEF Tab, Statuses
          <5>3. /\ Claimed(s).reloading = s.reloading
                /\ Claimed(s).activating = FALSE
                /\ Claimed(s).requested = s.requested
                /\ Claimed(s).status = "available"
            BY <1>0, <5>1 DEF Tab
          <5> QED BY <4>3, <5>2, <5>3 DEF Busy
        <4> QED BY <4>2, <4>3
      <3>2. AdvanceFrom(t, Claimed(s))
        BY <1>6, <2>1 DEF ControllerChange, s
      <3> QED BY <3>1, <3>2, HandlerAdvances DEF s
    <2>2. CASE ~s.controlled
      <3> DEFINE n == [s EXCEPT !.controlled = TRUE]
      <3>1. Allowed(s, n)
        BY <1>0 DEF Allowed, Good, Busy, Tab
      <3>2. tab' = [tab EXCEPT ![t] = n]
        BY <1>6, <2>2 DEF ControllerChange, s
      <3> QED BY <3>1, <3>2 DEF Steps, s
    <2> QED BY <2>1, <2>2
  <1>7. CASE RequestUpdate(t)
    <2> DEFINE q == [s EXCEPT !.requested = TRUE]
    <2>1. /\ q \in Tab
          /\ q.reloading = s.reloading /\ q.activating = s.activating
          /\ q.activated = s.activated /\ q.worker = s.worker /\ q.requested
      BY <1>0 DEF Tab
    <2>2. /\ s.status \in {"available", "failed"}
          /\ s.activated \/ s.worker # 0
          /\ AdvanceFrom(t, q)
      BY <1>7 DEF RequestUpdate, s
    <2>3. ~s.activating /\ (s.requested => s.reloading)
      BY <1>0, <2>2 DEF Good, Busy
    <2> HIDE DEF q
    <2> QED BY <2>1, <2>2, <2>3, HandlerAdvances DEF s
  <1>8. CASE ActivationTimeout(t)
    <2>1. Allowed(s, Failed(s))
      BY <1>0 DEF Allowed, Good, Failed, Tab, Statuses
    <2> QED BY <1>8, <2>1 DEF ActivationTimeout, TimedOut, Steps, s
  <1>9. CASE Load(t)
    <2>1. PICK controlled \in BOOLEAN :
            tab' = [tab EXCEPT ![t] = Fresh(controlled, s.online)]
      BY <1>9 DEF Load, s
    <2>2. s.online \in BOOLEAN
      BY <1>0 DEF Tab
    <2> QED BY <2>1, <2>2, FreshAllowed DEF Steps
  <1> QED BY <1>1, <1>2, <1>3, <1>4, <1>5, <1>6, <1>7, <1>8, <1>9 DEF Handle

LEMMA NextAllowed ==
    ASSUME Inv, Next
    PROVE  Inv' /\ \A t \in Tabs : Allowed(tab[t], tab'[t])
  <1>1. CASE Install
    <2>1. waiting' \in Versions
      BY <1>1, UpdatesAssumption DEF Install, Inv, Versions
    <2> QED BY <1>1, <2>1 DEF Install, Inv, Allowed, Good, Busy
  <1>2. CASE Activate
    <2>1. waiting' \in Versions /\ active' \in Versions
      BY <1>2, UpdatesAssumption DEF Activate, Inv, Versions
    <2> QED BY <1>2, <2>1 DEF Activate, Inv, Allowed, Good, Busy
  <1>3. ASSUME NEW t \in Tabs, Handle(t)
        PROVE  Inv' /\ \A u \in Tabs : Allowed(tab[u], tab'[u])
    <2>1. PICK n : Steps(t, n)
      BY <1>3, HandleSteps
    <2>2. \A u \in Tabs : Allowed(tab[u], tab'[u])
      BY <2>1 DEF Steps, Inv, Allowed
    <2>3. tab' \in [Tabs -> Tab]
      BY <2>1 DEF Steps, Inv, Allowed
    <2>4. waiting' = waiting /\ active' = active
      BY <1>3 DEF Handle, OpenEditor, CloseEditor, SetPendingMutations, SetOnline,
           InspectWaiting, ControllerChange, RequestUpdate, ActivationTimeout, Load
    <2>5. \A u \in Tabs : Good(tab'[u])
      BY <2>2 DEF Allowed
    <2> QED BY <2>2, <2>3, <2>4, <2>5 DEF Inv, Good, Busy
  <1> QED BY <1>1, <1>2, <1>3 DEF Next

LEMMA InvHolds == Spec => []Inv
  <1>1. Init => Inv
    <2> SUFFICES ASSUME Init PROVE Inv
      OBVIOUS
    <2>1. ASSUME NEW t \in Tabs PROVE tab[t] \in Tab /\ Good(tab[t])
      <3>1. PICK controlled \in BOOLEAN : tab[t] = Fresh(controlled, TRUE)
        BY DEF Init
      <3> QED BY <3>1, FreshAllowed DEF Allowed
    <2>2. tab = [t \in Tabs |-> tab[t]]
      BY DEF Init
    <2>3. waiting \in Versions /\ active \in Versions
      BY UpdatesAssumption DEF Init, Versions
    <2> QED BY <2>1, <2>2, <2>3 DEF Inv
  <1>2. Inv /\ [Next]_vars => Inv'
    <2>1. ASSUME Inv, UNCHANGED vars PROVE Inv'
      BY <2>1 DEF Inv, vars, Good, Busy
    <2> QED BY <2>1, NextAllowed
  <1> QED BY <1>1, <1>2, PTL DEF Spec

\* A tab never reloads itself over an open editor, a pending save or without a
\* connection.
THEOREM ReloadIsSafe == Spec => ReloadsSafely
  <1>1. Inv /\ [Next]_vars =>
          [\A t \in Tabs : Reloading(t) => ~Blocked(tab'[t])]_vars
    BY NextAllowed DEF Reloading, Allowed
  <1> QED BY <1>1, InvHolds, PTL DEF Spec, ReloadsSafely

\* A tab acts only under a prompt that its owner accepted and that still stands.
THEOREM ConsentIsNeeded == Spec => OnlyWithConsent
  <1>1. Inv /\ [Next]_vars =>
          [\A t \in Tabs :
             Reloading(t) \/ (tab'[t].activating /\ ~tab[t].activating) =>
               Busy(tab[t]) \/ (~tab[t].requested /\ tab'[t].requested)]_vars
    BY NextAllowed DEF Reloading, Allowed
  <1> QED BY <1>1, InvHolds, PTL DEF Spec, OnlyWithConsent

\* A tab that learned of a newer worker shows its prompt.
Prompts(s) == s.worker # 0 \/ s.activated => s.status # "current"

LEMMA AdvancePrompts ==
    ASSUME NEW q \in Tab, Prompts(q), NEW n \in Advanced(q)
    PROVE  Prompts(n)
  <1>1. \/ n = q
        \/ n = [q EXCEPT !.status = "waiting"]
        \/ n = [q EXCEPT !.reloading = TRUE, !.status = "activating"]
        \/ n = Activating(q) \/ n = Failed(q)
    BY DEF Advanced
  <1>2. CASE n = q
    BY <1>2
  <1>3. ASSUME n.status # "current" PROVE Prompts(n)
    BY <1>3 DEF Prompts
  <1>4. CASE n = [q EXCEPT !.status = "waiting"]
    BY <1>3, <1>4 DEF Tab
  <1>5. CASE n = [q EXCEPT !.reloading = TRUE, !.status = "activating"]
    BY <1>3, <1>5 DEF Tab
  <1>6. CASE n = Activating(q)
    BY <1>3, <1>6 DEF Activating, Tab
  <1>7. CASE n = Failed(q)
    BY <1>3, <1>7 DEF Failed, Tab
  <1> QED BY <1>1, <1>2, <1>4, <1>5, <1>6, <1>7

LEMMA HandlePrompts ==
    ASSUME NEW t \in Tabs, Inv, Handle(t), Prompts(tab[t])
    PROVE  \E n : Prompts(n) /\ tab' = [tab EXCEPT ![t] = n]
  <1> DEFINE s == tab[t]
  <1>0. s \in Tab /\ Prompts(s)
    BY DEF Inv
  <1>a. ASSUME NEW q \in Tab, AdvanceFrom(t, q), Prompts(q)
        PROVE  \E n : Prompts(n) /\ tab' = [tab EXCEPT ![t] = n]
    BY <1>a, AdvancePrompts DEF AdvanceFrom
  <1> HIDE DEF s
  <1>1. CASE OpenEditor(t)
    <2>1. Prompts([s EXCEPT !.editors = @ + 1])
      BY <1>0 DEF Prompts, Tab
    <2> QED BY <1>1, <2>1 DEF OpenEditor, s
  <1>2. CASE CloseEditor(t)
    <2>1. [s EXCEPT !.editors = @ - 1] \in Tab
      BY <1>0, <1>2, UpdatesAssumption DEF CloseEditor, Tab, s
    <2>2. Prompts([s EXCEPT !.editors = @ - 1])
      BY <1>0 DEF Prompts, Tab
    <2> QED BY <1>2, <1>a, <2>1, <2>2 DEF CloseEditor, s
  <1>3. CASE SetPendingMutations(t)
    <2>1. [s EXCEPT !.saving = ~@] \in Tab
      BY <1>0 DEF Tab
    <2>2. Prompts([s EXCEPT !.saving = ~@])
      BY <1>0 DEF Prompts, Tab
    <2> QED BY <1>3, <1>a, <2>1, <2>2 DEF SetPendingMutations, s
  <1>4. CASE SetOnline(t)
    <2>1. [s EXCEPT !.online = ~@] \in Tab
      BY <1>0 DEF Tab
    <2>2. Prompts([s EXCEPT !.online = ~@])
      BY <1>0 DEF Prompts, Tab
    <2> QED BY <1>4, <1>a, <2>1, <2>2 DEF SetOnline, s
  <1>5. CASE InspectWaiting(t)
    <2>1. Prompts(Offered(s, waiting))
      BY <1>0 DEF Prompts, Offered, Tab
    <2>2. tab' = [tab EXCEPT ![t] = Offered(s, waiting)] \/ tab' = [tab EXCEPT ![t] = s]
      BY <1>5 DEF InspectWaiting, Inv, s
    <2> QED BY <1>0, <2>1, <2>2
  <1>6. CASE ControllerChange(t)
    <2>1. CASE s.controlled
      <3>1. 0 \in Versions
        BY UpdatesAssumption DEF Versions
      <3>2. PICK status \in {"waiting", "available"} :
              Claimed(s) = [s EXCEPT !.worker = 0, !.activated = TRUE, !.activating = FALSE,
                                     !.timer = FALSE, !.status = status]
        BY DEF Claimed
      <3>3. Claimed(s) \in Tab
        BY <1>0, <3>1, <3>2 DEF Tab, Statuses
      <3>4. Prompts(Claimed(s))
        BY <1>0, <3>2 DEF Prompts, Tab
      <3> QED BY <1>6, <1>a, <2>1, <3>3, <3>4 DEF ControllerChange, s
    <2>2. CASE ~s.controlled
      <3>1. Prompts([s EXCEPT !.controlled = TRUE])
        BY <1>0 DEF Prompts, Tab
      <3> QED BY <1>6, <2>2, <3>1 DEF ControllerChange, s
    <2> QED BY <2>1, <2>2
  <1>7. CASE RequestUpdate(t)
    <2>1. [s EXCEPT !.requested = TRUE] \in Tab
      BY <1>0 DEF Tab
    <2>2. Prompts([s EXCEPT !.requested = TRUE])
      BY <1>0 DEF Prompts, Tab
    <2> QED BY <1>7, <1>a, <2>1, <2>2 DEF RequestUpdate, s
  <1>8. CASE ActivationTimeout(t)
    <2>1. Prompts(Failed(s))
      BY <1>0 DEF Prompts, Failed, Tab
    <2> QED BY <1>8, <2>1 DEF ActivationTimeout, TimedOut, s
  <1>9. CASE Load(t)
    <2>1. \A controlled \in BOOLEAN : Prompts(Fresh(controlled, s.online))
      BY DEF Prompts, Fresh
    <2> QED BY <1>9, <2>1 DEF Load, s
  <1> QED BY <1>1, <1>2, <1>3, <1>4, <1>5, <1>6, <1>7, <1>8, <1>9 DEF Handle

\* A tab that learned of a newer worker keeps its prompt until it loads again, for any
\* number of tabs and of workers that replace one another.
THEOREM PromptIsKept == Spec => []PromptStays
  <1>1. Init => PromptStays
    <2> SUFFICES ASSUME Init, NEW t \in Tabs PROVE Prompts(tab[t])
      BY DEF PromptStays, Prompts
    <2>1. PICK controlled \in BOOLEAN : tab[t] = Fresh(controlled, TRUE)
      BY DEF Init
    <2> QED BY <2>1 DEF Prompts, Fresh
  <1>2. Inv /\ PromptStays /\ [Next]_vars => PromptStays'
    <2> SUFFICES ASSUME Inv, PromptStays, [Next]_vars PROVE PromptStays'
      OBVIOUS
    <2>1. CASE UNCHANGED tab
      BY <2>1 DEF PromptStays
    <2>2. ASSUME NEW t \in Tabs, Handle(t) PROVE PromptStays'
      <3>1. Prompts(tab[t])
        BY DEF PromptStays, Prompts
      <3>2. PICK n : Prompts(n) /\ tab' = [tab EXCEPT ![t] = n]
        BY <2>2, <3>1, HandlePrompts
      <3>3. \A u \in Tabs : tab'[u] = IF u = t THEN n ELSE tab[u]
        BY <3>2 DEF Inv
      <3> QED BY <3>2, <3>3 DEF PromptStays, Prompts
    <2> QED BY <2>1, <2>2 DEF Next, Install, Activate, vars
  <1> QED BY <1>1, <1>2, InvHolds, PTL DEF Spec
=============================================================================
