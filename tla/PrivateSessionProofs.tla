------------------------- MODULE PrivateSessionProofs -------------------------
(* Session ends reach every tab, once, for any number of tabs, sessions,    *)
(* requests in flight and session ends.                                     *)
EXTENDS PrivateSession, TLAPS

\* What a request carries was there when it was sent.
Sound ==
    \A t \in Tabs, kind \in Kinds : request[<<t, kind>>] # None =>
      /\ request[<<t, kind>>].session \in 0..issued
      /\ request[<<t, kind>>].since \in 0..events

\* A tab that waits for a current answer has every later session end to come.
CurrentHears ==
    \A t \in Tabs, kind \in Kinds :
      request[<<t, kind>>] # None /\ request[<<t, kind>>].current =>
        \A event \in (request[<<t, kind>>].since + 1)..events : WillArrive(t, event)

\* The copies of an end are sent together, and the first to arrive is noted.
FirstIsNoted ==
    \A t \in Tabs, event \in 1..events, medium \in Media, other \in Media :
      <<event, medium>> \in pending[t] /\ <<event, other>> \notin pending[t] =>
        event \in seen[t]

IInv ==
    /\ TypeInvariant /\ Sound
    /\ EndsReachEveryTab /\ CurrentHears /\ FirstIsNoted

-----------------------------------------------------------------------------
(* The requests in flight *)

LEMMA NoRequest ==
    ASSUME NEW x \in Request \cup {None}
    PROVE  x # None <=> x \in Request
  BY DEF Request, None, Replies

\* The request of a slot after a step is that of before, or newly sent.
SameOrigin(r) ==
    request'[r] # None =>
      /\ request[r] # None
      /\ request'[r].since = request[r].since
      /\ request'[r].current => request[r].current

SameSession(r) == request'[r] # None => request'[r].session = request[r].session

Requests == [Tabs \X Kinds -> Request \cup {None}]

LEMMA Renewed ==
    ASSUME TypeInvariant, NEW t \in Tabs, NEW done, NewGeneration(t, done)
    PROVE  /\ request' \in Requests
           /\ \A r \in Tabs \X Kinds : SameOrigin(r) /\ SameSession(r)
           /\ \A kind \in Kinds :
                request'[<<t, kind>>] # None => ~request'[<<t, kind>>].current
           /\ \A kind \in done \cap Kinds : request'[<<t, kind>>] = None
  <1> SUFFICES ASSUME NEW r \in Tabs \X Kinds
               PROVE  /\ request'[r] \in Request \cup {None}
                      /\ SameOrigin(r) /\ SameSession(r)
                      /\ r[1] = t /\ request'[r] # None => ~request'[r].current
                      /\ r[1] = t /\ r[2] \in done => request'[r] = None
    BY DEF NewGeneration, Requests
  <1>1. request[r] \in Request \cup {None}
    BY DEF TypeInvariant
  <1>2. CASE r[1] # t \/ request[r] = None
    BY <1>1, <1>2 DEF NewGeneration, SameOrigin, SameSession
  <1>3. CASE r[1] = t /\ request[r] # None /\ r[2] \in done
    BY <1>3 DEF NewGeneration, SameOrigin, SameSession
  <1>4. CASE r[1] = t /\ request[r] # None /\ r[2] \notin done
    <2>1. request[r] \in Request
      BY <1>1, <1>4
    <2>2. request'[r] = [request[r] EXCEPT !.current = FALSE]
      BY <1>4 DEF NewGeneration
    <2>3. /\ request'[r] \in Request /\ ~request'[r].current
          /\ request'[r].since = request[r].since
          /\ request'[r].session = request[r].session
      BY <2>1, <2>2 DEF Request
    <2> QED BY <1>4, <2>3 DEF SameOrigin, SameSession
  <1> QED BY <1>2, <1>3, <1>4

LEMMA Emptied ==
    ASSUME TypeInvariant, NEW t \in Tabs, NEW kind \in Kinds, Answered(t, kind)
    PROVE  /\ request' \in Requests
           /\ \A r \in Tabs \X Kinds : SameOrigin(r) /\ SameSession(r)
  BY DEF TypeInvariant, Answered, Requests, SameOrigin, SameSession

LEMMA Replied ==
    ASSUME TypeInvariant, NEW t \in Tabs, NEW kind \in Kinds,
           NEW reply \in Replies, NEW session \in 0..MaxSessions,
           IsSent(t, kind), Reply(t, kind, reply, session)
    PROVE  /\ request' \in Requests
           /\ \A r \in Tabs \X Kinds : SameOrigin(r)
           /\ \A r \in Tabs \X Kinds : r # <<t, kind>> => request'[r] = request[r]
           /\ request'[<<t, kind>>].session = session
  <1> DEFINE s == <<t, kind>>
  <1>1. s \in Tabs \X Kinds /\ request \in Requests
    BY DEF TypeInvariant, Requests
  <1>2. request[s] \in Request
    BY <1>1, NoRequest DEF IsSent, Requests
  <1> DEFINE n == [current |-> request[s].current, session |-> session,
                   reply |-> reply, since |-> request[s].since]
  <1>3. n \in Request
    BY <1>2 DEF Request
  <1>4. request' = [request EXCEPT ![s] = n]
    BY DEF Reply
  <1>5. request'[s] = n /\ \A r \in Tabs \X Kinds : r # s => request'[r] = request[r]
    BY <1>1, <1>4 DEF Requests
  <1>6. request' \in Requests
    BY <1>1, <1>3, <1>4 DEF Requests
  <1>7. ASSUME NEW r \in Tabs \X Kinds PROVE SameOrigin(r)
    BY <1>2, <1>5, NoRequest DEF SameOrigin
  <1> QED BY <1>5, <1>6, <1>7

LEMMA Asked ==
    ASSUME TypeInvariant, SessionAssumption, NEW t \in Tabs, NEW kind \in Kinds,
           Send(t, kind)
    PROVE  /\ request' \in Requests
           /\ \A r \in Tabs \X Kinds : r # <<t, kind>> => request'[r] = request[r]
           /\ request'[<<t, kind>>].session = cookie
           /\ request'[<<t, kind>>].since = events
  <1> DEFINE n == [current |-> TRUE, session |-> cookie, reply |-> "sent",
                   since |-> events]
  <1>1. n \in Request
    BY DEF TypeInvariant, SessionAssumption, Request, Replies
  <1>2. request' = [request EXCEPT ![<<t, kind>>] = n]
    BY DEF Send
  <1> QED BY <1>1, <1>2 DEF TypeInvariant, Requests

-----------------------------------------------------------------------------
(* Each kind of step preserves the invariant *)

\* Nothing is published, received or accepted; a request may be new.
LEMMA QuietKeeps ==
    ASSUME IInv, TypeInvariant', request' \in Requests, issued' \in Nat,
           UNCHANGED <<events, pending, seen, accepted>>,
           \A t \in Tabs : tab'[t].status = "authenticated" =>
             tab[t].status = "authenticated",
           \A r \in Tabs \X Kinds :
             /\ SameOrigin(r) \/ (request'[r].since = events /\ request'[r] # None)
             /\ request'[r] # None => request'[r].session \in 0..issued'
    PROVE  IInv'
  <1>1. Sound'
    BY DEF IInv, Sound, SameOrigin, TypeInvariant
  <1>2. EndsReachEveryTab'
    BY DEF IInv, EndsReachEveryTab, WillArrive
  <1>3. CurrentHears'
    <2> SUFFICES ASSUME NEW t \in Tabs, NEW kind \in Kinds,
                        request'[<<t, kind>>] # None, request'[<<t, kind>>].current,
                        NEW event \in (request'[<<t, kind>>].since + 1)..events
                 PROVE  WillArrive(t, event)
      BY DEF CurrentHears, WillArrive
    <2>1. CASE SameOrigin(<<t, kind>>)
      BY <2>1 DEF IInv, CurrentHears, SameOrigin
    <2>2. CASE request'[<<t, kind>>].since = events
      BY <2>2 DEF IInv, TypeInvariant
    <2> QED BY <2>1, <2>2
  <1>4. FirstIsNoted'
    BY DEF IInv, FirstIsNoted
  <1> QED BY <1>1, <1>2, <1>3, <1>4 DEF IInv

LEMMA EndKeeps ==
    ASSUME IInv, SessionAssumption, NEW t \in Tabs, NEW done,
           EndPrivateSession(t, done), UNCHANGED serverVars
    PROVE  IInv'
  <1> USE SessionAssumption DEF IInv
  <1> DEFINE copies == {<<events + 1, medium>> : medium \in Media}
  <1>1. /\ request' \in Requests
        /\ \A r \in Tabs \X Kinds : SameOrigin(r) /\ SameSession(r)
        /\ \A kind \in Kinds :
             request'[<<t, kind>>] # None => ~request'[<<t, kind>>].current
    BY Renewed DEF EndPrivateSession
  <1>2. events \in Nat /\ events' = events + 1 /\ events' \in 0..MaxEvents
    BY DEF EndPrivateSession, TypeInvariant
  <1>3. /\ pending'[t] = pending[t] /\ seen'[t] = seen[t] \cup {events + 1}
        /\ \A u \in Tabs \ {t} :
             pending'[u] = pending[u] \cup copies /\ seen'[u] = seen[u]
    BY DEF EndPrivateSession, TypeInvariant
  <1>4. TypeInvariant'
    <2>1. pending' \in [Tabs -> SUBSET ((1..events') \X Media)]
      <3>1. copies \subseteq (1..events') \X Media
        BY <1>2
      <3>2. (1..events) \X Media \subseteq (1..events') \X Media
        BY <1>2
      <3> QED BY <1>3, <3>1, <3>2 DEF EndPrivateSession, TypeInvariant
    <2>2. seen' \in [Tabs -> SUBSET (1..events')]
      BY <1>2, <1>3 DEF EndPrivateSession, TypeInvariant
    <2>3. tab' \in [Tabs -> [status : Statuses, session : 0..issued']]
      BY DEF EndPrivateSession, Lock, TypeInvariant, Statuses, serverVars
    <2>4. accepted' \in [Tabs -> 0..events'] /\ stored' \in BOOLEAN /\ locked' \in BOOLEAN
      BY <1>2 DEF EndPrivateSession, TypeInvariant
    <2> QED BY <1>1, <1>2, <2>1, <2>2, <2>3, <2>4 DEF TypeInvariant, Requests, serverVars
  <1>5. Sound'
    BY <1>1, <1>2 DEF Sound, SameOrigin, SameSession, serverVars
  <1>6. ASSUME NEW u \in Tabs \ {t}, NEW since \in 0..events,
               \A event \in (since + 1)..events : WillArrive(u, event),
               NEW event \in (since + 1)..events'
        PROVE  WillArrive(u, event)'
    <2>1. CASE event \in (since + 1)..events
      BY <1>3, <1>6, <2>1 DEF WillArrive
    <2>2. CASE event = events + 1
      <3>1. event \notin seen[u]
        BY <1>2, <2>2 DEF TypeInvariant
      <3>2. \E medium \in Media : <<event, medium>> \in copies
        BY <2>2
      <3> QED BY <1>3, <3>1, <3>2 DEF WillArrive
    <2> QED BY <1>2, <1>6, <2>1, <2>2
  <1>7. EndsReachEveryTab'
    <2> SUFFICES ASSUME NEW u \in Tabs, tab'[u].status = "authenticated",
                        NEW event \in (accepted[u] + 1)..events'
                 PROVE  WillArrive(u, event)'
      BY DEF EndsReachEveryTab, EndPrivateSession
    <2>1. u # t /\ tab[u].status = "authenticated"
      BY DEF EndPrivateSession, Lock, TypeInvariant
    <2>2. accepted[u] \in 0..events
      BY DEF TypeInvariant
    <2>3. \A e \in (accepted[u] + 1)..events : WillArrive(u, e)
      BY <2>1 DEF EndsReachEveryTab
    <2> QED BY <1>6, <2>1, <2>2, <2>3
  <1>8. CurrentHears'
    <2> SUFFICES ASSUME NEW u \in Tabs, NEW kind \in Kinds,
                        request'[<<u, kind>>] # None, request'[<<u, kind>>].current,
                        NEW event \in (request'[<<u, kind>>].since + 1)..events'
                 PROVE  WillArrive(u, event)'
      BY DEF CurrentHears
    <2>1. u # t
      BY <1>1
    <2>2. /\ request[<<u, kind>>] # None /\ request[<<u, kind>>].current
          /\ request'[<<u, kind>>].since = request[<<u, kind>>].since
      BY <1>1 DEF SameOrigin
    <2>3. request[<<u, kind>>].since \in 0..events
      BY <2>2 DEF Sound
    <2>4. \A e \in (request[<<u, kind>>].since + 1)..events : WillArrive(u, e)
      BY <2>2 DEF CurrentHears
    <2> QED BY <1>6, <2>1, <2>2, <2>3, <2>4
  <1>9. FirstIsNoted'
    <2> SUFFICES ASSUME NEW u \in Tabs, NEW event \in 1..events',
                        NEW medium \in Media, NEW other \in Media,
                        <<event, medium>> \in pending'[u],
                        <<event, other>> \notin pending'[u]
                 PROVE  event \in seen'[u]
      BY DEF FirstIsNoted
    <2>1. u # t => event # events + 1
      BY <1>3
    <2>2. <<event, medium>> \in pending[u] /\ <<event, other>> \notin pending[u]
      BY <1>3, <2>1
    <2>3. event \in 1..events
      BY <2>2 DEF TypeInvariant
    <2> QED BY <1>3, <2>2, <2>3 DEF FirstIsNoted
  <1> QED BY <1>4, <1>5, <1>7, <1>8, <1>9

LEMMA AcceptKeeps ==
    ASSUME IInv, NEW t \in Tabs, NEW kind \in Kinds, ReceiveSession(t, kind)
    PROVE  IInv'
  <1> USE DEF IInv
  <1> DEFINE r == <<t, kind>>
  <1>1. AcceptSession(t, kind) /\ UNCHANGED serverVars
    BY DEF ReceiveSession
  <1>2. request[r] # None /\ request[r].current
    BY DEF ReceiveSession, IsAnswered
  <1>3. /\ request[r].session \in 0..issued /\ request[r].since \in 0..events
        /\ \A event \in (request[r].since + 1)..events : WillArrive(t, event)
    BY <1>2 DEF Sound, CurrentHears
  <1>4. /\ request' \in Requests
        /\ \A q \in Tabs \X Kinds : SameOrigin(q) /\ SameSession(q)
    BY <1>1, Renewed DEF AcceptSession
  <1>5. /\ tab' \in [Tabs -> [status : Statuses, session : 0..issued]]
        /\ \A u \in Tabs \ {t} : tab'[u] = tab[u]
    BY <1>1, <1>3 DEF AcceptSession, TypeInvariant, Statuses
  <1>6. /\ accepted' \in [Tabs -> 0..events] /\ accepted'[t] = request[r].since
        /\ \A u \in Tabs \ {t} : accepted'[u] = accepted[u]
    BY <1>1, <1>3 DEF AcceptSession, TypeInvariant
  <1>7. UNCHANGED <<events, pending, seen, issued, server, expired, cookie>>
        /\ stored' \in BOOLEAN /\ locked' \in BOOLEAN
    BY <1>1 DEF AcceptSession, serverVars, TypeInvariant
  <1>8. TypeInvariant'
    BY <1>4, <1>5, <1>6, <1>7 DEF TypeInvariant, Requests
  <1>9. Sound' /\ CurrentHears'
    BY <1>4, <1>7 DEF Sound, CurrentHears, SameOrigin, SameSession, WillArrive
  <1>10. EndsReachEveryTab'
    <2> SUFFICES ASSUME NEW u \in Tabs, tab'[u].status = "authenticated",
                        NEW event \in (accepted'[u] + 1)..events
                 PROVE  WillArrive(u, event)
      BY <1>7 DEF EndsReachEveryTab, WillArrive
    <2>1. CASE u = t
      BY <1>3, <1>6, <2>1
    <2>2. CASE u # t
      BY <1>5, <1>6, <2>2 DEF EndsReachEveryTab
    <2> QED BY <2>1, <2>2
  <1>11. FirstIsNoted'
    BY <1>7 DEF FirstIsNoted
  <1> QED BY <1>8, <1>9, <1>10, <1>11

LEMMA ReceiveKeeps ==
    ASSUME IInv, NEW t \in Tabs, NEW event, NEW medium, Receive(t, event, medium)
    PROVE  IInv'
  <1> USE DEF IInv
  <1>1. <<event, medium>> \in pending[t] /\ event \in 1..events /\ medium \in Media
    BY DEF Receive, TypeInvariant
  <1>2. /\ pending'[t] = pending[t] \ {<<event, medium>>}
        /\ \A u \in Tabs \ {t} : pending'[u] = pending[u]
        /\ pending' \in [Tabs -> SUBSET ((1..events) \X Media)]
    BY DEF Receive, TypeInvariant
  <1>3. UNCHANGED <<issued, server, expired, cookie, stored, events, locked, accepted>>
    BY DEF Receive, serverVars
  <1>4. /\ seen' \in [Tabs -> SUBSET (1..events)]
        /\ seen'[t] = seen[t] \cup {event}
        /\ \A u \in Tabs \ {t} : seen'[u] = seen[u]
    BY <1>1 DEF Receive, TypeInvariant
  <1>5. CASE event \in seen[t]
    <2>1. UNCHANGED <<seen, tab, request>>
      BY <1>5 DEF Receive
    <2>2. TypeInvariant' /\ Sound'
      BY <1>2, <1>3, <2>1 DEF TypeInvariant, Sound
    <2>3. ASSUME NEW u \in Tabs, NEW e, WillArrive(u, e) PROVE WillArrive(u, e)'
      BY <1>2, <1>5, <2>1, <2>3 DEF WillArrive
    <2>4. EndsReachEveryTab' /\ CurrentHears'
      BY <1>3, <2>1, <2>3 DEF EndsReachEveryTab, CurrentHears
    <2>5. FirstIsNoted'
      BY <1>2, <1>3, <1>5, <2>1 DEF FirstIsNoted
    <2> QED BY <2>2, <2>4, <2>5
  <1>6. CASE event \notin seen[t]
    <2>1. Lock(t) /\ NewGeneration(t, {})
      BY <1>6 DEF Receive
    <2>2. /\ request' \in Requests
          /\ \A r \in Tabs \X Kinds : SameOrigin(r) /\ SameSession(r)
          /\ \A kind \in Kinds :
               request'[<<t, kind>>] # None => ~request'[<<t, kind>>].current
      BY <2>1, Renewed
    <2>3. /\ tab' \in [Tabs -> [status : Statuses, session : 0..issued]]
          /\ tab'[t].status = "unauthenticated"
          /\ \A u \in Tabs \ {t} : tab'[u] = tab[u]
      BY <2>1 DEF Lock, TypeInvariant, Statuses
    <2>4. TypeInvariant' /\ Sound'
      BY <1>2, <1>3, <1>4, <2>2, <2>3
         DEF TypeInvariant, Requests, Sound, SameOrigin, SameSession
    <2>5. ASSUME NEW u \in Tabs \ {t}, NEW e, WillArrive(u, e) PROVE WillArrive(u, e)'
      BY <1>2, <1>4, <2>5 DEF WillArrive
    <2>6. EndsReachEveryTab'
      BY <1>3, <2>3, <2>5 DEF EndsReachEveryTab
    <2>7. CurrentHears'
      <3> SUFFICES ASSUME NEW u \in Tabs, NEW kind \in Kinds,
                          request'[<<u, kind>>] # None, request'[<<u, kind>>].current,
                          NEW e \in (request'[<<u, kind>>].since + 1)..events
                   PROVE  WillArrive(u, e)'
        BY <1>3 DEF CurrentHears
      <3>1. u # t
        BY <2>2
      <3>2. WillArrive(u, e)
        BY <2>2 DEF SameOrigin, CurrentHears
      <3> QED BY <2>5, <3>1, <3>2
    <2>8. FirstIsNoted'
      <3> SUFFICES ASSUME NEW u \in Tabs, NEW e \in 1..events,
                          NEW first \in Media, NEW other \in Media,
                          <<e, first>> \in pending'[u], <<e, other>> \notin pending'[u]
                   PROVE  e \in seen'[u]
        BY <1>3 DEF FirstIsNoted
      <3>1. CASE u = t /\ e = event
        BY <1>4, <3>1
      <3>2. CASE u # t \/ e # event
        BY <1>2, <1>4, <3>2 DEF FirstIsNoted
      <3> QED BY <3>1, <3>2
    <2> QED BY <2>4, <2>6, <2>7, <2>8
  <1> QED BY <1>5, <1>6

LEMMA LoadKeeps ==
    ASSUME IInv, NEW t \in Tabs, Load(t)
    PROVE  IInv'
  <1> USE DEF IInv
  <1>1. /\ request' \in Requests
        /\ \A r \in Tabs \X Kinds : SameOrigin(r) /\ SameSession(r)
        /\ \A kind \in Kinds : request'[<<t, kind>>] = None
    BY Renewed DEF Load
  <1>2. /\ tab' \in [Tabs -> [status : Statuses, session : 0..issued]]
        /\ tab'[t].status = "loading"
        /\ \A u \in Tabs \ {t} : tab'[u] = tab[u]
    BY DEF Load, TypeInvariant, Statuses
  <1>3. /\ pending' \in [Tabs -> SUBSET ((1..events) \X Media)] /\ pending'[t] = {}
        /\ seen' \in [Tabs -> SUBSET (1..events)]
        /\ \A u \in Tabs \ {t} : pending'[u] = pending[u] /\ seen'[u] = seen[u]
    BY DEF Load, TypeInvariant
  <1>4. UNCHANGED <<issued, server, expired, cookie, stored, events, locked, accepted>>
    BY DEF Load, serverVars
  <1>5. TypeInvariant' /\ Sound'
    BY <1>1, <1>2, <1>3, <1>4
       DEF TypeInvariant, Requests, Sound, SameOrigin, SameSession
  <1>6. ASSUME NEW u \in Tabs \ {t}, NEW e, WillArrive(u, e) PROVE WillArrive(u, e)'
    BY <1>3, <1>6 DEF WillArrive
  <1>7. EndsReachEveryTab'
    BY <1>2, <1>4, <1>6 DEF EndsReachEveryTab
  <1>8. CurrentHears'
    <2> SUFFICES ASSUME NEW u \in Tabs, NEW kind \in Kinds,
                        request'[<<u, kind>>] # None, request'[<<u, kind>>].current,
                        NEW e \in (request'[<<u, kind>>].since + 1)..events
                 PROVE  WillArrive(u, e)'
      BY <1>4 DEF CurrentHears
    <2>1. u # t
      BY <1>1
    <2>2. WillArrive(u, e)
      BY <1>1 DEF SameOrigin, CurrentHears
    <2> QED BY <1>6, <2>1, <2>2
  <1>9. FirstIsNoted'
    BY <1>3, <1>4 DEF FirstIsNoted
  <1> QED BY <1>5, <1>7, <1>8, <1>9

-----------------------------------------------------------------------------
(* Requests and answers: steps that publish, receive and accept nothing *)

LEMMA AskKeeps ==
    ASSUME IInv, SessionAssumption, NEW t \in Tabs, NEW kind \in Kinds, Send(t, kind),
           UNCHANGED <<serverVars, eventVars, accepted>>,
           tab' \in [Tabs -> [status : Statuses, session : 0..issued]],
           \A u \in Tabs : tab'[u].status = "authenticated" =>
             tab[u].status = "authenticated"
    PROVE  IInv'
  <1> USE DEF IInv
  <1>1. /\ request' \in Requests
        /\ \A r \in Tabs \X Kinds : r # <<t, kind>> => request'[r] = request[r]
        /\ request'[<<t, kind>>].session = cookie
        /\ request'[<<t, kind>>].since = events
        /\ request'[<<t, kind>>] # None
    <2>1. request'[<<t, kind>>] = [current |-> TRUE, session |-> cookie,
                                   reply |-> "sent", since |-> events]
      BY DEF Send, TypeInvariant
    <2> QED BY <2>1, Asked DEF None
  <1>2. TypeInvariant' /\ issued' \in Nat
    BY <1>1, SessionAssumption DEF TypeInvariant, Requests, serverVars, eventVars
  <1>3. ASSUME NEW r \in Tabs \X Kinds
        PROVE  /\ SameOrigin(r) \/ (request'[r].since = events /\ request'[r] # None)
               /\ request'[r] # None => request'[r].session \in 0..issued'
    <2>1. CASE r = <<t, kind>>
      BY <1>1, <2>1 DEF TypeInvariant, serverVars
    <2>2. CASE r # <<t, kind>>
      BY <1>1, <2>2 DEF SameOrigin, Sound, serverVars
    <2> QED BY <2>1, <2>2
  <1> QED BY <1>1, <1>2, <1>3, QuietKeeps DEF eventVars

LEMMA ReplyKeeps ==
    ASSUME IInv, SessionAssumption, NEW t \in Tabs, NEW kind \in Kinds,
           NEW reply \in Replies, IsSent(t, kind),
           TypeInvariant => issued' \in issued..MaxSessions,
           NEW session \in 0..issued', Reply(t, kind, reply, session),
           server' \subseteq 1..issued', expired' \subseteq 1..issued',
           cookie' \in 0..issued', locked' \in BOOLEAN,
           UNCHANGED <<stored, events, pending, seen, tab, accepted>>
    PROVE  IInv'
  <1> USE DEF IInv
  <1>1. issued' \in Nat /\ issued \in Nat /\ issued <= issued' /\ issued' <= MaxSessions
    BY SessionAssumption DEF TypeInvariant
  <1>2. session \in 0..MaxSessions
    BY <1>1, SessionAssumption
  <1>3. /\ request' \in Requests
        /\ \A r \in Tabs \X Kinds : SameOrigin(r)
        /\ \A r \in Tabs \X Kinds : r # <<t, kind>> => request'[r] = request[r]
        /\ request'[<<t, kind>>].session = session
    BY <1>2, Replied
  <1>4. TypeInvariant'
    BY <1>1, <1>3, SessionAssumption DEF TypeInvariant, Requests
  <1>5. ASSUME NEW r \in Tabs \X Kinds, request'[r] # None
        PROVE  request'[r].session \in 0..issued'
    <2>1. CASE r = <<t, kind>>
      BY <1>3, <2>1
    <2>2. CASE r # <<t, kind>>
      BY <1>1, <1>3, <1>5, <2>2 DEF Sound
    <2> QED BY <2>1, <2>2
  <1> QED BY <1>1, <1>3, <1>4, <1>5, QuietKeeps

\* A slot is emptied, or nothing but the server's sessions changes.
LEMMA EmptyKeeps ==
    ASSUME IInv, NEW t \in Tabs, NEW kind \in Kinds,
           Answered(t, kind) \/ UNCHANGED request,
           UNCHANGED <<issued, cookie, eventVars, accepted>>,
           server' \subseteq 1..issued, expired' \subseteq 1..issued,
           tab' \in [Tabs -> [status : Statuses, session : 0..issued]],
           \A u \in Tabs : tab'[u].status = "authenticated" =>
             tab[u].status = "authenticated"
    PROVE  IInv'
  <1> USE DEF IInv
  <1>1. /\ request' \in Requests
        /\ \A r \in Tabs \X Kinds : SameOrigin(r) /\ SameSession(r)
    BY Emptied DEF TypeInvariant, Requests, SameOrigin, SameSession
  <1>2. TypeInvariant' /\ issued' \in Nat
    BY <1>1 DEF TypeInvariant, Requests, eventVars
  <1>3. \A r \in Tabs \X Kinds :
          request'[r] # None => request'[r].session \in 0..issued'
    BY <1>1 DEF SameOrigin, SameSession, Sound
  <1> QED BY <1>1, <1>2, <1>3, QuietKeeps DEF eventVars

LEMMA AnswerKeeps ==
    ASSUME IInv, SessionAssumption, NEW t \in Tabs, NEW kind \in Kinds,
           Answer(t, kind)
    PROVE  IInv'
  <1>1. issued \in 0..MaxSessions /\ TypeInvariant /\ Sound
    BY DEF IInv, TypeInvariant
  <1>2. issued \in issued..MaxSessions /\ MaxSessions \in Nat
    BY <1>1, SessionAssumption
  <1>3. CASE ServeCheck(t, kind)
    <2>1. IsSent(t, kind) /\ UNCHANGED <<serverVars, eventVars, tab, accepted>>
      BY <1>3 DEF ServeCheck
    <2>2. PICK reply \in {"ok", "denied"}, session \in {0, request[<<t, kind>>].session} :
            Reply(t, kind, reply, session)
      BY <1>3 DEF ServeCheck
    <2>3. session \in 0..issued /\ reply \in Replies
      BY <1>1, <1>2, <2>1 DEF IsSent, Sound, Replies
    <2> QED BY <1>1, <1>2, <2>1, <2>2, <2>3, ReplyKeeps
            DEF serverVars, eventVars, TypeInvariant
  <1>4. CASE Lose(t, kind)
    <2>1. /\ IsSent(t, kind) /\ Reply(t, kind, "failed", 0)
          /\ UNCHANGED <<issued, expired, cookie, eventVars, tab, accepted>>
          /\ server' \subseteq 1..issued
      BY <1>1, <1>4 DEF Lose, TypeInvariant
    <2>2. 0 \in 0..issued /\ "failed" \in Replies
      BY <1>1, <1>2 DEF Replies
    <2> QED BY <1>1, <1>2, <2>1, <2>2, ReplyKeeps DEF eventVars, TypeInvariant
  <1>5. CASE Ignore(t, kind)
    BY <1>1, <1>5, EmptyKeeps DEF Ignore, serverVars, TypeInvariant
  <1>6. CASE ReceiveSession(t, kind)
    BY <1>6, AcceptKeeps
  <1>7. CASE ReceiveEnd(t, kind)
    BY <1>7, EndKeeps DEF ReceiveEnd
  <1> QED BY <1>3, <1>4, <1>5, <1>6, <1>7 DEF Answer

LEMMA TabStepKeeps ==
    ASSUME IInv, SessionAssumption, NEW t \in Tabs, TabStep(t)
    PROVE  IInv'
  <1>1. TypeInvariant /\ issued \in 0..MaxSessions /\ MaxSessions \in Nat
    BY SessionAssumption DEF IInv, TypeInvariant
  <1>2. \A kind \in {"verify", "login", "logout", "fetch"} : kind \in Kinds
    BY DEF Kinds
  <1>3. CASE Verify(t)
    <2>1. CASE stored /\ EndPrivateSession(t, {})
      BY <1>3, <2>1, EndKeeps DEF Verify
    <2>2. CASE /\ Send(t, "verify")
               /\ tab' = [tab EXCEPT ![t] = [status |-> "loading", session |-> 0]]
               /\ UNCHANGED <<eventVars, accepted>>
      <3>1. /\ tab' \in [Tabs -> [status : Statuses, session : 0..issued]]
            /\ \A u \in Tabs : tab'[u].status = "authenticated" =>
                 tab[u].status = "authenticated"
        BY <1>1, <2>2 DEF TypeInvariant, Statuses
      <3> QED BY <1>2, <1>3, <2>2, <3>1, AskKeeps DEF Verify
    <2> QED BY <1>3, <2>1, <2>2 DEF Verify
  <1>4. CASE Login(t)
    BY <1>1, <1>2, <1>4, AskKeeps DEF Login, TypeInvariant
  <1>5. CASE ServeLogin(t)
    <2>1. /\ IsSent(t, "login") /\ Reply(t, "login", "ok", issued + 1)
          /\ issued' = issued + 1 /\ issued' \in issued..MaxSessions
          /\ issued + 1 \in 0..issued'
          /\ UNCHANGED <<expired, stored, events, pending, seen, tab, accepted>>
      BY <1>1, <1>5 DEF ServeLogin
    <2>2. server' \subseteq 1..issued' /\ cookie' \in 0..issued' /\ expired' \subseteq 1..issued'
      <3>1. /\ server' = server \cup {issued + 1} /\ cookie' = issued + 1
            /\ expired' = expired
        BY <1>5, <2>1 DEF ServeLogin
      <3>2. 1..issued \subseteq 1..issued' /\ issued + 1 \in 1..issued'
        BY <1>1, <2>1
      <3>3. server \subseteq 1..issued /\ expired \subseteq 1..issued
        BY <1>1 DEF TypeInvariant
      <3> QED BY <2>1, <3>1, <3>2, <3>3
    <2>3. locked' \in BOOLEAN /\ "ok" \in Replies
      BY <1>5 DEF ServeLogin, Replies
    <2> QED BY <1>2, <2>1, <2>2, <2>3, ReplyKeeps
  <1>6. CASE ServeLogout(t)
    <2>1. /\ IsSent(t, "logout") /\ Reply(t, "logout", "ok", 0)
          /\ UNCHANGED <<issued, expired, eventVars, tab, accepted>>
          /\ server' \subseteq server /\ cookie' = 0
      BY <1>6 DEF ServeLogout
    <2>2. /\ issued' \in issued..MaxSessions /\ 0 \in 0..issued' /\ "ok" \in Replies
      BY <1>1, <2>1 DEF Replies
    <2>3. server' \subseteq 1..issued' /\ expired' \subseteq 1..issued' /\ cookie' \in 0..issued'
      BY <1>1, <2>1, <2>2 DEF TypeInvariant
    <2> QED BY <1>1, <1>2, <2>1, <2>2, <2>3, ReplyKeeps DEF eventVars, TypeInvariant
  <1>7. CASE ReceiveUnavailable(t)
    <2>1. /\ tab' \in [Tabs -> [status : Statuses, session : 0..issued]]
          /\ \A u \in Tabs : tab'[u].status = "authenticated" =>
               tab[u].status = "authenticated"
      BY <1>1, <1>7 DEF ReceiveUnavailable, TypeInvariant, Statuses
    <2> QED BY <1>1, <1>2, <1>7, <2>1, EmptyKeeps
            DEF ReceiveUnavailable, serverVars, TypeInvariant
  <1>8. CASE SessionExpires(t)
    BY <1>8, EndKeeps DEF SessionExpires
  <1>9. CASE Load(t)
    BY <1>9, LoadKeeps
  <1>10. ASSUME NEW kind \in Kinds, Ask(t, kind) PROVE IInv'
    BY <1>1, <1>10, AskKeeps DEF Ask, TypeInvariant
  <1>11. ASSUME NEW kind \in Kinds, Answer(t, kind) PROVE IInv'
    BY <1>11, AnswerKeeps
  <1>12. ASSUME NEW copy \in pending[t], Receive(t, copy[1], copy[2]) PROVE IInv'
    BY <1>12, ReceiveKeeps
  <1> QED BY <1>3, <1>4, <1>5, <1>6, <1>7, <1>8, <1>9, <1>10, <1>11, <1>12 DEF TabStep

LEMMA ExpireKeeps ==
    ASSUME IInv, NEW session, Expire(session)
    PROVE  IInv'
  <1> USE DEF IInv
  <1>1. /\ UNCHANGED <<issued, cookie, events, pending, seen, stored, locked, tab,
                       request, accepted>>
        /\ server' \subseteq 1..issued /\ expired' \subseteq 1..issued
    BY DEF Expire, eventVars, TypeInvariant
  <1>2. TypeInvariant' /\ request' \in Requests /\ issued' \in Nat
    BY <1>1 DEF TypeInvariant, Requests
  <1>3. \A r \in Tabs \X Kinds :
          SameOrigin(r) /\ (request'[r] # None => request'[r].session \in 0..issued')
    BY <1>1 DEF SameOrigin, Sound
  <1> QED BY <1>1, <1>2, <1>3, QuietKeeps

LEMMA InvNext ==
    ASSUME IInv, SessionAssumption, [Next]_vars
    PROVE  IInv'
  <1>1. CASE UNCHANGED vars
    BY <1>1 DEF vars, serverVars, eventVars, IInv, TypeInvariant, Sound,
                EndsReachEveryTab, CurrentHears, FirstIsNoted, WillArrive
  <1>2. CASE Next
    BY <1>2, ExpireKeeps, TabStepKeeps DEF Next
  <1> QED BY <1>1, <1>2

LEMMA InvInit ==
    ASSUME SessionAssumption, Init
    PROVE  IInv
  <1>1. TypeInvariant
    <2>1. tab \in [Tabs -> [status : Statuses, session : 0..issued]]
      BY DEF Init, Statuses
    <2>2. request \in [Tabs \X Kinds -> Request \cup {None}]
      BY DEF Init
    <2>3. /\ pending \in [Tabs -> SUBSET ((1..events) \X Media)]
          /\ seen \in [Tabs -> SUBSET (1..events)]
          /\ accepted \in [Tabs -> 0..events]
      BY DEF Init
    <2>4. issued \in 0..MaxSessions /\ events \in 0..MaxEvents /\ cookie \in 0..issued
      BY DEF Init, SessionAssumption
    <2>5. server \subseteq 1..issued /\ expired \subseteq 1..issued
      BY DEF Init
    <2>6. stored \in BOOLEAN /\ locked \in BOOLEAN
      BY DEF Init
    <2> QED BY <2>1, <2>2, <2>3, <2>4, <2>5, <2>6 DEF TypeInvariant
  <1>2. \A t \in Tabs, kind \in Kinds : request[<<t, kind>>] = None
    BY DEF Init
  <1>3. Sound /\ CurrentHears
    BY <1>2 DEF Sound, CurrentHears
  <1>4. EndsReachEveryTab /\ FirstIsNoted
    BY DEF Init, EndsReachEveryTab, FirstIsNoted
  <1> QED BY <1>1, <1>3, <1>4 DEF IInv

LEMMA InvHolds == Spec => []IInv
  BY InvInit, InvNext, SessionAssumption, PTL DEF Spec

\* AuthProvider and session-events: of every session end published after a tab
\* asked for its session, an open tab has a copy to come that it will follow.
THEOREM EveryTabHears == Spec => []EndsReachEveryTab
  BY InvHolds, PTL DEF IInv

\* session-events' seen: the second copy of an end leaves the tab as it is, also
\* when its owner has signed in since the first.
THEOREM CopiesEndOnce == Spec => EndsOnce
  <1>1. ASSUME IInv, [Next]_vars, NEW t \in Tabs, NEW copy \in pending[t] \ pending'[t],
               tab'[t].status # "loading",
               \E medium \in Media : <<copy[1], medium>> \notin pending[t]
        PROVE  tab'[t] = tab[t]
    <2>1. PICK event \in 1..events, medium \in Media, other \in Media :
            copy = <<event, medium>> /\ <<event, other>> \notin pending[t]
      <3>1. copy \in (1..events) \X Media
        BY <1>1 DEF IInv, TypeInvariant
      <3>2. PICK event \in 1..events, medium \in Media : copy = <<event, medium>>
        BY <3>1
      <3> QED BY <1>1, <3>2
    <2>2. event \in seen[t]
      BY <1>1, <2>1 DEF IInv, FirstIsNoted
    <2>3. pending'[t] # pending[t]
      BY <1>1
    <2>4. PICK u \in Tabs : TabStep(u)
      BY <1>1, <2>3 DEF Next, vars, eventVars, Expire
    <2>5. CASE Load(u)
      <3>1. u # t
        BY <1>1, <2>5 DEF Load, IInv, TypeInvariant
      <3> QED BY <2>3, <2>5, <3>1 DEF Load, IInv, TypeInvariant
    <2>6. ASSUME NEW c \in pending[u], Receive(u, c[1], c[2]) PROVE tab'[t] = tab[t]
      <3>1. u = t
        BY <2>3, <2>6 DEF Receive, IInv, TypeInvariant
      <3>2. pending'[t] = pending[t] \ {<<c[1], c[2]>>}
        BY <1>1, <2>6, <3>1 DEF Receive, IInv, TypeInvariant
      <3>3. c[1] = event
        BY <1>1, <2>1, <3>2
      <3> QED BY <2>2, <2>6, <3>1, <3>3 DEF Receive
    <2>7. ASSUME NEW done, EndPrivateSession(u, done) PROVE pending[t] \subseteq pending'[t]
      BY <1>1, <2>7 DEF EndPrivateSession, IInv, TypeInvariant
    <2>8. CASE /\ ~Load(u)
               /\ ~\E c \in pending[u] : Receive(u, c[1], c[2])
      BY <1>1, <2>4, <2>7, <2>8
         DEF TabStep, Verify, Login, ServeLogin, ServeLogout, ReceiveUnavailable,
             SessionExpires, Ask, Answer, ServeCheck, Lose, Ignore, ReceiveSession,
             AcceptSession, ReceiveEnd, eventVars
    <2> QED BY <2>5, <2>6, <2>8
  <1>2. IInv /\ [Next]_vars =>
          [\A t \in Tabs : \A copy \in pending[t] \ pending'[t] :
             /\ tab'[t].status # "loading"
             /\ \E medium \in Media : <<copy[1], medium>> \notin pending[t]
             => tab'[t] = tab[t]]_vars
    BY <1>1
  <1> QED BY <1>2, InvHolds, PTL DEF Spec, EndsOnce
=============================================================================
