------------------------ MODULE FastCallbackImplProofs ------------------------
(* FastCallback implements RemoteCall, for every set of connections,         *)
(* functions and threads and every number of calls.                          *)
EXTENDS FastCallbackImpl, FastCallbackProofs

USE DEF NoCall

\* The state that RemoteCall sees.
Seen == <<OpenConns, ClientOf, CallerOf, StatusOf, AskedOf, AnswerOf, timedOut>>

\* A handler between two of its steps is at work on the request of a call.
Tagging(n) == srv.at = "tag" /\ request[srv.cd][srv.id] = n
Matching(n) == srv.at = "match" /\ request[srv.cd][srv.id] = n

LEMMA WhereRequestsAre ==
    \A n : /\ Unsent(n) <=> call[n].stage \in Early \/ Posted(n) \/ Tagging(n)
           /\ Sent(n) <=> Awaited(n) \/ Matching(n)
           /\ Handled(n) <=> Tagging(n) \/ Matching(n)
  BY DEF Unsent, Sent, Early, Posted, Awaited, Handled, Tagging, Matching

\* The client and the caller of a call, once it has begun.
LEMMA ClientIsConnection ==
    ASSUME RightConnection, NEW n \in Calls, Begun(n)
    PROVE  /\ ClientOf[n] = Connection(n) /\ CallerOf[n] = call[n].thread
           /\ ClientOf[n] \in Conns /\ ClientOf[n] # NoConn
           /\ ClientOf[n] \in OpenConns <=> Open(n)
  BY ConnectionType, ConnAssumption
  DEF ClientOf, CallerOf, Connection, Begun, OpenConns, Open

LEMMA InitRefines == Init => Abstract!Init
<1> SUFFICES ASSUME Init PROVE Abstract!Init
  OBVIOUS
<1>1. \A n \in Calls : /\ call[n].stage = "none" /\ call[n].result = NoCall
                       /\ ~Active(n) /\ Unsent(n)
  BY DEF Init, NoObject, Active, ActiveStages, Unsent
<1>2. OpenConns = Conns /\ timedOut = {}
  BY DEF Init, OpenConns
<1> QED
  BY <1>1, <1>2 DEF Abstract!Init, ClientOf, CallerOf, StatusOf, AskedOf, AnswerOf

-----------------------------------------------------------------------------
(* What RemoteCall sees of a step.                                         *)

\* A call that goes on from its thread's side is the same call, still asked.
LEMMA SameRequest ==
    ASSUME NEW k \in Calls,
           \A n \in Calls \ {k} : /\ Unsent(n)' <=> Unsent(n)
                                  /\ ~Unsent(n) => (Sent(n)' <=> Sent(n))
    PROVE  AskedOf' = [AskedOf EXCEPT ![k] = AskedOf'[k]]
  BY DEF AskedOf

LEMMA SameRequests ==
    ASSUME \A n \in Calls : /\ Unsent(n)' <=> Unsent(n)
                            /\ ~Unsent(n) => (Sent(n)' <=> Sent(n))
    PROVE  AskedOf' = AskedOf
  BY DEF AskedOf

\* The thread of call n goes on.
LEMMA MoveSeen ==
    ASSUME IInv, NEW n \in Calls, Moves(n)
    PROVE  /\ UNCHANGED <<OpenConns, ClientOf, CallerOf, AnswerOf>>
           /\ StatusOf[n] = "pending"
           /\ StatusOf' = IF call'[n].stage = "returned"
                            THEN [StatusOf EXCEPT ![n] = "returned"] ELSE StatusOf
<1>1. \A m \in Calls : /\ call'[m].thread = call[m].thread
                       /\ call'[m].fun = call[m].fun
                       /\ call'[m].result = call[m].result
                       /\ Begun(m)' = Begun(m)
  BY MoveFields
<1>2. UNCHANGED OpenConns
  BY DEF Moves, OpenConns
<1>3. UNCHANGED <<ClientOf, CallerOf, AnswerOf>>
  BY <1>1 DEF ClientOf, CallerOf, AnswerOf, Begun
<1>4. StatusOf[n] = "pending" /\ Active(n)
  BY DEF Moves, StatusOf
<1>5. call'[n].stage \in Stages \ {"none", "install"}
  BY DEF Moves, CallRecord
<1>6. \A m \in Calls \ {n} : call'[m] = call[m]
  BY DEF Moves
<1>7. \A m \in Calls \ {n} : StatusOf'[m] = StatusOf[m]
  BY <1>6 DEF StatusOf, Active
<1>8. StatusOf'[n] = IF call'[n].stage = "returned" THEN "returned" ELSE "pending"
  BY <1>5 DEF StatusOf, Active, ActiveStages
<1>9. StatusOf' = IF call'[n].stage = "returned"
                    THEN [StatusOf EXCEPT ![n] = "returned"] ELSE StatusOf
  BY <1>4, <1>7, <1>8 DEF StatusOf
<1> QED
  BY <1>2, <1>3, <1>4, <1>9

LEMMA MoveOnSeen ==
    ASSUME IInv, NEW n \in Calls, MovesOn(n)
    PROVE  AskedOf' = AskedOf
<1>1. UNCHANGED <<posted, asked, request, srv>>
  BY DEF MovesOn, Moves
<1>2. \A m \in Calls : call'[m].stage \in Early <=> call[m].stage \in Early
  BY DEF MovesOn, Moves
<1>3. \A m \in Calls : (Unsent(m)' <=> Unsent(m)) /\ (Sent(m)' <=> Sent(m))
  BY <1>1, <1>2 DEF Unsent, Sent, Early
<1> QED
  BY <1>3, SameRequests

\* Only undefined behaviour has been found.
LEMMA FrozenSeen ==
    ASSUME UNCHANGED <<conn, posted, asked, request, call, srv, timedOut>>
    PROVE  UNCHANGED Seen
<1>1. \A n : Unsent(n)' = Unsent(n) /\ Sent(n)' = Sent(n) /\ Active(n)' = Active(n)
  BY DEF Unsent, Sent, Active
<1> QED
  BY <1>1 DEF Seen, OpenConns, ClientOf, CallerOf, StatusOf, AskedOf, AnswerOf

-----------------------------------------------------------------------------
(* The calling threads.                                                    *)

LEMMA BeginRefines ==
    ASSUME IInv, AInv, NEW t \in Threads, NEW f \in Callbacks, NEW n \in Calls,
           Begin(t, f, n)
    PROVE  Abstract!Ask(n, Owner[f], t)
<1>1. /\ call[n].stage = "none" /\ ~Busy(t) /\ conn[Owner[f]] = "open"
      /\ UNCHANGED <<conn, posted, asked, request, srv, timedOut>>
  BY DEF Begin
<1>2. call \in [Calls -> CallRecord] /\ Owner[f] \in Conns
  BY CallbackAssumption DEF IInv, TypeOK
<1>3. /\ \A m \in Calls \ {n} : call'[m] = call[m]
      /\ call'[n].stage = "install" /\ call'[n].thread = t /\ call'[n].fun = f
      /\ call'[n].result = NoCall
  BY <1>2 DEF Begin
<1>4. StatusOf[n] = "none" /\ Owner[f] \in OpenConns
  BY <1>1, <1>2 DEF StatusOf, Active, ActiveStages, OpenConns
<1>5. \A k \in Calls : StatusOf[k] = "pending" => CallerOf[k] # t
  <2>1. \A k \in Calls : StatusOf[k] = "pending" => Active(k)
    BY <1>2 DEF StatusOf, CallRecord, Stages
  <2>2. \A k \in Calls : Active(k) => CallerOf[k] = call[k].thread
    BY DEF CallerOf, Active, ActiveStages
  <2> QED
    BY <1>1, <2>1, <2>2 DEF Busy
<1>6. StatusOf' = [StatusOf EXCEPT ![n] = "pending"]
  <2>1. \A m \in Calls \ {n} : StatusOf'[m] = StatusOf[m]
    BY <1>3 DEF StatusOf, Active
  <2>2. StatusOf'[n] = "pending"
    BY <1>3 DEF StatusOf, Active, ActiveStages, Stages
  <2> QED
    BY <2>1, <2>2 DEF StatusOf
<1>7. /\ ClientOf' = [ClientOf EXCEPT ![n] = Owner[f]]
      /\ CallerOf' = [CallerOf EXCEPT ![n] = t]
  BY <1>3 DEF ClientOf, CallerOf
<1>8. AskedOf' = AskedOf
  <2>1. \A m \in Calls : (Unsent(m)' <=> Unsent(m)) /\ (Sent(m)' <=> Sent(m))
    BY <1>1, <1>3 DEF Unsent, Sent
  <2> QED
    BY <2>1, SameRequests
<1>9. AnswerOf' = AnswerOf
  <2>1. call[n].result = NoCall
    BY <1>1 DEF AInv, AnswersAreFinal, Begun
  <2> QED
    BY <1>3, <2>1 DEF AnswerOf
<1> QED
  BY <1>1, <1>4, <1>5, <1>6, <1>7, <1>8, <1>9 DEF Abstract!Ask, OpenConns

LEMMA PostRefines ==
    ASSUME IInv, AInv, IInv', NEW n \in Calls, Post(n)
    PROVE  UNCHANGED Seen
<1>1. /\ call[n].stage = "post" /\ UNCHANGED <<conn, fcb, asked, request, srv, timedOut>>
      /\ call' = [call EXCEPT ![n].stage = "lock"]
      /\ call \in [Calls -> CallRecord] /\ call' \in [Calls -> CallRecord]
  BY DEF Post, IInv, TypeOK
<1>2. Moves(n) /\ call'[n].stage = "lock"
  BY <1>1 DEF IInv, TypeOK, Moves, Active, ActiveStages, Stages, CallRecord
<1> DEFINE ev == [cd |-> call[n].cd, fun |-> call[n].fun, call |-> n]
<1>3. posted' = Append(posted, ev) /\ posted \in Seq(Event)
  BY DEF Post, IInv, TypeOK
<1>4. \A m : Posted(m)' <=> Posted(m) \/ m = n
  <2>1. /\ DOMAIN posted' = DOMAIN posted \cup {Len(posted) + 1}
        /\ posted'[Len(posted) + 1] = ev
        /\ \A k \in DOMAIN posted : posted'[k] = posted[k]
    BY <1>3
  <2> QED
    BY <2>1 DEF Posted
<1>5. \A m \in Calls : (Unsent(m)' <=> Unsent(m)) /\ (Sent(m)' <=> Sent(m))
  <2>1. \A m \in Calls : Tagging(m)' = Tagging(m) /\ Sent(m)' = Sent(m)
    BY <1>1 DEF Tagging, Sent
  <2>2. \A m \in Calls \ {n} : call'[m] = call[m]
    BY <1>2 DEF Moves
  <2>3. \A m \in Calls : Unsent(m)' <=> call'[m].stage \in Early \/ Posted(m)' \/ Tagging(m)'
    BY DEF Unsent, Early, Posted, Tagging
  <2>4. Unsent(n)
    BY <1>1 DEF Unsent
  <2> QED
    BY <1>4, <2>1, <2>2, <2>3, <2>4, WhereRequestsAre
<1>6. AskedOf' = AskedOf
  BY <1>5, SameRequests
<1> QED
  BY <1>1, <1>2, <1>6, MoveSeen DEF Seen

LEMMA TimeoutRefines ==
    ASSUME IInv, AInv, IInv', NEW n \in Calls, Timeout(n)
    PROVE  Abstract!GiveUp(n)
<1>1. MovesOn(n) /\ Moves(n)
  BY CallerMoves DEF MovesOn
<1>2. timedOut' = timedOut \cup {n} /\ call'[n].stage # "returned"
  BY DEF Timeout, IInv, TypeOK, CallRecord
<1> QED
  BY <1>1, <1>2, MoveSeen, MoveOnSeen DEF Abstract!GiveUp

\* The steps on which the call goes on to return, or returns.
LEMMA CallerRefines ==
    ASSUME IInv, AInv, IInv', NEW n \in Calls,
           \/ Install(n) \/ Lock(n) \/ Woken(n) \/ ClearWaitMux(n)
           \/ Unlock(n) \/ TestConnection(n) \/ ResetAndReturn(n)
    PROVE  Abstract!Return(n) \/ UNCHANGED Seen
<1>1. MovesOn(n) /\ Moves(n)
  BY CallerMoves DEF MovesOn
<1>2. timedOut' = timedOut
  BY DEF Install, Lock, Woken, ClearWaitMux, Unlock, TestConnection, ResetAndReturn
<1>3. /\ UNCHANGED <<OpenConns, ClientOf, CallerOf, AnswerOf, AskedOf>>
      /\ StatusOf[n] = "pending"
      /\ StatusOf' = IF call'[n].stage = "returned"
                       THEN [StatusOf EXCEPT ![n] = "returned"] ELSE StatusOf
  BY <1>1, MoveSeen, MoveOnSeen
<1>4. CASE call'[n].stage # "returned"
  BY <1>2, <1>3, <1>4 DEF Seen
<1>5. CASE call'[n].stage = "returned"
  <2>1. call[n].stage \in {"detach", "reset"} /\ Begun(n)
    BY <1>5 DEF Install, Lock, Woken, ClearWaitMux, Unlock, TestConnection,
       ResetAndReturn, IInv, TypeOK, CallRecord, Begun
  <2>2. n \in timedOut \/ Excused(n)
    BY <2>1 DEF AInv, CallInv, MayEnd, Late
  <2>3. AnswerOf[n] # NoCall \/ n \in timedOut \/ ClientOf[n] \notin OpenConns
    BY <2>1, <2>2, ClientIsConnection DEF Excused, AnswerOf, AInv
  <2> QED
    BY <1>2, <1>3, <1>5, <2>3 DEF Abstract!Return
<1> QED
  BY <1>4, <1>5

-----------------------------------------------------------------------------
(* The server thread.                                                      *)

LEMMA HandleRequestRefines ==
    ASSUME IInv, AInv, HandleRequest
    PROVE  \/ UNCHANGED Seen
           \/ \E k \in Calls : Abstract!DropRequest(k)
<1> USE DEF AInv
<1> DEFINE ev == Head(posted)
           takes == ev.cd # NoConn /\ conn[ev.cd] = "open"
<1>1. /\ UNCHANGED <<conn, fcb, call, asked, timedOut>> /\ posted' = Tail(posted)
      /\ posted # << >> /\ srv.at = "idle"
  BY DEF HandleRequest, ServerIdle
<1> PICK k \in Calls : k = ev.call
  BY <1>1, TakeEvent
<1>2. /\ ev \in Event /\ k = ev.call /\ ev = posted[1] /\ 1 \in DOMAIN posted
      /\ Posted(k) /\ Begun(k)
      /\ \A n : Posted(n)' <=> Posted(n) /\ n # k
  BY <1>1, TakeEvent
<1>3. ~Requested(k) /\ call[k].stage \notin Early /\ ~Awaited(k)
  BY <1>2, OnlyRequested DEF PostedOnce
<1>4. /\ UNCHANGED <<OpenConns, ClientOf, CallerOf, StatusOf, AnswerOf>>
      /\ \A n : call'[n].stage = call[n].stage
  BY <1>1 DEF OpenConns, ClientOf, CallerOf, StatusOf, AnswerOf, Active
<1>5. \A n : ~Tagging(n) /\ ~Matching(n)
  BY <1>1 DEF Tagging, Matching
<1>6. \A n : /\ Unsent(n)' <=> call'[n].stage \in Early \/ Posted(n)' \/ Tagging(n)'
             /\ Sent(n)' <=> Awaited(n)' \/ Matching(n)'
  BY DEF Unsent, Sent, Early, Posted, Awaited, Tagging, Matching
<1>7. CASE takes
  <2> DEFINE c == ev.cd
             l == Len(request[c]) + 1
  <2>1. /\ request' = [request EXCEPT ![c] = Append(@, k)]
        /\ srv' = Doing("tag", c, fcb[c], NextRequestId(c))
        /\ c \in Conns
    BY <1>2, <1>7 DEF HandleRequest, Event
  <2>2. /\ request \in [Conns -> Seq(Calls)]
        /\ \A d \in Conns : asked[d] \subseteq DOMAIN request[d]
    BY DEF IInv, TypeOK, ServerHolds
  <2>3. /\ request'[c] = Append(request[c], k)
        /\ \A d \in Conns : d # c => request'[d] = request[d]
    BY <2>1, <2>2
  <2>4. /\ request'[c][l] = k
        /\ \A i \in DOMAIN request[c] : request'[c][i] = request[c][i]
    BY <2>1, <2>2, <2>3
  <2>5. srv'.at = "tag" /\ srv'.cd = c /\ srv'.id = l
    BY <2>1 DEF Doing, NextRequestId
  <2>6. \A d \in Conns : \A i \in asked[d] : request'[d][i] = request[d][i]
    BY <2>2, <2>3, <2>4
  <2>7. \A n : (Tagging(n)' <=> n = k) /\ ~Matching(n)' /\ (Awaited(n)' <=> Awaited(n))
    BY <1>1, <2>4, <2>5, <2>6 DEF Tagging, Matching, Awaited
  <2>8. \A n \in Calls : (Unsent(n)' <=> Unsent(n)) /\ (Sent(n)' <=> Sent(n))
    BY <1>2, <1>4, <1>5, <1>6, <2>7, WhereRequestsAre
  <2> QED
    BY <1>1, <1>4, <2>8, SameRequests DEF Seen
<1>8. CASE ~takes
  <2>1. UNCHANGED <<request, srv>>
    BY <1>8 DEF HandleRequest
  <2>2. \A n : ~Tagging(n)' /\ ~Matching(n)' /\ (Awaited(n)' <=> Awaited(n))
    BY <1>1, <2>1 DEF Tagging, Matching, Awaited
  <2>3. \A n \in Calls \ {k} : (Unsent(n)' <=> Unsent(n)) /\ (Sent(n)' <=> Sent(n))
    BY <1>2, <1>4, <1>5, <1>6, <2>2, WhereRequestsAre
  <2>4. Unsent(k) /\ ~Unsent(k)' /\ ~Sent(k)'
    BY <1>2, <1>3, <1>4, <1>6, <2>2, WhereRequestsAre
  <2>5. AskedOf[k] = "unsent" /\ AskedOf'[k] = "closed"
    BY <1>2, <2>4 DEF AskedOf
  <2>6. AskedOf' = [AskedOf EXCEPT ![k] = "closed"]
    BY <1>2, <2>3, <2>5, SameRequest
  <2>7. ~Open(k)
    <3>1. Open(k) => ev.cd = Connection(k) /\ Connection(k) # NoConn
      BY <1>2, ConnAssumption, ConnectionType DEF RightConnection
    <3> QED
      BY <1>8, <3>1 DEF Open
  <2>8. ClientOf[k] \notin OpenConns \cup {NoConn}
    BY <1>2, <2>7, ClientIsConnection
  <2> QED
    BY <1>1, <1>2, <1>4, <2>5, <2>6, <2>8 DEF Abstract!DropRequest
<1> QED
  BY <1>7, <1>8

LEMMA TagAndSendRefines ==
    ASSUME IInv, AInv, TagAndSend
    PROVE  \/ UNCHANGED Seen
           \/ \E k \in Calls : Abstract!SendRequest(k)
<1> USE DEF AInv
<1> DEFINE m == srv.call
<1>1. UNCHANGED <<conn, fcb, posted, request, timedOut>> /\ srv.at = "tag"
  BY DEF TagAndSend
<1> PICK k \in Calls : k = request[srv.cd][srv.id]
  BY <1>1, HandledCall
<1>2. /\ srv.cd \in Conns /\ k = request[srv.cd][srv.id] /\ Begun(k) /\ ~Posted(k) /\ ~Awaited(k)
      /\ Open(k) /\ call[k].stage \notin Early
  BY <1>1, HandledCall
<1>3. CASE BadObject(m)
  BY <1>1, <1>3, FrozenSeen DEF TagAndSend
<1>4. CASE ~BadObject(m)
  <2>1. m \in Calls
    BY <1>4 DEF BadObject, IInv, TypeOK, ServerRecord
  <2>2. /\ \/ call' = [call EXCEPT ![m].id = srv.id]
           \/ call' = call
        /\ asked' = [asked EXCEPT ![srv.cd] = @ \cup {srv.id}]
        /\ srv'.at = "idle"
    BY <1>4 DEF TagAndSend, SrvIdle, Doing
  <2>3. call \in [Calls -> CallRecord] /\ asked \in [Conns -> SUBSET (Nat \ {0})]
    BY DEF IInv, TypeOK
  <2>4. \A n \in Calls : \A f \in {"stage", "thread", "fun", "result"} :
          call'[n][f] = call[n][f]
    BY <2>1, <2>2, <2>3 DEF CallRecord
  <2>5. UNCHANGED <<OpenConns, ClientOf, CallerOf, StatusOf, AnswerOf>>
    BY <1>1, <2>4 DEF OpenConns, ClientOf, CallerOf, StatusOf, AnswerOf, Active
  <2>6. \A c \in Conns : \A i : i \in asked'[c] <=> i \in asked[c] \/ (c = srv.cd /\ i = srv.id)
    BY <1>2, <2>2, <2>3
  <2>7. \A n : (Awaited(n)' <=> Awaited(n) \/ n = k) /\ ~Tagging(n)' /\ ~Matching(n)'
    BY <1>1, <1>2, <2>2, <2>6 DEF Awaited, Tagging, Matching
  <2>8. \A n : (Tagging(n) <=> n = k) /\ ~Matching(n) /\ Posted(n)' = Posted(n)
    BY <1>1 DEF Tagging, Matching, Posted
  <2>9. \A n : /\ Unsent(n)' <=> call'[n].stage \in Early \/ Posted(n)' \/ Tagging(n)'
               /\ Sent(n)' <=> Awaited(n)' \/ Matching(n)'
    BY DEF Unsent, Sent, Early, Posted, Awaited, Tagging, Matching
  <2>10. \A n \in Calls \ {k} : (Unsent(n)' <=> Unsent(n)) /\ (Sent(n)' <=> Sent(n))
    BY <2>4, <2>7, <2>8, <2>9, WhereRequestsAre
  <2>11. Unsent(k) /\ ~Unsent(k)' /\ Sent(k)'
    BY <1>2, <2>4, <2>7, <2>8, <2>9, WhereRequestsAre
  <2>12. AskedOf[k] = "unsent" /\ AskedOf'[k] = "sent"
    BY <1>2, <2>11 DEF AskedOf
  <2>13. AskedOf' = [AskedOf EXCEPT ![k] = "sent"]
    BY <1>2, <2>10, <2>12, SameRequest
  <2>14. StatusOf[k] # "none" /\ ClientOf[k] \in OpenConns
    BY <1>2, ClientIsConnection DEF StatusOf, Begun
  <2> QED
    BY <1>1, <1>2, <2>5, <2>12, <2>13, <2>14 DEF Abstract!SendRequest
<1> QED
  BY <1>3, <1>4

\* The answer to the request of a call that has not given up and that is the
\* only one on its connection finds the call.
LEMMA LoneCallIsFound ==
    ASSUME IInv, AInv, ~Busy(ServerThread), NEW k \in Calls, Begun(k), Open(k),
           Outstanding(k), call[k].stage \notin Early, k \notin timedOut,
           \A m \in Calls \ {k} : ClientOf[m] # ClientOf[k]
    PROVE  Active(k) /\ Quiet(k) /\ fcb[Connection(k)] = k /\ (Handled(k) => srv.call = k)
<1>1. ~Disturbed(k)
  BY ClientIsConnection DEF AInv, Disturbed, Disturbs
<1> QED
  BY <1>1, CalmCallIsFound

LEMMA AnswerArrivesRefines ==
    ASSUME IInv, AInv, NEW c \in Conns, NEW i \in RequestIds, AnswerArrives(c, i)
    PROVE  \/ UNCHANGED Seen
           \/ \E k \in Calls : Abstract!IgnoreAnswer(k)
<1> USE DEF AInv
<1>1. /\ UNCHANGED <<conn, fcb, posted, request, call, timedOut>>
      /\ srv.at = "idle" /\ ~Busy(ServerThread) /\ conn[c] = "open" /\ i \in asked[c]
      /\ asked' = [asked EXCEPT ![c] = @ \ {i}]
      /\ srv' = IF fcb[c] = NoCall THEN srv ELSE Doing("match", c, fcb[c], i)
  BY DEF AnswerArrives, ServerIdle
<1> PICK k \in Calls : k = request[c][i]
  BY <1>1 DEF IInv, TypeOK, ServerHolds
<1>2. /\ k = request[c][i] /\ i \in DOMAIN request[c] /\ Requested(k) /\ Awaited(k)
  BY <1>1 DEF IInv, ServerHolds, Requested, Awaited
<1>3. /\ Begun(k) /\ call[k].stage \notin Early /\ Connection(k) = c /\ Open(k)
      /\ ~Posted(k) /\ Outstanding(k)
  BY <1>1, <1>2, CallsBehind DEF IInv, PostedOnce, RightConnection, Open, Outstanding
<1>4. \A d \in Conns : \A j : j \in asked'[d] <=> j \in asked[d] /\ ~(d = c /\ j = i)
  BY <1>1 DEF IInv, TypeOK
<1>5. \A d \in Conns : \A j \in asked[d] : j \in DOMAIN request[d]
  BY DEF IInv, ServerHolds
<1>6. \A n : Awaited(n)' <=> Awaited(n) /\ n # k
  <2>1. \A d \in Conns : \A j \in asked[d] : request[d][j] = k => d = c /\ j = i
    BY <1>2, <1>5 DEF RequestedOnce
  <2> QED
    BY <1>1, <1>2, <1>4, <2>1 DEF Awaited
<1>7. /\ \A n : Unsent(n)' <=> call'[n].stage \in Early \/ Posted(n)' \/ Tagging(n)'
      /\ \A n : Sent(n)' <=> Awaited(n)' \/ Matching(n)'
      /\ \A n : ~Tagging(n) /\ ~Matching(n) /\ ~Tagging(n)' /\ Posted(n)' = Posted(n)
  BY <1>1 DEF Unsent, Sent, Early, Posted, Awaited, Tagging, Matching, Doing
<1>8. UNCHANGED <<OpenConns, ClientOf, CallerOf, StatusOf, AnswerOf>>
  BY <1>1 DEF OpenConns, ClientOf, CallerOf, StatusOf, AnswerOf, Active
<1>9. CASE fcb[c] # NoCall
  <2>1. \A n : Matching(n)' <=> n = k
    BY <1>1, <1>2, <1>9 DEF Matching, Doing
  <2>2. \A n \in Calls : (Unsent(n)' <=> Unsent(n)) /\ (Sent(n)' <=> Sent(n))
    BY <1>1, <1>2, <1>6, <1>7, <2>1, WhereRequestsAre
  <2> QED
    BY <1>1, <1>8, <2>2, SameRequests DEF Seen
<1>10. CASE fcb[c] = NoCall
  <2>1. \A n : ~Matching(n)'
    BY <1>1, <1>10 DEF Matching
  <2>2. \A n \in Calls \ {k} : (Unsent(n)' <=> Unsent(n)) /\ (Sent(n)' <=> Sent(n))
    BY <1>1, <1>6, <1>7, <2>1, WhereRequestsAre
  <2>3. ~Unsent(k) /\ Sent(k) /\ ~Unsent(k)' /\ ~Sent(k)'
    BY <1>1, <1>2, <1>3, <1>6, <1>7, <2>1, WhereRequestsAre
  <2>4. AskedOf[k] = "sent" /\ AskedOf'[k] = "closed"
    BY <2>3 DEF AskedOf
  <2>5. AskedOf' = [AskedOf EXCEPT ![k] = "closed"]
    BY <2>2, <2>4, SameRequest
  <2>6. k \in timedOut \/ \E m \in Calls \ {k} : ClientOf[m] = ClientOf[k]
    BY <1>1, <1>3, <1>10, LoneCallIsFound, NullIsNoCall
  <2>7. ClientOf[k] \in OpenConns
    BY <1>3, ClientIsConnection
  <2> QED
    BY <1>1, <1>8, <2>4, <2>5, <2>6, <2>7 DEF Abstract!IgnoreAnswer
<1> QED
  BY <1>9, <1>10

LEMMA MatchAnswerRefines ==
    ASSUME IInv, AInv, NEW m \in Calls \cup {NoCall}, MatchAnswer(m)
    PROVE  \/ UNCHANGED Seen
           \/ \E k, n \in Calls : Abstract!Answer(k, n)
           \/ \E k \in Calls : Abstract!IgnoreAnswer(k)
<1> USE DEF AInv
<1>1. /\ UNCHANGED <<conn, fcb, posted, asked, request, timedOut>>
      /\ srv.at = "match" /\ m \in SecondRead
  BY DEF MatchAnswer
<1> PICK k \in Calls : k = request[srv.cd][srv.id]
  BY <1>1, HandledCall
<1>2. /\ srv.cd \in Conns /\ k = request[srv.cd][srv.id] /\ Begun(k) /\ Outstanding(k)
      /\ ~Posted(k) /\ ~Awaited(k) /\ Connection(k) = srv.cd /\ Open(k)
      /\ call[k].stage \notin Early /\ Handled(k) /\ srv.id \in DOMAIN request[srv.cd]
  BY <1>1, HandledCall
<1>3. CASE BadObject(m)
  BY <1>1, <1>3, FrozenSeen DEF MatchAnswer
<1>4. CASE ~BadObject(m)
  <2> DEFINE hit == call[m].cd = srv.cd /\ call[m].id = srv.id
  <2>1. m \in Calls /\ Active(m) /\ Begun(m)
    BY <1>4 DEF BadObject, Active, ActiveStages, Begun
  <2>2. /\ call' = IF hit THEN [call EXCEPT ![m].result = k] ELSE call
        /\ srv'.at \in {"idle", "wake"}
    BY <1>2, <1>4 DEF MatchAnswer, SrvIdle, Doing
  <2>3. call \in [Calls -> CallRecord]
    BY DEF IInv, TypeOK
  <2>4. /\ \A n \in Calls : \A f \in {"stage", "thread", "fun"} : call'[n][f] = call[n][f]
        /\ \A n \in Calls : call'[n].result = IF hit /\ n = m THEN k ELSE call[n].result
    BY <2>1, <2>2, <2>3 DEF CallRecord
  <2>5. UNCHANGED <<OpenConns, ClientOf, CallerOf, StatusOf>>
    BY <1>1, <2>4 DEF OpenConns, ClientOf, CallerOf, StatusOf, Active
  <2>6. /\ \A n : Unsent(n)' <=> call'[n].stage \in Early \/ Posted(n)' \/ Tagging(n)'
        /\ \A n : Sent(n)' <=> Awaited(n)' \/ Matching(n)'
        /\ \A n : ~Tagging(n) /\ ~Tagging(n)' /\ ~Matching(n)' /\ (Matching(n) <=> n = k)
        /\ \A n : Posted(n)' = Posted(n) /\ Awaited(n)' = Awaited(n)
    BY <1>1, <1>2, <2>2 DEF Unsent, Sent, Early, Posted, Awaited, Tagging, Matching
  <2>7. \A n \in Calls \ {k} : (Unsent(n)' <=> Unsent(n)) /\ (Sent(n)' <=> Sent(n))
    BY <2>4, <2>6, WhereRequestsAre
  <2>8. ~Unsent(k) /\ Sent(k) /\ ~Unsent(k)' /\ ~Sent(k)'
    BY <1>2, <2>4, <2>6, WhereRequestsAre
  <2>9. AskedOf[k] = "sent" /\ AskedOf'[k] = "closed"
    BY <2>8 DEF AskedOf
  <2>10. AskedOf' = [AskedOf EXCEPT ![k] = "closed"]
    BY <2>7, <2>9, SameRequest
  <2>11. ClientOf[k] = srv.cd /\ ClientOf[k] \in OpenConns
    BY <1>2, ClientIsConnection
  <2>12. CASE hit
    <3>1. AnswerOf' = [AnswerOf EXCEPT ![m] = k]
      BY <2>1, <2>4, <2>12 DEF AnswerOf
    <3>2. Connection(m) = srv.cd
      BY <1>2, <2>1, <2>12, ConnAssumption DEF RightConnection
    <3>3. StatusOf[m] = "pending" /\ ClientOf[m] = ClientOf[k]
      BY <2>1, <2>11, <3>2, ClientIsConnection DEF StatusOf
    <3>4. ASSUME k # m \/ AnswerOf[m] # NoCall PROVE Disturbed(m)
      <4> SUFFICES ASSUME ~Disturbed(m) PROVE FALSE
        OBVIOUS
      <4>1. k = m
        BY <1>1, <1>2, <2>1, <2>12, OwnAnswer
      <4>2. call[m].result # NoCall
        BY <3>4, <4>1 DEF AnswerOf
      <4>3. call[m].result = m
        BY <2>1, <4>2 DEF StrayAnswersHaveCause, Disturbed
      <4> QED
        BY <1>2, <2>1, <4>1, <4>2, <4>3 DEF AnswersAreFinal
    <3>5. Disturbed(m) => Abstract!Disturbed(m)
      <4> SUFFICES ASSUME NEW j \in Calls, Disturbs(j, m) PROVE Abstract!Disturbed(m)
        BY DEF Disturbed
      <4>1. /\ j # m /\ ClientOf[j] = ClientOf[m] /\ CallerOf[j] = call[j].thread
            /\ CallerOf[m] = call[m].thread
        BY <2>1, ClientIsConnection DEF Disturbs
      <4> QED
        BY <4>1 DEF Disturbs, Rivals, Abstract!Disturbed
    <3> QED
      BY <1>1, <2>1, <2>5, <2>9, <2>10, <2>11, <3>1, <3>3, <3>4, <3>5 DEF Abstract!Answer
  <2>13. CASE ~hit
    <3>1. AnswerOf' = AnswerOf
      BY <2>2, <2>13 DEF AnswerOf
    <3>2. k \in timedOut \/ \E n \in Calls \ {k} : ClientOf[n] = ClientOf[k]
      <4> SUFFICES ASSUME k \notin timedOut, \A n \in Calls \ {k} : ClientOf[n] # ClientOf[k]
                   PROVE  FALSE
        OBVIOUS
      <4>1. Active(k) /\ Quiet(k) /\ fcb[srv.cd] = k /\ srv.call = k
        BY <1>1, <1>2, LoneCallIsFound DEF Turns
      <4>2. m = k
        BY <1>1, <4>1 DEF SecondRead
      <4>3. call[k].cd = srv.cd
        BY <1>2 DEF RightConnection
      <4>4. call[k].id = srv.id
        BY <1>1, <1>2, <4>1 DEF IdIsMine
      <4> QED
        BY <2>13, <4>2, <4>3, <4>4
    <3> QED
      BY <1>1, <2>5, <2>9, <2>10, <2>11, <3>1, <3>2 DEF Abstract!IgnoreAnswer
  <2> QED
    BY <2>12, <2>13
<1> QED
  BY <1>3, <1>4

\* A handler that leaves requests and answers alone is seen only when it
\* takes a connection out of m_connections.
LEMMA QuietHandler ==
    ASSUME UNCHANGED <<posted, asked, request, timedOut>>,
           srv.at \notin {"tag", "match"}, srv'.at \notin {"tag", "match"},
           \A n \in Calls : \A f \in {"stage", "thread", "fun", "result"} :
               call'[n][f] = call[n][f]
    PROVE  UNCHANGED <<ClientOf, CallerOf, StatusOf, AskedOf, AnswerOf>>
<1>1. \A n \in Calls : (Unsent(n)' <=> Unsent(n)) /\ (Sent(n)' <=> Sent(n))
  BY DEF Unsent, Sent
<1>2. AskedOf' = AskedOf
  BY <1>1, SameRequests
<1> QED
  BY <1>2 DEF ClientOf, CallerOf, StatusOf, AnswerOf, Active

LEMMA WakeCallerRefines ==
    ASSUME IInv, AInv, WakeCaller
    PROVE  UNCHANGED Seen
<1>1. UNCHANGED <<fcb, posted, asked, request, timedOut>> /\ srv.at = "wake"
  BY DEF WakeCaller
<1>2. CASE UNCHANGED <<call, conn, srv>>
  BY <1>1, <1>2, FrozenSeen
<1>3. CASE /\ call' = [call EXCEPT ![srv.call].locked = FALSE]
           /\ conn' = FreeClosing(srv.cd)
           /\ srv' = SrvIdle
  <2>1. /\ call \in [Calls -> CallRecord] /\ srv.call \in Calls /\ srv.cd \in Conns
        /\ conn \in [Conns -> {"open", "closing", "freed"}] /\ srv'.at = "idle"
    BY <1>1, <1>3, NullIsNoCall DEF IInv, TypeOK, ServerHolds, SrvIdle, Doing
  <2>2. \A n \in Calls : \A f \in {"stage", "thread", "fun", "result"} :
          call'[n][f] = call[n][f]
    BY <1>3, <2>1 DEF CallRecord
  <2>3. UNCHANGED OpenConns
    BY <1>3, <2>1 DEF OpenConns, FreeClosing
  <2> QED
    BY <1>1, <2>1, <2>2, <2>3, QuietHandler DEF Seen
<1> QED
  BY <1>2, <1>3 DEF WakeCaller

LEMMA CloseRefines ==
    ASSUME IInv, NEW c \in Conns, Close(c)
    PROVE  Abstract!Close(c)
<1>1. /\ UNCHANGED <<posted, asked, request, call, timedOut>>
      /\ srv.at = "idle" /\ srv'.at = "delete"
      /\ conn[c] = "open" /\ conn' = [conn EXCEPT ![c] = "closing"]
      /\ conn \in [Conns -> {"open", "closing", "freed"}]
  BY DEF Close, ServerIdle, Doing, IInv, TypeOK
<1>2. OpenConns' = OpenConns \ {c} /\ c \in OpenConns
  BY <1>1 DEF OpenConns
<1> QED
  BY <1>1, <1>2, QuietHandler DEF Abstract!Close

LEMMA DeleteConnectionRefines ==
    ASSUME IInv, DeleteConnection
    PROVE  UNCHANGED Seen
<1>1. /\ UNCHANGED <<posted, asked, request, call, timedOut>>
      /\ srv.at = "delete" /\ srv'.at \in {"idle", "detach"} /\ srv.cd \in Conns
      /\ conn' = conn \/ conn' = FreeClosing(srv.cd)
      /\ conn \in [Conns -> {"open", "closing", "freed"}]
  BY DEF DeleteConnection, Doing, SrvIdle, IInv, TypeOK, ServerHolds
<1>2. UNCHANGED OpenConns
  BY <1>1 DEF OpenConns, FreeClosing
<1> QED
  BY <1>1, <1>2, QuietHandler DEF Seen

LEMMA DetachCallRefines ==
    ASSUME IInv, NEW m \in Calls \cup {NoCall}, DetachCall(m)
    PROVE  UNCHANGED Seen
<1>1. /\ UNCHANGED <<fcb, posted, asked, request, timedOut>> /\ srv.at = "detach"
      /\ srv.cd \in Conns /\ call \in [Calls -> CallRecord]
      /\ conn \in [Conns -> {"open", "closing", "freed"}]
  BY DEF DetachCall, IInv, TypeOK, ServerHolds
<1>2. CASE BadObject(m)
  BY <1>1, <1>2, FrozenSeen DEF DetachCall
<1>3. CASE ~BadObject(m)
  <2>1. m \in Calls
    BY <1>3 DEF BadObject
  <2>2. /\ call' = [call EXCEPT ![m].cd = NoConn] \/ call' = call
        /\ srv'.at \in {"idle", "wake"}
        /\ conn' = conn \/ conn' = FreeClosing(srv.cd)
    BY <1>3 DEF DetachCall, SrvIdle, Doing
  <2>3. \A n \in Calls : \A f \in {"stage", "thread", "fun", "result"} :
          call'[n][f] = call[n][f]
    BY <1>1, <2>1, <2>2 DEF CallRecord
  <2>4. UNCHANGED OpenConns
    BY <1>1, <2>2 DEF OpenConns, FreeClosing
  <2> QED
    BY <1>1, <2>2, <2>3, <2>4, QuietHandler DEF Seen
<1> QED
  BY <1>2, <1>3

-----------------------------------------------------------------------------
(* The refinement.                                                         *)

LEMMA StepRefines == IInv /\ AInv /\ [Next]_vars => [Abstract!Next]_Seen
<1> SUFFICES ASSUME IInv, AInv, [Next]_vars PROVE Abstract!Next \/ UNCHANGED Seen
  OBVIOUS
<1>1. IInv'
  BY StepInvariant
<1>2. CASE UNCHANGED vars
  BY <1>2, FrozenSeen DEF vars
<1>3. ASSUME NEW t \in Threads, NEW f \in Callbacks, NEW n \in Calls, Begin(t, f, n)
      PROVE  Abstract!Next
  BY <1>3, BeginRefines, CallbackAssumption DEF Abstract!Next
<1>4. ASSUME NEW n \in Calls, CallerStep(n) \/ Timeout(n)
      PROVE  Abstract!Next \/ UNCHANGED Seen
  BY <1>1, <1>4, PostRefines, TimeoutRefines, CallerRefines DEF CallerStep, Abstract!Next
<1>5. ASSUME NEW c \in Conns, NEW i \in RequestIds, AnswerArrives(c, i)
      PROVE  Abstract!Next \/ UNCHANGED Seen
  BY <1>5, AnswerArrivesRefines DEF Abstract!Next
<1>6. ASSUME NEW c \in Conns, Close(c)
      PROVE  Abstract!Next
  BY <1>6, CloseRefines DEF Abstract!Next
<1>7. ASSUME ServerStep
      PROVE  Abstract!Next \/ UNCHANGED Seen
  BY <1>7, HandleRequestRefines, TagAndSendRefines, WakeCallerRefines,
     DeleteConnectionRefines, MatchAnswerRefines, DetachCallRefines
  DEF ServerStep, Abstract!Next
<1> QED
  BY <1>2, <1>3, <1>4, <1>5, <1>6, <1>7 DEF Next, Step

\* sendAndWaitResult and the handlers of the server thread implement the
\* synchronous call: it returns with an answer, after giving up or when its
\* client is gone, and takes no answer but its own unless another call on its
\* connection has given up or comes from another thread of QUIK.
THEOREM CallbackIsRemoteCall == Spec => ImplementsRemoteCall
<1>1. Init => Abstract!Init
  BY InitRefines
<1>2. IInv /\ AInv /\ [Next]_vars => [Abstract!Next]_(Abstract!vars)
  BY StepRefines DEF Seen, Abstract!vars
<1> QED
  BY <1>1, <1>2, AnswersInvariant, PTL DEF Spec, ImplementsRemoteCall, Abstract!Spec
=============================================================================
