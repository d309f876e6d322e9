-------------------------- MODULE FastCallbackProofs --------------------------
(* Proofs about FastCallback for every set of connections, functions and    *)
(* threads and every number of calls.                                       *)
EXTENDS FastCallback, SequenceTheorems, TLAPS

USE DEF NoCall

\* Changing the stage of a call, and with it one of its flags, keeps its type.
LEMMA CallRecordUpdate ==
    ASSUME NEW r \in CallRecord, NEW s \in Stages, NEW b \in BOOLEAN
    PROVE  /\ [r EXCEPT !.stage = s] \in CallRecord
           /\ [r EXCEPT !.stage = s, !.waitMux = b] \in CallRecord
           /\ [r EXCEPT !.stage = s, !.locked = b] \in CallRecord
  BY DEF CallRecord

\* The server thread changes one field of a call, never its stage or function.
LEMMA WriteId ==
    ASSUME NEW r \in CallRecord, NEW i \in Int
    PROVE  /\ [r EXCEPT !.id = i] \in CallRecord
           /\ [r EXCEPT !.id = i].stage = r.stage
           /\ [r EXCEPT !.id = i].fun = r.fun
           /\ [r EXCEPT !.id = i].cd = r.cd
  BY DEF CallRecord

LEMMA WriteResult ==
    ASSUME NEW r \in CallRecord, NEW k \in Calls
    PROVE  /\ [r EXCEPT !.result = k] \in CallRecord
           /\ [r EXCEPT !.result = k].stage = r.stage
           /\ [r EXCEPT !.result = k].fun = r.fun
           /\ [r EXCEPT !.result = k].cd = r.cd
  BY DEF CallRecord

LEMMA WriteLocked ==
    ASSUME NEW r \in CallRecord, NEW b \in BOOLEAN
    PROVE  /\ [r EXCEPT !.locked = b] \in CallRecord
           /\ [r EXCEPT !.locked = b].stage = r.stage
           /\ [r EXCEPT !.locked = b].fun = r.fun
           /\ [r EXCEPT !.locked = b].cd = r.cd
  BY DEF CallRecord

LEMMA WriteCd ==
    ASSUME NEW r \in CallRecord, NEW c \in Conns \cup {NoConn}
    PROVE  /\ [r EXCEPT !.cd = c] \in CallRecord
           /\ [r EXCEPT !.cd = c].stage = r.stage
           /\ [r EXCEPT !.cd = c].fun = r.fun
  BY DEF CallRecord

\* The end of the destructor frees a connection and opens none.
LEMMA FreeClosingType ==
    ASSUME TypeOK, NEW c \in Conns
    PROVE  /\ FreeClosing(c) \in [Conns -> {"open", "closing", "freed"}]
           /\ \A d \in Conns : FreeClosing(c)[d] = "open" => conn[d] = "open"
  BY DEF TypeOK, FreeClosing

\* The initial state satisfies the invariant.
LEMMA InitInvariant == Init => IInv
<1> SUFFICES ASSUME Init PROVE IInv
  OBVIOUS
<1> USE DEF Init
<1>1. NoObject \in CallRecord
  BY DEF NoObject, CallRecord, Stages
<1>2. TypeOK
  BY <1>1, EmptySeq DEF TypeOK, SrvIdle, Doing, ServerRecord, ServerSteps
<1>3. ServerHolds
  BY DEF ServerHolds, SrvIdle, Doing
<1>4. CallHolds /\ PointerIsLive
  BY DEF CallHolds, PointerIsLive, Active, ActiveStages, NoObject
<1> QED
  BY <1>2, <1>3, <1>4 DEF IInv

LEMMA InstallInvariant ==
    ASSUME IInv, NEW n \in Calls, Install(n)
    PROVE  IInv'
<1> USE DEF IInv, TypeOK, Install
<1>1. call' \in [Calls -> CallRecord]
  <2>1. [call[n] EXCEPT !.stage = "post", !.waitMux = TRUE] \in CallRecord
    BY CallRecordUpdate DEF Stages
  <2>2. call' = [call EXCEPT ![n] = [call[n] EXCEPT !.stage = "post", !.waitMux = TRUE]]
    OBVIOUS
  <2> QED
    BY <2>1, <2>2
<1>2. TypeOK'
  BY <1>1
<1>3. ServerHolds'
  BY DEF ServerHolds
<1>4. CallHolds'
  BY DEF CallHolds, Active, Stages, ActiveStages, CallRecord
<1>5. PointerIsLive'
  <2> SUFFICES ASSUME NEW c \in Conns, conn'[c] = "open", fcb'[c] # NoCall
               PROVE  /\ Active(fcb[c])'
                      /\ call'[fcb'[c]].stage # "install"
                      /\ call'[fcb'[c]].cd = c
    BY DEF PointerIsLive
  <2>1. CASE fcb'[c] = n
    <3>1. call[n].cd = c
      BY <2>1 DEF PointerIsLive
    <3> QED
      BY <2>1, <3>1 DEF Active, Stages, ActiveStages, CallRecord
  <2>2. CASE fcb'[c] # n
    <3>1. fcb'[c] = fcb[c] /\ fcb[c] \in Calls
      BY <2>2
    <3>2. call'[fcb[c]] = call[fcb[c]]
      BY <2>2, <3>1
    <3> QED
      BY <3>1, <3>2 DEF PointerIsLive, Active
  <2> QED
    BY <2>1, <2>2
<1> QED
  BY <1>2, <1>3, <1>4, <1>5

LEMMA PostInvariant ==
    ASSUME IInv, NEW n \in Calls, Post(n)
    PROVE  IInv'
<1> USE DEF IInv, TypeOK, Post
<1>1. call' \in [Calls -> CallRecord]
  <2>1. [call[n] EXCEPT !.stage = "lock"] \in CallRecord
    BY CallRecordUpdate DEF Stages
  <2>2. call' = [call EXCEPT ![n] = [call[n] EXCEPT !.stage = "lock"]]
    OBVIOUS
  <2> QED
    BY <2>1, <2>2
<1>2. TypeOK'
  <2>1. [cd |-> call[n].cd, fun |-> call[n].fun, call |-> n] \in Event
    BY DEF Event, CallRecord, CallHolds, Active, ActiveStages, Stages
  <2> QED
    BY <1>1, <2>1, AppendProperties
<1>3. ServerHolds'
  BY DEF ServerHolds
<1>4. CallHolds'
  BY DEF CallHolds, Active, Stages, ActiveStages, CallRecord
<1>5. PointerIsLive'
  BY DEF PointerIsLive, Active, Stages, ActiveStages, CallRecord
<1> QED
  BY <1>2, <1>3, <1>4, <1>5

LEMMA LockInvariant ==
    ASSUME IInv, NEW n \in Calls, Lock(n)
    PROVE  IInv'
<1> USE DEF IInv, TypeOK, Lock
<1>1. call' \in [Calls -> CallRecord]
  <2>1. [call[n] EXCEPT !.stage = "wait", !.locked = TRUE] \in CallRecord
    BY CallRecordUpdate DEF Stages
  <2>2. call' = [call EXCEPT ![n] = [call[n] EXCEPT !.stage = "wait", !.locked = TRUE]]
    OBVIOUS
  <2> QED
    BY <2>1, <2>2
<1>2. TypeOK'
  BY <1>1
<1>3. ServerHolds'
  BY DEF ServerHolds
<1>4. CallHolds'
  BY DEF CallHolds, Active, Stages, ActiveStages, CallRecord
<1>5. PointerIsLive'
  BY DEF PointerIsLive, Active, Stages, ActiveStages, CallRecord
<1> QED
  BY <1>2, <1>3, <1>4, <1>5

LEMMA WokenInvariant ==
    ASSUME IInv, NEW n \in Calls, Woken(n)
    PROVE  IInv'
<1> USE DEF IInv, TypeOK, Woken
<1>1. call' \in [Calls -> CallRecord]
  <2>1. [call[n] EXCEPT !.stage = "clear", !.locked = TRUE] \in CallRecord
    BY CallRecordUpdate DEF Stages
  <2>2. call' = [call EXCEPT ![n] = [call[n] EXCEPT !.stage = "clear", !.locked = TRUE]]
    OBVIOUS
  <2> QED
    BY <2>1, <2>2
<1>2. TypeOK'
  BY <1>1
<1>3. ServerHolds'
  BY DEF ServerHolds
<1>4. CallHolds'
  BY DEF CallHolds, Active, Stages, ActiveStages, CallRecord
<1>5. PointerIsLive'
  BY DEF PointerIsLive, Active, Stages, ActiveStages, CallRecord
<1> QED
  BY <1>2, <1>3, <1>4, <1>5

LEMMA TimeoutInvariant ==
    ASSUME IInv, NEW n \in Calls, Timeout(n)
    PROVE  IInv'
<1> USE DEF IInv, TypeOK, Timeout
<1>1. call' \in [Calls -> CallRecord]
  <2>1. [call[n] EXCEPT !.stage = "clear"] \in CallRecord
    BY CallRecordUpdate DEF Stages
  <2>2. call' = [call EXCEPT ![n] = [call[n] EXCEPT !.stage = "clear"]]
    OBVIOUS
  <2> QED
    BY <2>1, <2>2
<1>2. TypeOK'
  BY <1>1
<1>3. ServerHolds'
  BY DEF ServerHolds
<1>4. CallHolds'
  BY DEF CallHolds, Active, Stages, ActiveStages, CallRecord
<1>5. PointerIsLive'
  BY DEF PointerIsLive, Active, Stages, ActiveStages, CallRecord
<1> QED
  BY <1>2, <1>3, <1>4, <1>5

LEMMA ClearWaitMuxInvariant ==
    ASSUME IInv, NEW n \in Calls, ClearWaitMux(n)
    PROVE  IInv'
<1> USE DEF IInv, TypeOK, ClearWaitMux
<1>1. call' \in [Calls -> CallRecord]
  <2>1. [call[n] EXCEPT !.stage = "unlock", !.waitMux = FALSE] \in CallRecord
    BY CallRecordUpdate DEF Stages
  <2>2. call' = [call EXCEPT ![n] = [call[n] EXCEPT !.stage = "unlock", !.waitMux = FALSE]]
    OBVIOUS
  <2> QED
    BY <2>1, <2>2
<1>2. TypeOK'
  BY <1>1
<1>3. ServerHolds'
  BY DEF ServerHolds
<1>4. CallHolds'
  BY DEF CallHolds, Active, Stages, ActiveStages, CallRecord
<1>5. PointerIsLive'
  BY DEF PointerIsLive, Active, Stages, ActiveStages, CallRecord
<1> QED
  BY <1>2, <1>3, <1>4, <1>5

LEMMA UnlockInvariant ==
    ASSUME IInv, NEW n \in Calls, Unlock(n)
    PROVE  IInv'
<1> USE DEF IInv, TypeOK, Unlock
<1>1. call' \in [Calls -> CallRecord]
  <2>1. [call[n] EXCEPT !.stage = "detach", !.locked = FALSE] \in CallRecord
    BY CallRecordUpdate DEF Stages
  <2>2. call' = [call EXCEPT ![n] = [call[n] EXCEPT !.stage = "detach", !.locked = FALSE]]
    OBVIOUS
  <2> QED
    BY <2>1, <2>2
<1>2. TypeOK'
  BY <1>1
<1>3. ServerHolds'
  BY DEF ServerHolds
<1>4. CallHolds'
  BY DEF CallHolds, Active, Stages, ActiveStages, CallRecord
<1>5. PointerIsLive'
  BY DEF PointerIsLive, Active, Stages, ActiveStages, CallRecord
<1> QED
  BY <1>2, <1>3, <1>4, <1>5

LEMMA TestConnectionInvariant ==
    ASSUME IInv, NEW n \in Calls, TestConnection(n)
    PROVE  IInv'
<1> USE DEF IInv, TypeOK, TestConnection
<1>1. call' \in [Calls -> CallRecord]
  <2> DEFINE s == IF call[n].cd = NoConn THEN "returned" ELSE "reset"
  <2>1. [call[n] EXCEPT !.stage = s] \in CallRecord
    BY CallRecordUpdate DEF Stages
  <2>2. call' = [call EXCEPT ![n] = [call[n] EXCEPT !.stage = s]]
    OBVIOUS
  <2> QED
    BY <2>1, <2>2
<1>2. TypeOK'
  BY <1>1
<1>3. ServerHolds'
  BY DEF ServerHolds
<1>4. CallHolds'
  BY DEF CallHolds, Active, Stages, ActiveStages, CallRecord
<1>5. PointerIsLive'
  <2> SUFFICES ASSUME NEW c \in Conns, conn'[c] = "open", fcb'[c] # NoCall
               PROVE  /\ Active(fcb[c])'
                      /\ call'[fcb'[c]].stage # "install"
                      /\ call'[fcb'[c]].cd = c
    BY DEF PointerIsLive
  <2>1. CASE fcb[c] = n
    <3>1. call[n].cd = c /\ c # NoConn
      BY <2>1, ConnAssumption DEF PointerIsLive
    <3> QED
      BY <2>1, <3>1 DEF Active, Stages, ActiveStages, CallRecord
  <2>2. CASE fcb[c] # n
    <3>1. fcb[c] \in Calls /\ call'[fcb[c]] = call[fcb[c]]
      BY <2>2
    <3> QED
      BY <3>1 DEF PointerIsLive, Active
  <2> QED
    BY <2>1, <2>2
<1> QED
  BY <1>2, <1>3, <1>4, <1>5

LEMMA ResetAndReturnInvariant ==
    ASSUME IInv, NEW n \in Calls, ResetAndReturn(n)
    PROVE  IInv'
<1> USE DEF IInv, TypeOK, ResetAndReturn
<1>1. call' \in [Calls -> CallRecord]
  <2>1. [call[n] EXCEPT !.stage = "returned"] \in CallRecord
    BY CallRecordUpdate DEF Stages
  <2>2. call' = [call EXCEPT ![n] = [call[n] EXCEPT !.stage = "returned"]]
    OBVIOUS
  <2> QED
    BY <2>1, <2>2
<1>2. TypeOK'
  BY <1>1
<1>3. ServerHolds'
  BY DEF ServerHolds
<1>4. CallHolds'
  BY DEF CallHolds, Active, Stages, ActiveStages, CallRecord
<1>5. PointerIsLive'
  <2> SUFFICES ASSUME NEW c \in Conns, conn'[c] = "open", fcb'[c] # NoCall
               PROVE  /\ Active(fcb[c])'
                      /\ call'[fcb'[c]].stage # "install"
                      /\ call'[fcb'[c]].cd = c
    BY DEF PointerIsLive
  <2>1. CASE fcb[c] = n
    <3>1. call[n].cd = c /\ c # NoConn /\ conn[c] # "freed"
      BY <2>1, ConnAssumption DEF PointerIsLive
    <3>2. fcb'[c] = NoCall
      BY <3>1
    <3> QED
      BY <3>2
  <2>2. CASE fcb[c] # n
    <3>1. fcb'[c] = fcb[c] /\ fcb[c] \in Calls
      OBVIOUS
    <3>2. call'[fcb[c]] = call[fcb[c]]
      BY <2>2, <3>1
    <3> QED
      BY <3>1, <3>2 DEF PointerIsLive, Active
  <2> QED
    BY <2>1, <2>2
<1> QED
  BY <1>2, <1>3, <1>4, <1>5

LEMMA BeginInvariant ==
    ASSUME IInv, NEW t \in Threads, NEW f \in Callbacks, NEW n \in Calls,
           Begin(t, f, n)
    PROVE  IInv'
<1> USE DEF IInv, TypeOK, Begin
<1>1. call' \in [Calls -> CallRecord]
  BY CallbackAssumption, GarbageAssumption DEF CallRecord, Stages
<1>2. TypeOK'
  BY <1>1
<1>3. ServerHolds'
  BY DEF ServerHolds
<1>4. CallHolds'
  BY DEF CallHolds, Active, Stages, ActiveStages, CallRecord
<1>5. PointerIsLive'
  BY DEF PointerIsLive, Active, Stages, ActiveStages, CallRecord
<1> QED
  BY <1>2, <1>3, <1>4, <1>5

LEMMA HandleRequestInvariant ==
    ASSUME IInv, HandleRequest
    PROVE  IInv'
<1> USE DEF IInv, TypeOK, HandleRequest
<1> DEFINE ev == Head(posted)
<1>1. ev \in Event /\ Tail(posted) \in Seq(Event)
  BY HeadTailProperties
<1>2. CallHolds' /\ PointerIsLive'
  BY DEF CallHolds, PointerIsLive, Active
<1>3. CASE ev.cd # NoConn /\ conn[ev.cd] = "open"
  <2>1. ev.cd \in Conns /\ ev.call \in Calls
    BY <1>1, <1>3 DEF Event
  <2> DEFINE rs == Append(request[ev.cd], ev.call)
  <2>2. /\ request' = [request EXCEPT ![ev.cd] = rs]
        /\ srv' = Doing("tag", ev.cd, fcb[ev.cd], NextRequestId(ev.cd))
    BY <1>3
  <2>3. /\ rs \in Seq(Calls)
        /\ DOMAIN request[ev.cd] \subseteq DOMAIN rs
        /\ NextRequestId(ev.cd) \in DOMAIN rs
        /\ NextRequestId(ev.cd) \in Nat
    BY <2>1, AppendProperties DEF NextRequestId
  <2>4. TypeOK'
    BY <1>1, <2>1, <2>2, <2>3 DEF Doing, ServerRecord, ServerSteps
  <2>5. ServerHolds'
    BY <2>1, <2>2, <2>3 DEF ServerHolds, Doing
  <2> QED
    BY <1>2, <2>4, <2>5
<1>4. CASE ~(ev.cd # NoConn /\ conn[ev.cd] = "open")
  <2>1. TypeOK'
    BY <1>1, <1>4
  <2>2. ServerHolds'
    BY <1>4 DEF ServerHolds
  <2> QED
    BY <1>2, <2>1, <2>2
<1> QED
  BY <1>3, <1>4

LEMMA TagAndSendInvariant ==
    ASSUME IInv, TagAndSend
    PROVE  IInv'
<1> USE DEF IInv, TypeOK, TagAndSend
<1> DEFINE m == srv.call
<1>1. srv.cd \in Conns /\ srv.id \in DOMAIN request[srv.cd]
      /\ srv.id \in Nat \ {0}
  BY DEF ServerHolds
<1>2. CASE BadObject(m)
  <2>1. TypeOK'
    BY <1>2 DEF BadObjectKind
  <2>2. ServerHolds' /\ CallHolds' /\ PointerIsLive'
    BY <1>2 DEF ServerHolds, CallHolds, PointerIsLive, Active
  <2> QED
    BY <2>1, <2>2
<1>3. CASE ~BadObject(m)
  <2>1. m \in Calls
    BY <1>3 DEF BadObject, ServerRecord
  <2>2. call' = call \/ call' = [call EXCEPT ![m] = [call[m] EXCEPT !.id = srv.id]]
    BY <1>3
  <2>3. [call[m] EXCEPT !.id = srv.id] \in CallRecord
    BY <1>1, <2>1, WriteId
  <2>4. /\ call' \in [Calls -> CallRecord]
        /\ \A n \in Calls : /\ call'[n].stage = call[n].stage
                            /\ call'[n].fun = call[n].fun
                            /\ call'[n].cd = call[n].cd
    <3>1. CASE call' = call
      BY <3>1
    <3>2. CASE call' = [call EXCEPT ![m] = [call[m] EXCEPT !.id = srv.id]]
      BY <2>1, <2>3, <3>2, WriteId
    <3> QED
      BY <2>2, <3>1, <3>2
  <2>5. asked' = [asked EXCEPT ![srv.cd] = @ \cup {srv.id}] /\ srv' = SrvIdle
    BY <1>3
  <2>6. TypeOK'
    BY <1>1, <1>3, <2>4, <2>5 DEF SrvIdle, Doing, ServerRecord, ServerSteps
  <2>7. ServerHolds'
    BY <1>1, <2>5 DEF ServerHolds, SrvIdle, Doing
  <2>8. CallHolds' /\ PointerIsLive'
    BY <2>4 DEF CallHolds, PointerIsLive, Active
  <2> QED
    BY <2>6, <2>7, <2>8
<1> QED
  BY <1>2, <1>3

LEMMA AnswerArrivesInvariant ==
    ASSUME IInv, NEW c \in Conns, NEW i \in RequestIds,
           AnswerArrives(c, i)
    PROVE  IInv'
<1> USE DEF IInv, TypeOK, AnswerArrives
<1>1. TypeOK'
  BY DEF SrvIdle, Doing, ServerRecord, ServerSteps
<1>2. ServerHolds'
  BY DEF ServerHolds, SrvIdle, Doing
<1>3. CallHolds'
  BY DEF CallHolds, Active, Stages, ActiveStages, CallRecord
<1>4. PointerIsLive'
  BY DEF PointerIsLive, Active, Stages, ActiveStages, CallRecord
<1> QED
  BY <1>1, <1>2, <1>3, <1>4

LEMMA MatchAnswerInvariant ==
    ASSUME IInv, NEW m \in Calls \cup {NoCall}, MatchAnswer(m)
    PROVE  IInv'
<1> USE DEF IInv, TypeOK, MatchAnswer
<1> DEFINE k == request[srv.cd][srv.id]
<1>1. srv.cd \in Conns /\ k \in Calls
  BY DEF ServerHolds
<1>2. CASE BadObject(m)
  <2>1. TypeOK'
    BY <1>2 DEF BadObjectKind
  <2>2. ServerHolds' /\ CallHolds' /\ PointerIsLive'
    BY <1>2 DEF ServerHolds, CallHolds, PointerIsLive, Active
  <2> QED
    BY <2>1, <2>2
<1>3. CASE ~BadObject(m)
  <2>1. m \in Calls
    BY <1>3 DEF BadObject, ServerRecord
  <2>2. call' = call \/ call' = [call EXCEPT ![m] = [call[m] EXCEPT !.result = k]]
    BY <1>3
  <2>3. [call[m] EXCEPT !.result = k] \in CallRecord
    BY <1>1, <2>1, WriteResult
  <2>4. /\ call' \in [Calls -> CallRecord]
        /\ \A n \in Calls : /\ call'[n].stage = call[n].stage
                            /\ call'[n].fun = call[n].fun
                            /\ call'[n].cd = call[n].cd
    <3>1. CASE call' = call
      BY <3>1
    <3>2. CASE call' = [call EXCEPT ![m] = [call[m] EXCEPT !.result = k]]
      BY <2>1, <2>3, <3>2, WriteResult
    <3> QED
      BY <2>2, <3>1, <3>2
  <2>5. srv' = SrvIdle \/ srv' = Doing("wake", srv.cd, m, srv.id)
    BY <1>3
  <2>6. TypeOK'
    BY <1>3, <2>1, <2>4, <2>5 DEF Doing, SrvIdle, ServerRecord, ServerSteps
  <2>7. ServerHolds'
    BY <1>1, <2>1, <2>5 DEF Doing, SrvIdle, ServerRecord, ServerSteps, ServerHolds
  <2>8. CallHolds' /\ PointerIsLive'
    BY <2>4 DEF CallHolds, PointerIsLive, Active
  <2> QED
    BY <2>6, <2>7, <2>8
<1> QED
  BY <1>2, <1>3

LEMMA WakeCallerInvariant ==
    ASSUME IInv, WakeCaller
    PROVE  IInv'
<1> USE DEF IInv, TypeOK, WakeCaller
<1> DEFINE m == srv.call
<1>1. srv.cd \in Conns /\ m \in Calls
  BY DEF ServerHolds
<1>2. CASE UNCHANGED <<call, conn, srv>>
  <2>1. TypeOK'
    BY <1>2
  <2>2. ServerHolds' /\ CallHolds' /\ PointerIsLive'
    BY <1>2 DEF ServerHolds, CallHolds, PointerIsLive, Active
  <2> QED
    BY <2>1, <2>2
<1>3. CASE /\ call' = [call EXCEPT ![m].locked = FALSE]
           /\ conn' = FreeClosing(srv.cd)
           /\ srv' = SrvIdle
           /\ UNCHANGED ub
  <2>1. call' = [call EXCEPT ![m] = [call[m] EXCEPT !.locked = FALSE]]
    BY <1>3
  <2>2. [call[m] EXCEPT !.locked = FALSE] \in CallRecord
    BY <1>1, WriteLocked
  <2>3. /\ call' \in [Calls -> CallRecord]
        /\ \A n \in Calls : /\ call'[n].stage = call[n].stage
                            /\ call'[n].fun = call[n].fun
                            /\ call'[n].cd = call[n].cd
    BY <1>1, <2>1, <2>2, WriteLocked
  <2>4. TypeOK'
    BY <1>1, <1>3, <2>3 DEF SrvIdle, Doing, ServerRecord, ServerSteps, FreeClosing
  <2>5. ServerHolds'
    BY <1>3 DEF ServerHolds, SrvIdle, Doing
  <2>6. \A c \in Conns : conn'[c] = "open" => conn[c] = "open"
    BY <1>1, <1>3 DEF FreeClosing
  <2>7. CallHolds'
    BY <2>3 DEF CallHolds, Active
  <2>8. fcb' = fcb
    OBVIOUS
  <2>9. PointerIsLive'
    <3> HIDE DEF WakeCaller
    <3> QED
      BY <2>3, <2>6, <2>8 DEF PointerIsLive, Active
  <2> QED
    BY <2>4, <2>5, <2>7, <2>9
<1> QED
  BY <1>2, <1>3

LEMMA CloseInvariant ==
    ASSUME IInv, NEW c \in Conns, Close(c)
    PROVE  IInv'
<1> USE DEF IInv, TypeOK, Close
<1>1. TypeOK'
  BY DEF SrvIdle, Doing, ServerRecord, ServerSteps
<1>2. ServerHolds'
  BY DEF ServerHolds, SrvIdle, Doing
<1>3. CallHolds'
  BY DEF CallHolds, Active, Stages, ActiveStages, CallRecord
<1>4. PointerIsLive'
  BY DEF PointerIsLive, Active, Stages, ActiveStages, CallRecord
<1> QED
  BY <1>1, <1>2, <1>3, <1>4

LEMMA DeleteConnectionInvariant ==
    ASSUME IInv, DeleteConnection
    PROVE  IInv'
<1> USE DEF IInv, TypeOK, DeleteConnection
<1>1. srv.cd \in Conns /\ conn[srv.cd] = "closing"
  BY DEF ServerHolds
<1>2. TypeOK'
  BY <1>1, FreeClosingType DEF Doing, SrvIdle, ServerRecord, ServerSteps
<1>3. ServerHolds'
  BY <1>1 DEF Doing, SrvIdle, ServerRecord, ServerSteps, ServerHolds
<1>4. \A c \in Conns : conn'[c] = "open" => conn[c] = "open"
  BY <1>1 DEF FreeClosing
<1>5. CallHolds' /\ PointerIsLive'
  BY <1>4 DEF CallHolds, PointerIsLive, Active
<1> QED
  BY <1>2, <1>3, <1>5

LEMMA DetachCallInvariant ==
    ASSUME IInv, NEW m \in Calls \cup {NoCall}, DetachCall(m)
    PROVE  IInv'
<1> USE DEF IInv, TypeOK, DetachCall
<1>1. srv.cd \in Conns /\ conn[srv.cd] = "closing"
  BY DEF ServerHolds
<1>2. CASE BadObject(m)
  <2>1. TypeOK'
    BY <1>2 DEF BadObjectKind
  <2>2. ServerHolds' /\ CallHolds' /\ PointerIsLive'
    BY <1>2 DEF ServerHolds, CallHolds, PointerIsLive, Active
  <2> QED
    BY <2>1, <2>2
<1>3. CASE ~BadObject(m)
  <2>1. m \in Calls
    BY <1>3 DEF BadObject, ServerRecord
  <2>2. \/ call' = call
        \/ /\ call[m].cd = srv.cd
           /\ call' = [call EXCEPT ![m] = [call[m] EXCEPT !.cd = NoConn]]
    BY <1>3
  <2>3. [call[m] EXCEPT !.cd = NoConn] \in CallRecord
    BY <2>1, WriteCd
  <2>4. /\ call' \in [Calls -> CallRecord]
        /\ \A n \in Calls : /\ call'[n].stage = call[n].stage
                            /\ call'[n].fun = call[n].fun
                            /\ call[n].cd # srv.cd => call'[n].cd = call[n].cd
    <3>1. CASE call' = call
      BY <3>1
    <3>2. CASE call[m].cd = srv.cd /\ call' = [call EXCEPT ![m] = [call[m] EXCEPT !.cd = NoConn]]
      BY <2>1, <2>3, <3>2, WriteCd
    <3> QED
      BY <2>2, <3>1, <3>2
  <2>5. \/ srv' = Doing("wake", srv.cd, m, srv.id) /\ conn' = conn
        \/ srv' = SrvIdle /\ conn' = FreeClosing(srv.cd)
    BY <1>3
  <2>6. TypeOK'
    BY <1>1, <1>3, <2>1, <2>4, <2>5, FreeClosingType
    DEF Doing, SrvIdle, ServerRecord, ServerSteps
  <2>7. ServerHolds'
    BY <1>1, <2>1, <2>5 DEF Doing, SrvIdle, ServerRecord, ServerSteps, ServerHolds
  <2>8. \A c \in Conns : conn'[c] = "open" => conn[c] = "open" /\ c # srv.cd
    BY <1>1, <2>5 DEF FreeClosing
  <2>9. CallHolds' /\ PointerIsLive'
    BY <2>4, <2>8 DEF CallHolds, PointerIsLive, Active
  <2> QED
    BY <2>6, <2>7, <2>9
<1> QED
  BY <1>2, <1>3

\* A step that changes nothing.
LEMMA StutterInvariant ==
    ASSUME IInv, UNCHANGED vars
    PROVE  IInv'
  BY DEF vars, IInv, TypeOK, ServerHolds, CallHolds, PointerIsLive, Active

\* The invariant is inductive: every step of either thread, of a client or of
\* a socket preserves it.
LEMMA StepInvariant == IInv /\ [Next]_vars => IInv'
<1> SUFFICES ASSUME IInv, [Next]_vars PROVE IInv'
  OBVIOUS
<1>1. CASE UNCHANGED vars
  BY <1>1, StutterInvariant
<1>2. ASSUME NEW t \in Threads, NEW f \in Callbacks, NEW n \in Calls,
             Begin(t, f, n)
      PROVE  IInv'
  BY <1>2, BeginInvariant
<1>3. ASSUME NEW n \in Calls, CallerStep(n) \/ Timeout(n)
      PROVE  IInv'
  BY <1>3, InstallInvariant, PostInvariant, LockInvariant, WokenInvariant,
     TimeoutInvariant, ClearWaitMuxInvariant, UnlockInvariant,
     TestConnectionInvariant, ResetAndReturnInvariant DEF CallerStep
<1>4. ASSUME NEW c \in Conns, NEW i \in RequestIds, AnswerArrives(c, i)
      PROVE  IInv'
  BY <1>4, AnswerArrivesInvariant
<1>5. ASSUME NEW c \in Conns, Close(c)
      PROVE  IInv'
  BY <1>5, CloseInvariant
<1>6. ASSUME ServerStep
      PROVE  IInv'
  BY <1>6, HandleRequestInvariant, TagAndSendInvariant, WakeCallerInvariant,
     DeleteConnectionInvariant, MatchAnswerInvariant, DetachCallInvariant
     DEF ServerStep
<1> QED
  BY <1>1, <1>2, <1>3, <1>4, <1>5, <1>6 DEF Next, Step

\* The inductive invariant holds in every reachable state.
THEOREM InductiveInvariant == Spec => []IInv
  BY InitInvariant, StepInvariant, PTL DEF Spec

\* Every variable keeps its type.
THEOREM TypeCorrect == Spec => []TypeOK
<1>1. IInv => TypeOK
  BY DEF IInv
<1> QED
  BY <1>1, InductiveInvariant, PTL

\* fcbWaitResult of an open connection never dangles: the server thread that
\* reads it finds null or an object that exists at that moment.
THEOREM NoDanglingPointer == Spec => []PointerIsLive
<1>1. IInv => PointerIsLive
  BY DEF IInv
<1> QED
  BY <1>1, InductiveInvariant, PTL

-----------------------------------------------------------------------------
(* What the program knows of the request of a call: the event posted for   *)
(* it, the entry it has in request and asked once the server has sent it,   *)
(* and the handler that is at work on it.                                   *)
Posted(n) == \E k \in DOMAIN posted : posted[k].call = n
Requested(n) == \E c \in Conns : \E i \in DOMAIN request[c] : request[c][i] = n
Awaited(n) == \E c \in Conns : \E i \in asked[c] : request[c][i] = n
Handled(n) == srv.at \in {"tag", "match"} /\ request[srv.cd][srv.id] = n
Outstanding(n) == Posted(n) \/ Awaited(n) \/ Handled(n)

\* The connection that registered the function of call n is still open.
Open(n) == conn[Connection(n)] = "open"

\* Every other call on the connection of n came from the thread of n and was
\* not given up.
Quiet(n) == \A m \in Calls :
    m # n /\ Begun(m) /\ Connection(m) = Connection(n) =>
        call[m].thread = call[n].thread /\ m \notin timedOut

Early == {"none", "install", "post"}
Late == {"clear", "unlock", "detach", "reset", "returned"}

\* Each call is posted once, after it was installed, and becomes one request
\* of its own connection.
PostedOnce ==
    /\ \A n \in Calls : call[n].stage \in Early => ~Posted(n) /\ ~Requested(n)
    /\ \A j, k \in DOMAIN posted : posted[j].call = posted[k].call => j = k
    /\ \A n \in Calls : Posted(n) => ~Requested(n)
RequestedOnce ==
    \A c, d \in Conns : \A i \in DOMAIN request[c], j \in DOMAIN request[d] :
        request[c][i] = request[d][j] => c = d /\ i = j
RightConnection ==
    /\ \A n \in Calls : Begun(n) =>
         /\ call[n].fun \in Callbacks
         /\ call[n].cd \in {Connection(n), NoConn}
         /\ Open(n) => call[n].cd = Connection(n)
    /\ \A k \in DOMAIN posted :
         /\ posted[k].cd \in {Connection(posted[k].call), NoConn}
         /\ Open(posted[k].call) => posted[k].cd = Connection(posted[k].call)
    /\ \A c \in Conns : \A i \in DOMAIN request[c] : Connection(request[c][i]) = c

\* What the handlers of the server thread rely on.
HandlersHold ==
    /\ srv.at \in {"tag", "match"} => conn[srv.cd] = "open" /\ srv.id \notin asked[srv.cd]
    /\ srv.at \in {"tag", "match", "detach", "wake"} /\ srv.call # NoCall =>
         call[srv.call].stage \notin {"none", "install"}
    /\ \A c \in Conns : fcb[c] # NoCall => call[fcb[c]].stage \notin {"none", "install"}
    /\ srv.at = "tag" => srv.id = Len(request[srv.cd])

\* A thread makes one call at a time, and no handler runs while the server
\* thread makes one, so that its own calls end by their timeout.
Turns ==
    /\ srv.at # "idle" => ~Busy(ServerThread)
    /\ \A m, n \in Calls :
         Active(m) /\ Active(n) /\ call[m].thread = call[n].thread => m = n
ServerCall(n) ==
    Begun(n) /\ call[n].thread = ServerThread =>
        /\ call[n].stage = "wait" => call[n].locked
        /\ call[n].stage \in Late => n \in timedOut
        /\ call[n].result = NoCall

\* Why call n may end its wait.
Excused(n) == call[n].result # NoCall \/ ~Open(n)
MayEnd(n) ==
    /\ call[n].stage = "wait" /\ ~call[n].locked => Excused(n)
    /\ call[n].stage \in Late => n \in timedOut \/ Excused(n)
WakeIsExcused == srv.at = "wake" => Excused(srv.call)

\* A request is over when its answer has been given to a call.
AnswersAreFinal ==
    \A n \in Calls : call[n].result # NoCall =>
        /\ Begun(n)
        /\ ~Outstanding(call[n].result)
        /\ call[call[n].result].stage \notin Early

\* While a call waits that nobody disturbs, only its own request is out,
\* the connection points to it and its id is that of the request.
OneRequest ==
    \A m, n \in Calls :
        /\ Active(n) /\ Quiet(n)
        /\ m # n /\ Begun(m) /\ Connection(m) = Connection(n)
        => ~Outstanding(m)
PointerIsMine ==
    \A n \in Calls :
        Active(n) /\ call[n].stage # "install" /\ Quiet(n) /\ Open(n)
            => fcb[Connection(n)] = n
HandlerIsMine ==
    \A n \in Calls :
        Active(n) /\ Quiet(n) /\ Handled(n) => srv.call = n
IdIsMine ==
    \A n \in Calls, c \in Conns : \A i \in DOMAIN request[c] :
        /\ Active(n) /\ Quiet(n)
        /\ i \in asked[c] \/ (srv.at = "match" /\ srv.cd = c /\ srv.id = i)
        /\ request[c][i] = n
        => call[n].id = i

\* A call that nobody disturbs ends its wait once, after its answer.
Disturbed(n) == \E m \in Calls : Disturbs(m, n)
Done(n) == \/ call[n].stage = "wait" /\ ~call[n].locked
           \/ call[n].stage \in Late
Calm(n) ==
    Begun(n) /\ ~Disturbed(n) /\ n \notin timedOut /\ Open(n) =>
        /\ Done(n) => ~Outstanding(n) /\ ~(srv.at = "wake" /\ srv.call = n)
        /\ call[n].stage \in {"clear", "unlock"} => call[n].locked
Flag(n) == call[n].stage \in {"post", "lock", "wait"} => call[n].waitMux

CallInv(n) == ServerCall(n) /\ MayEnd(n) /\ Calm(n) /\ Flag(n)

AInv == /\ PostedOnce /\ RequestedOnce /\ RightConnection /\ HandlersHold
        /\ Turns /\ WakeIsExcused /\ StrayAnswersHaveCause /\ AnswersAreFinal
        /\ OneRequest
        /\ PointerIsMine /\ HandlerIsMine /\ IdIsMine
        /\ \A n \in Calls : CallInv(n)

-----------------------------------------------------------------------------
(* What every step keeps.                                                  *)

\* Calls, timeouts and closed connections are never undone.
Grows ==
    /\ \A n \in Calls : Begun(n) =>
         Begun(n)' /\ Connection(n)' = Connection(n) /\ call'[n].thread = call[n].thread
    /\ timedOut \subseteq timedOut'
    /\ \A c \in Conns : conn'[c] = "open" => conn[c] = "open"

\* The calls that events and requests stand for have begun.
LEMMA CallsBehind ==
    ASSUME TypeOK, PostedOnce
    PROVE  /\ \A k \in DOMAIN posted :
                /\ posted[k] \in Event /\ posted[k].call \in Calls
                /\ Posted(posted[k].call) /\ Begun(posted[k].call)
           /\ \A c \in Conns : \A i \in DOMAIN request[c] :
                request[c][i] \in Calls /\ Begun(request[c][i])
<1>1. \A k \in DOMAIN posted : posted[k] \in Event /\ posted[k].call \in Calls
  <2>1. posted \in Seq(Event) /\ DOMAIN posted = 1..Len(posted)
    BY DEF TypeOK
  <2>2. \A k \in DOMAIN posted : posted[k] \in Event
    BY <2>1, ElementOfSeq
  <2> QED
    BY <2>2 DEF Event
<1>2. \A k \in DOMAIN posted : Posted(posted[k].call)
  BY DEF Posted
<1>3. \A c \in Conns : \A i \in DOMAIN request[c] :
        request[c][i] \in Calls /\ Requested(request[c][i])
  BY DEF TypeOK, Requested
<1>4. \A n \in Calls : Posted(n) \/ Requested(n) => Begun(n)
  BY DEF PostedOnce, Begun, Early
<1> QED
  BY <1>1, <1>2, <1>3, <1>4

LEMMA OnlyRequested ==
    ASSUME IInv, NEW n
    PROVE  Awaited(n) \/ Handled(n) => Requested(n)
  BY DEF IInv, ServerHolds, Awaited, Handled, Requested

LEMMA NullIsNoCall == NoCall \notin Calls
  BY MaxCallsAssumption DEF Calls

LEMMA ConnectionType ==
    ASSUME RightConnection, NEW n \in Calls, Begun(n)
    PROVE  Connection(n) \in Conns
  BY CallbackAssumption DEF RightConnection, Connection

\* A call that is undisturbed after a step was so before it.
LEMMA UndisturbedBefore ==
    ASSUME RightConnection, Grows, NEW n \in Calls, Begun(n)
    PROVE  /\ Quiet(n)' => Quiet(n)
           /\ ~Disturbed(n)' => ~Disturbed(n)
           /\ Open(n)' => Open(n)
<1>1. \A m \in Calls : Begun(m) =>
         Begun(m)' /\ Connection(m)' = Connection(m) /\ call'[m].thread = call[m].thread
  BY DEF Grows
<1>2. timedOut \subseteq timedOut'
  BY DEF Grows
<1>3. Quiet(n)' => Quiet(n)
  BY <1>1, <1>2 DEF Quiet
<1>4. ~Disturbed(n)' => ~Disturbed(n)
  BY <1>1, <1>2 DEF Disturbed, Disturbs, Rivals
<1>5. Open(n)' => Open(n)
  BY <1>1, ConnectionType DEF Grows, Open
<1> QED
  BY <1>3, <1>4, <1>5

\* Requests on their way stay there as long as neither the events, the
\* requests nor the handler change.
LEMMA OutstandingKept ==
    ASSUME UNCHANGED <<posted, asked, request, srv>>
    PROVE  \A n : /\ Posted(n)' = Posted(n)
                  /\ Requested(n)' = Requested(n)
                  /\ Awaited(n)' = Awaited(n)
                  /\ Handled(n)' = Handled(n)
                  /\ Outstanding(n)' = Outstanding(n)
  BY DEF Posted, Requested, Awaited, Handled, Outstanding

-----------------------------------------------------------------------------
(* The calling thread, once a call has begun.                              *)

\* The thread of call n goes on inside sendAndWaitResult.
Moves(n) ==
    /\ Active(n)
    /\ call' \in [Calls -> CallRecord]
    /\ \A m \in Calls \ {n} : call'[m] = call[m]
    /\ \A f \in {"thread", "fun", "cd", "id", "result"} : call'[n][f] = call[n][f]
    /\ call'[n].stage \notin {"none", "install"}
    /\ timedOut \subseteq timedOut'
    /\ \A c \in Conns : fcb'[c] \in {fcb[c], n, NoCall}
    /\ UNCHANGED <<conn, asked, request, srv>>

\* It goes on after its event has been posted.
MovesOn(n) ==
    /\ Moves(n)
    /\ call'[n].stage \in Early <=> call[n].stage \in Early
    /\ UNCHANGED posted

LEMMA MoveFields ==
    ASSUME NEW n \in Calls, Moves(n), NEW m \in Calls
    PROVE  /\ call'[m].thread = call[m].thread
           /\ call'[m].fun = call[m].fun
           /\ call'[m].cd = call[m].cd
           /\ call'[m].id = call[m].id
           /\ call'[m].result = call[m].result
           /\ Begun(m)' = Begun(m)
           /\ Active(m)' => Active(m)
           /\ Connection(m)' = Connection(m)
<1>1. CASE m = n
  BY <1>1 DEF Moves, Begun, Active, ActiveStages, Connection
<1>2. CASE m # n
  BY <1>2 DEF Moves, Begun, Active, ActiveStages, Connection
<1> QED
  BY <1>1, <1>2

LEMMA MoveGrows ==
    ASSUME NEW n \in Calls, Moves(n)
    PROVE  Grows
  BY MoveFields DEF Grows, Moves

LEMMA MoveKeeps ==
    ASSUME IInv, AInv, NEW n \in Calls, Moves(n),
           \A m \in Calls \ {n} : Outstanding(m)' = Outstanding(m)
    PROVE  /\ RequestedOnce' /\ HandlersHold' /\ Turns' /\ WakeIsExcused'
           /\ HandlerIsMine' /\ IdIsMine' /\ StrayAnswersHaveCause'
           /\ \A m \in Calls \ {n} : CallInv(m)'
<1> USE DEF AInv
<1>1. Grows
  BY MoveGrows
<1>2. UNCHANGED <<conn, asked, request, srv>> /\ timedOut \subseteq timedOut'
  BY DEF Moves
<1>3. \A m \in Calls : /\ call'[m].thread = call[m].thread
                       /\ call'[m].id = call[m].id
                       /\ call'[m].result = call[m].result
                       /\ Begun(m)' = Begun(m)
                       /\ Active(m)' => Active(m)
                       /\ Handled(m)' = Handled(m)
                       /\ Active(m) => Begun(m)
  BY <1>2, MoveFields DEF Handled, Active, ActiveStages, Begun
<1>4. \A m \in Calls : Begun(m) => /\ Quiet(m)' => Quiet(m)
                                   /\ ~Disturbed(m)' => ~Disturbed(m)
                                   /\ Open(m)' => Open(m)
  BY <1>1, UndisturbedBefore
<1>5. RequestedOnce'
  BY <1>2 DEF RequestedOnce
<1>6. HandlersHold'
  <2>1. srv.call \in Calls \cup {NoCall} /\ \A c \in Conns : fcb[c] \in Calls \cup {NoCall}
    BY DEF IInv, TypeOK, ServerRecord
  <2>2. \A m \in Calls : call[m].stage \notin {"none", "install"}
                            => call'[m].stage \notin {"none", "install"}
    BY DEF Moves
  <2>3. call'[n].stage \notin {"none", "install"} /\ \A c \in Conns : fcb'[c] \in {fcb[c], n, NoCall}
    BY DEF Moves
  <2> QED
    BY <1>2, <2>1, <2>2, <2>3 DEF HandlersHold
<1>7. Turns'
  BY <1>2, <1>3 DEF Turns, Busy
<1>8. WakeIsExcused'
  <2>1. srv.at = "wake" => srv.call \in Calls /\ Begun(srv.call)
    BY NullIsNoCall DEF IInv, ServerHolds, HandlersHold, Begun
  <2> QED
    BY <1>2, <1>3, <1>4, <2>1 DEF WakeIsExcused, Excused
<1>9. HandlerIsMine' /\ IdIsMine'
  BY <1>2, <1>3, <1>4 DEF HandlerIsMine, IdIsMine
<1>10. StrayAnswersHaveCause'
  BY <1>3, <1>4 DEF StrayAnswersHaveCause, AnswersAreFinal, Disturbed
<1>11. ASSUME NEW m \in Calls \ {n} PROVE CallInv(m)'
  <2>1. call'[m] = call[m] /\ Outstanding(m)' = Outstanding(m)
    BY DEF Moves
  <2>2. CallInv(m)
    OBVIOUS
  <2>3. ServerCall(m)' /\ Flag(m)'
    BY <1>2, <2>1, <2>2 DEF CallInv, ServerCall, Flag, Begun
  <2>4. MayEnd(m)'
    BY <1>2, <1>4, <2>1, <2>2 DEF CallInv, MayEnd, Excused, Begun, Late
  <2>5. Calm(m)'
    BY <1>2, <1>4, <2>1, <2>2 DEF CallInv, Calm, Done, Begun
  <2> QED
    BY <2>3, <2>4, <2>5 DEF CallInv
<1> QED
  BY <1>5, <1>6, <1>7, <1>8, <1>9, <1>10, <1>11

LEMMA MoveOnKeeps ==
    ASSUME IInv, AInv, NEW n \in Calls, MovesOn(n)
    PROVE  /\ PostedOnce' /\ RequestedOnce' /\ RightConnection' /\ HandlersHold'
           /\ Turns' /\ WakeIsExcused' /\ StrayAnswersHaveCause' /\ AnswersAreFinal'
           /\ OneRequest' /\ HandlerIsMine' /\ IdIsMine'
           /\ \A m \in Calls \ {n} : CallInv(m)'
<1> USE DEF AInv
<1>1. Moves(n) /\ Grows
  BY MoveGrows DEF MovesOn
<1>2. \A m : /\ Posted(m)' = Posted(m)
             /\ Requested(m)' = Requested(m)
             /\ Outstanding(m)' = Outstanding(m)
  BY <1>1, OutstandingKept DEF MovesOn, Moves
<1>3. \A m \in Calls : /\ call'[m].fun = call[m].fun
                       /\ call'[m].cd = call[m].cd
                       /\ call'[m].result = call[m].result
                       /\ Begun(m)' = Begun(m)
                       /\ Active(m)' => Active(m)
                       /\ Active(m) => Begun(m)
                       /\ Connection(m)' = Connection(m)
                       /\ call'[m].stage \in Early => call[m].stage \in Early
  BY <1>1, MoveFields DEF MovesOn, Moves, Active, ActiveStages, Begun
<1>4. \A m \in Calls : Begun(m) => (Quiet(m)' => Quiet(m)) /\ (Open(m)' => Open(m))
  BY <1>1, UndisturbedBefore
<1>5. UNCHANGED <<request, posted, conn>>
  BY DEF MovesOn, Moves
<1>6. PostedOnce'
  BY <1>2, <1>3, <1>5 DEF PostedOnce
<1>7. RightConnection'
  <2>1. /\ \A k \in DOMAIN posted : posted[k].call \in Calls /\ Begun(posted[k].call)
        /\ \A c \in Conns : \A i \in DOMAIN request[c] : request[c][i] \in Calls
    BY CallsBehind DEF IInv
  <2> QED
    BY <1>3, <1>4, <1>5, <2>1 DEF RightConnection
<1>8. AnswersAreFinal'
  <2>1. \A m \in Calls : call[m].result \in Calls \cup {NoCall}
    BY DEF IInv, TypeOK, CallRecord
  <2> QED
    BY <1>2, <1>3, <2>1 DEF AnswersAreFinal
<1>9. OneRequest'
  BY <1>2, <1>3, <1>4 DEF OneRequest
<1>10. /\ RequestedOnce' /\ HandlersHold' /\ Turns' /\ WakeIsExcused'
       /\ HandlerIsMine' /\ IdIsMine' /\ StrayAnswersHaveCause'
       /\ \A m \in Calls \ {n} : CallInv(m)'
  BY <1>1, <1>2, MoveKeeps
<1> QED
  BY <1>6, <1>7, <1>8, <1>9, <1>10

\* Only the two ends of a call write the pointer of the connection.
LEMMA PointerKept ==
    ASSUME IInv, AInv, NEW n \in Calls, Moves(n), fcb' = fcb,
           call[n].stage # "install"
    PROVE  PointerIsMine'
<1>1. Grows
  BY MoveGrows
<1>2. ASSUME NEW m \in Calls, Active(m)', call'[m].stage # "install", Quiet(m)', Open(m)'
      PROVE  fcb'[Connection(m)'] = m
  <2>1. Active(m) /\ Begun(m) /\ Connection(m)' = Connection(m)
    BY <1>2, MoveFields DEF Active, ActiveStages, Begun
  <2>2. Quiet(m) /\ Open(m)
    BY <1>1, <1>2, <2>1, UndisturbedBefore DEF AInv
  <2>3. call[m].stage # "install"
    BY <1>2 DEF Moves
  <2> QED
    BY <2>1, <2>2, <2>3 DEF AInv, PointerIsMine
<1> QED
  BY <1>2 DEF PointerIsMine

\* The stages before a call sleeps.
LEMMA FallsAsleep ==
    ASSUME IInv, AInv, NEW n \in Calls, Moves(n),
           call'[n].stage \in {"post", "lock", "wait"},
           call'[n].stage = "wait" => call'[n].locked,
           call'[n].waitMux
    PROVE  CallInv(n)'
  BY MoveFields DEF AInv, CallInv, ServerCall, MayEnd, Calm, Flag, Done, Late

\* The stages after it.
LEMMA StaysAwake ==
    ASSUME IInv, AInv, NEW n \in Calls, MovesOn(n),
           Done(n) \/ n \in timedOut', call'[n].stage \in Late,
           call'[n].stage \in {"clear", "unlock"} => \/ call'[n].locked
                                                     \/ call[n].stage \in {"clear", "unlock"}
                                                        /\ call'[n].locked = call[n].locked
    PROVE  CallInv(n)'
<1>1. Moves(n) /\ Grows /\ Begun(n)
  BY MoveGrows DEF MovesOn, Moves, Active, ActiveStages, Begun
<1>2. (~Disturbed(n)' => ~Disturbed(n)) /\ (Open(n)' => Open(n))
  BY <1>1, UndisturbedBefore DEF AInv
<1>3. /\ call'[n].thread = call[n].thread /\ call'[n].result = call[n].result
      /\ srv' = srv /\ timedOut \subseteq timedOut'
      /\ Outstanding(n)' = Outstanding(n)
  BY <1>1, MoveFields, OutstandingKept DEF MovesOn, Moves
<1>4. CallInv(n)
  BY DEF AInv
<1>5. ServerCall(n)'
  BY <1>1, <1>3, <1>4 DEF CallInv, ServerCall, Done, Late
<1>6. MayEnd(n)'
  BY <1>1, <1>2, <1>3, <1>4 DEF CallInv, MayEnd, Excused, Done, Late
<1>7. Calm(n)'
  BY <1>1, <1>2, <1>3, <1>4 DEF CallInv, Calm, Done, Late
<1>8. Flag(n)'
  BY DEF Flag, Late
<1> QED
  BY <1>5, <1>6, <1>7, <1>8 DEF CallInv

\* What the first and the last step of a call write.
LEMMA InstallWrites ==
    ASSUME IInv, NEW n \in Calls, Install(n)
    PROVE  /\ call[n].stage = "install" /\ call'[n].stage = "post" /\ call'[n].waitMux
           /\ \A m \in Calls \ {n} : call'[m] = call[m]
           /\ \A f \in {"thread", "fun", "cd", "id", "result"} : call'[n][f] = call[n][f]
           /\ \A c \in Conns : fcb'[c] = IF c = call[n].cd /\ conn[c] # "freed" THEN n ELSE fcb[c]
<1>1. call \in [Calls -> CallRecord] /\ fcb \in [Conns -> Calls \cup {NoCall}]
  BY DEF IInv, TypeOK
<1>2. call' = [call EXCEPT ![n] = [call[n] EXCEPT !.stage = "post", !.waitMux = TRUE]]
  BY DEF Install
<1>3. fcb' = IF conn[call[n].cd] = "freed" THEN fcb ELSE [fcb EXCEPT ![call[n].cd] = n]
  BY DEF Install
<1>4. \A c \in Conns : fcb'[c] = IF c = call[n].cd /\ conn[c] # "freed" THEN n ELSE fcb[c]
  BY <1>1, <1>3
<1>5. call[n].stage = "install"
  BY DEF Install
<1> QED
  BY <1>1, <1>2, <1>4, <1>5 DEF CallRecord

LEMMA ResetWrites ==
    ASSUME IInv, NEW n \in Calls, ResetAndReturn(n)
    PROVE  /\ call[n].stage = "reset" /\ call'[n].stage = "returned"
           /\ \A m \in Calls \ {n} : call'[m] = call[m]
           /\ \A f \in {"thread", "fun", "cd", "id", "result"} : call'[n][f] = call[n][f]
           /\ \A c \in Conns : fcb'[c] = IF c = call[n].cd /\ conn[c] # "freed" THEN NoCall ELSE fcb[c]
<1>1. call \in [Calls -> CallRecord] /\ fcb \in [Conns -> Calls \cup {NoCall}]
  BY DEF IInv, TypeOK
<1>2. call' = [call EXCEPT ![n] = [call[n] EXCEPT !.stage = "returned"]]
  BY DEF ResetAndReturn
<1>3. fcb' = IF call[n].cd = NoConn \/ conn[call[n].cd] = "freed"
               THEN fcb ELSE [fcb EXCEPT ![call[n].cd] = NoCall]
  BY DEF ResetAndReturn
<1>4. \A c \in Conns : fcb'[c] = IF c = call[n].cd /\ conn[c] # "freed" THEN NoCall ELSE fcb[c]
  BY <1>1, <1>3, ConnAssumption
<1>5. call[n].stage = "reset"
  BY DEF ResetAndReturn
<1> QED
  BY <1>1, <1>2, <1>4, <1>5 DEF CallRecord

\* The steps of a caller between its lock and its return, and the timeout.
LEMMA CallerMoves ==
    ASSUME IInv, IInv', NEW n \in Calls,
           \/ Install(n) \/ Lock(n) \/ Woken(n) \/ Timeout(n) \/ ClearWaitMux(n)
           \/ Unlock(n) \/ TestConnection(n) \/ ResetAndReturn(n)
    PROVE  MovesOn(n)
<1>1. call \in [Calls -> CallRecord] /\ call' \in [Calls -> CallRecord]
  BY DEF IInv, TypeOK
<1> USE DEF MovesOn, Moves, Active, ActiveStages, Stages, Early
<1>2. CASE Install(n)
  <2>1. UNCHANGED <<conn, posted, asked, request, srv, timedOut>>
    BY <1>2 DEF Install
  <2> QED
    BY <1>1, <1>2, <2>1, InstallWrites
<1>3. CASE Lock(n)
  BY <1>1, <1>3 DEF Lock, CallRecord
<1>4. CASE Woken(n)
  BY <1>1, <1>4 DEF Woken, CallRecord
<1>5. CASE Timeout(n)
  BY <1>1, <1>5 DEF Timeout, CallRecord
<1>6. CASE ClearWaitMux(n)
  BY <1>1, <1>6 DEF ClearWaitMux, CallRecord
<1>7. CASE Unlock(n)
  BY <1>1, <1>7 DEF Unlock, CallRecord
<1>8. CASE TestConnection(n)
  BY <1>1, <1>8 DEF TestConnection, CallRecord
<1>9. CASE ResetAndReturn(n)
  BY <1>1, <1>9, ResetWrites DEF ResetAndReturn
<1> QED
  BY <1>2, <1>3, <1>4, <1>5, <1>6, <1>7, <1>8, <1>9

LEMMA CallerCallInv ==
    ASSUME IInv, AInv, NEW n \in Calls, MovesOn(n),
           \/ Install(n) \/ Lock(n) \/ Woken(n) \/ Timeout(n) \/ ClearWaitMux(n)
           \/ Unlock(n) \/ TestConnection(n) \/ ResetAndReturn(n)
    PROVE  CallInv(n)'
<1>1. Moves(n) /\ call \in [Calls -> CallRecord] /\ Flag(n)
  BY DEF IInv, TypeOK, MovesOn, AInv, CallInv
<1>2. CASE Install(n)
  <2>1. /\ call'[n].stage \in {"post", "lock", "wait"} /\ call'[n].waitMux
        /\ call'[n].stage = "wait" => call'[n].locked
    BY <1>2, InstallWrites
  <2> QED
    BY <1>1, <2>1, FallsAsleep
<1>3. CASE Lock(n)
  BY <1>1, <1>3, FallsAsleep DEF Lock, CallRecord, Flag
<1>4. CASE Woken(n)
  BY <1>1, <1>4, StaysAwake DEF Woken, CallRecord, Done, Late
<1>5. CASE Timeout(n)
  BY <1>1, <1>5, StaysAwake DEF Timeout, CallRecord, Late
<1>6. CASE ClearWaitMux(n)
  BY <1>1, <1>6, StaysAwake DEF ClearWaitMux, CallRecord, Done, Late
<1>7. CASE Unlock(n)
  BY <1>1, <1>7, StaysAwake DEF Unlock, CallRecord, Done, Late
<1>8. CASE TestConnection(n)
  BY <1>1, <1>8, StaysAwake DEF TestConnection, CallRecord, Done, Late
<1>9. CASE ResetAndReturn(n)
  BY <1>1, <1>9, StaysAwake DEF ResetAndReturn, CallRecord, Done, Late
<1> QED
  BY <1>2, <1>3, <1>4, <1>5, <1>6, <1>7, <1>8, <1>9

\* Two quiet calls of one connection are made by one thread, so that the one
\* that writes the pointer is the one that is active.
LEMMA OneWriter ==
    ASSUME IInv, AInv, NEW n \in Calls, Moves(n), NEW m \in Calls,
           Active(m)', Quiet(m)', Open(m)', Connection(n) = Connection(m)
    PROVE  m = n
<1>1. Active(m) /\ Begun(m) /\ Active(n) /\ Begun(n) /\ Grows
  BY MoveFields, MoveGrows DEF Moves, Active, ActiveStages, Begun
<1>2. Quiet(m)
  BY <1>1, UndisturbedBefore DEF AInv
<1>3. m # n => call[m].thread = call[n].thread
  BY <1>1, <1>2 DEF Quiet
<1> QED
  BY <1>1, <1>3 DEF AInv, Turns

LEMMA CallerPointer ==
    ASSUME IInv, AInv, NEW n \in Calls, MovesOn(n),
           \/ Install(n) \/ Lock(n) \/ Woken(n) \/ Timeout(n) \/ ClearWaitMux(n)
           \/ Unlock(n) \/ TestConnection(n) \/ ResetAndReturn(n)
    PROVE  PointerIsMine'
<1>1. Moves(n) /\ Grows /\ call \in [Calls -> CallRecord] /\ fcb \in [Conns -> Calls \cup {NoCall}]
  BY MoveGrows DEF IInv, TypeOK, MovesOn
<1>2. CASE \/ Lock(n) \/ Woken(n) \/ Timeout(n) \/ ClearWaitMux(n)
           \/ Unlock(n) \/ TestConnection(n)
  BY <1>1, <1>2, PointerKept
  DEF Lock, Woken, Timeout, ClearWaitMux, Unlock, TestConnection
<1>3. CASE Install(n) \/ ResetAndReturn(n)
  <2>1. call[n].cd \in {Connection(n), NoConn} /\ Begun(n) /\ Connection(n) \in Conns
    BY <1>1, ConnectionType DEF AInv, RightConnection, Moves, Active, ActiveStages, Begun
  <2>2. ASSUME NEW m \in Calls, Active(m)', call'[m].stage # "install", Quiet(m)', Open(m)'
        PROVE  fcb'[Connection(m)'] = m
    <3>1. Active(m) /\ Begun(m) /\ Connection(m)' = Connection(m)
      BY <1>1, <2>2, MoveFields DEF Active, ActiveStages, Begun
    <3>2. Quiet(m) /\ Open(m) /\ Connection(m) \in Conns
      BY <1>1, <2>2, <3>1, UndisturbedBefore, ConnectionType DEF AInv
    <3>3. CASE m = n
      <4>1. call[n].cd = Connection(n) /\ conn[call[n].cd] = "open"
        BY <2>1, <3>2, <3>3 DEF AInv, RightConnection, Open
      <4>2. ~ResetAndReturn(n)
        BY <2>2, <3>3, ResetWrites DEF Active, ActiveStages
      <4> QED
        BY <1>3, <2>1, <3>1, <3>3, <4>1, <4>2, InstallWrites
    <3>4. CASE m # n
      <4>1. Connection(m) # Connection(n)
        BY <1>1, <2>2, <3>4, OneWriter
      <4>2. call[n].cd # Connection(m)
        BY <2>1, <3>2, <4>1, ConnAssumption
      <4>3. fcb'[Connection(m)] = fcb[Connection(m)]
        BY <1>3, <3>2, <4>2, InstallWrites, ResetWrites
      <4>4. call[m].stage # "install"
        BY <1>1, <2>2, <3>4 DEF Moves
      <4> QED
        BY <3>1, <3>2, <4>3, <4>4 DEF AInv, PointerIsMine
    <3> QED
      BY <3>3, <3>4
  <2> QED
    BY <2>2 DEF PointerIsMine
<1> QED
  BY <1>2, <1>3

LEMMA CallerAInv ==
    ASSUME IInv, AInv, IInv', NEW n \in Calls,
           \/ Install(n) \/ Lock(n) \/ Woken(n) \/ Timeout(n) \/ ClearWaitMux(n)
           \/ Unlock(n) \/ TestConnection(n) \/ ResetAndReturn(n)
    PROVE  AInv'
<1>1. MovesOn(n)
  BY CallerMoves
<1> QED
  BY <1>1, MoveOnKeeps, CallerCallInv, CallerPointer DEF AInv

LEMMA PostAInv ==
    ASSUME IInv, AInv, IInv', NEW n \in Calls, Post(n)
    PROVE  AInv'
<1> USE DEF AInv
<1>1. call \in [Calls -> CallRecord] /\ posted \in Seq(Event)
  BY DEF IInv, TypeOK
<1>2. /\ Moves(n) /\ fcb' = fcb /\ call[n].stage = "post"
      /\ call'[n].stage = "lock" /\ call'[n].waitMux = call[n].waitMux
  BY <1>1 DEF IInv, TypeOK, Moves, Post, Active, ActiveStages, Stages, CallRecord
<1> DEFINE ev == [cd |-> call[n].cd, fun |-> call[n].fun, call |-> n]
<1>3. posted' = Append(posted, ev) /\ Begun(n) /\ Active(n) /\ call[n].stage \in Early
  BY <1>2 DEF Post, Begun, Active, ActiveStages, Stages, Early
<1>4. /\ DOMAIN posted' = DOMAIN posted \cup {Len(posted) + 1}
      /\ Len(posted) + 1 \notin DOMAIN posted
      /\ posted'[Len(posted) + 1] = ev
      /\ \A k \in DOMAIN posted : posted'[k] = posted[k]
  BY <1>1, <1>3
<1>5. /\ UNCHANGED <<conn, asked, request, srv>>
      /\ \A m : Requested(m)' = Requested(m)
      /\ \A m : Posted(m)' <=> Posted(m) \/ m = n
      /\ \A m : m # n => Outstanding(m)' = Outstanding(m)
  <2>1. UNCHANGED <<conn, asked, request, srv>>
    BY DEF Post
  <2>2. \A m : Posted(m)' <=> Posted(m) \/ m = n
    BY <1>4 DEF Posted
  <2> QED
    BY <2>1, <2>2 DEF Requested, Awaited, Handled, Outstanding
<1>6. \A m \in Calls : /\ call'[m].thread = call[m].thread
                       /\ call'[m].fun = call[m].fun
                       /\ call'[m].cd = call[m].cd
                       /\ call'[m].result = call[m].result
                       /\ Begun(m)' = Begun(m)
                       /\ Active(m)' => Active(m)
                       /\ Active(m) => Begun(m)
                       /\ Connection(m)' = Connection(m)
                       /\ m # n => call'[m] = call[m]
  BY <1>2, MoveFields DEF Moves, Active, ActiveStages, Begun
<1>7. \A m \in Calls : Begun(m) => (Quiet(m)' => Quiet(m)) /\ (Open(m)' => Open(m))
  BY <1>2, MoveGrows, UndisturbedBefore
<1>8. ~Posted(n) /\ ~Requested(n)
  BY <1>3 DEF PostedOnce
<1>9. PostedOnce'
  <2>1. \A m \in Calls : call'[m].stage \in Early => ~Posted(m)' /\ ~Requested(m)'
    BY <1>2, <1>5, <1>6 DEF PostedOnce, Early
  <2>2. \A j, k \in DOMAIN posted' : posted'[j].call = posted'[k].call => j = k
    BY <1>4, <1>8 DEF PostedOnce, Posted
  <2>3. \A m \in Calls : Posted(m)' => ~Requested(m)'
    BY <1>5, <1>8 DEF PostedOnce
  <2> QED
    BY <2>1, <2>2, <2>3 DEF PostedOnce
<1>10. RightConnection'
  <2>1. /\ \A k \in DOMAIN posted : posted[k].call \in Calls /\ Begun(posted[k].call)
        /\ \A c \in Conns : \A i \in DOMAIN request[c] : request[c][i] \in Calls
    BY CallsBehind DEF IInv
  <2>2. ASSUME NEW k \in DOMAIN posted'
        PROVE  (/\ posted[k].cd \in {Connection(posted[k].call), NoConn}
                /\ Open(posted[k].call) => posted[k].cd = Connection(posted[k].call))'
    <3>1. CASE k \in DOMAIN posted
      <4> DEFINE m == posted[k].call
      <4>1. posted'[k] = posted[k] /\ m \in Calls /\ Begun(m)
        BY <1>4, <2>1, <3>1
      <4>2. /\ posted[k].cd \in {Connection(m), NoConn}
            /\ Open(m) => posted[k].cd = Connection(m)
        BY <3>1 DEF RightConnection
      <4>3. Owner[call'[m].fun] = Connection(m) /\ (Open(m)' => Open(m))
        BY <1>6, <1>7, <4>1 DEF Connection
      <4> QED
        BY <4>1, <4>2, <4>3 DEF Open, Connection
    <3>2. CASE k \notin DOMAIN posted
      <4>1. posted'[k].call = n /\ posted'[k].cd = call[n].cd
        BY <1>4, <3>2
      <4>2. /\ call[n].cd \in {Connection(n), NoConn}
            /\ Open(n) => call[n].cd = Connection(n)
        BY <1>3 DEF RightConnection
      <4>3. Owner[call'[n].fun] = Connection(n) /\ (Open(n)' => Open(n))
        BY <1>3, <1>6, <1>7 DEF Connection
      <4> QED
        BY <4>1, <4>2, <4>3 DEF Open, Connection
    <3> QED
      BY <3>1, <3>2
  <2>3. (\A m \in Calls : Begun(m) =>
              /\ call[m].fun \in Callbacks
              /\ call[m].cd \in {Connection(m), NoConn}
              /\ Open(m) => call[m].cd = Connection(m))'
    BY <1>6, <1>7 DEF RightConnection
  <2>4. (\A c \in Conns : \A i \in DOMAIN request[c] : Connection(request[c][i]) = c)'
    <3>1. request' = request
      BY DEF Post
    <3> QED
      BY <1>6, <2>1, <3>1 DEF RightConnection, Connection
  <2> QED
    BY <2>2, <2>3, <2>4 DEF RightConnection
<1>11. AnswersAreFinal'
  <2>1. \A m \in Calls : call[m].result \in Calls \cup {NoCall}
    BY DEF IInv, TypeOK, CallRecord
  <2>2. \A m \in Calls : call[m].result # NoCall => call[m].result # n
    BY <1>3 DEF AnswersAreFinal
  <2> QED
    BY <1>5, <1>6, <2>1, <2>2 DEF AnswersAreFinal
<1>12. OneRequest'
  <2> SUFFICES ASSUME NEW m \in Calls, NEW k \in Calls, Active(k)', Quiet(k)',
                      m # k, Begun(m)', Connection(m)' = Connection(k)'
               PROVE  ~Outstanding(m)'
    BY DEF OneRequest
  <2>1. Active(k) /\ Quiet(k) /\ Begun(m) /\ Connection(m) = Connection(k)
    BY <1>6, <1>7
  <2>2. m # n
    BY <1>3, <2>1 DEF Quiet, Turns
  <2> QED
    BY <1>5, <2>1, <2>2 DEF OneRequest
<1>13. /\ RequestedOnce' /\ HandlersHold' /\ Turns' /\ WakeIsExcused'
       /\ HandlerIsMine' /\ IdIsMine' /\ StrayAnswersHaveCause'
       /\ \A m \in Calls \ {n} : CallInv(m)'
  BY <1>2, <1>5, MoveKeeps
<1>14. PointerIsMine'
  BY <1>2, PointerKept
<1>15. CallInv(n)'
  <2>1. call'[n].stage \in {"post", "lock", "wait"} /\ call'[n].stage # "wait"
    BY <1>2
  <2>2. call'[n].waitMux
    BY <1>2 DEF CallInv, Flag
  <2> QED
    BY <1>2, <2>1, <2>2, FallsAsleep
<1> QED
  BY <1>9, <1>10, <1>11, <1>12, <1>13, <1>14, <1>15

-----------------------------------------------------------------------------
(* A new call.                                                             *)

LEMMA BeginAInv ==
    ASSUME IInv, AInv, NEW t \in Threads, NEW f \in Callbacks, NEW n \in Calls,
           Begin(t, f, n)
    PROVE  AInv'
<1> USE DEF AInv
<1>1. call \in [Calls -> CallRecord] /\ IInv'
  BY BeginInvariant DEF IInv, TypeOK
<1>2. /\ UNCHANGED <<conn, fcb, posted, asked, request, srv, timedOut>>
      /\ call[n].stage = "none" /\ ~Busy(t) /\ conn[Owner[f]] = "open"
      /\ t = ServerThread => srv.at = "idle"
  BY DEF Begin
<1>3. /\ \A m \in Calls \ {n} : call'[m] = call[m]
      /\ call'[n].stage = "install" /\ call'[n].thread = t /\ call'[n].fun = f
      /\ call'[n].cd = Owner[f] /\ call'[n].result = NoCall
  BY <1>1 DEF Begin
<1>4. \A m : /\ Posted(m)' = Posted(m)
             /\ Requested(m)' = Requested(m)
             /\ Handled(m)' = Handled(m)
             /\ Outstanding(m)' = Outstanding(m)
  BY <1>2, OutstandingKept
<1>5. ~Posted(n) /\ ~Requested(n) /\ ~Outstanding(n) /\ ~Handled(n) /\ ~Begun(n)
  BY <1>2, OnlyRequested DEF PostedOnce, Early, Outstanding, Begun
<1>6. \A m \in Calls : Begun(m) =>
        /\ m # n /\ call'[m] = call[m] /\ Begun(m)' /\ Connection(m)' = Connection(m)
        /\ Active(m)' = Active(m)
  BY <1>3, <1>5 DEF Begun, Connection, Active
<1>7. \A m \in Calls \ {n} : Begun(m)' = Begun(m) /\ Active(m)' = Active(m) /\ (Active(m) => Begun(m))
  BY <1>3 DEF Begun, Active, ActiveStages
<1>8. Active(n)' /\ Begun(n)' /\ Connection(n)' = Owner[f]
  BY <1>3 DEF Active, ActiveStages, Stages, Begun, Connection
<1>9. Grows
  BY <1>2, <1>6 DEF Grows
<1>10. \A m \in Calls : Begun(m) => /\ Quiet(m)' => Quiet(m)
                                    /\ ~Disturbed(m)' => ~Disturbed(m)
                                    /\ Open(m)' => Open(m)
  BY <1>9, UndisturbedBefore
<1>11. PostedOnce'
  BY <1>2, <1>3, <1>4, <1>5 DEF PostedOnce
<1>12. RequestedOnce'
  BY <1>2 DEF RequestedOnce
<1>13. RightConnection'
  <2>1. /\ \A k \in DOMAIN posted : posted[k].call \in Calls /\ Begun(posted[k].call)
        /\ \A c \in Conns : \A i \in DOMAIN request[c] :
             request[c][i] \in Calls /\ Begun(request[c][i])
    BY CallsBehind DEF IInv
  <2>2. ASSUME NEW m \in Calls, Begun(m)'
        PROVE  (/\ call[m].fun \in Callbacks
                /\ call[m].cd \in {Connection(m), NoConn}
                /\ Open(m) => call[m].cd = Connection(m))'
    <3>1. CASE m = n
      BY <1>3, <1>8, <3>1
    <3>2. CASE m # n
      BY <1>6, <1>7, <1>10, <2>2, <3>2 DEF RightConnection
    <3> QED
      BY <3>1, <3>2
  <2>3. (\A k \in DOMAIN posted :
           /\ posted[k].cd \in {Connection(posted[k].call), NoConn}
           /\ Open(posted[k].call) => posted[k].cd = Connection(posted[k].call))'
    BY <1>2, <1>6, <2>1 DEF RightConnection, Connection, Open
  <2>4. (\A c \in Conns : \A i \in DOMAIN request[c] : Connection(request[c][i]) = c)'
    BY <1>2, <1>6, <2>1 DEF RightConnection, Connection
  <2> QED
    BY <2>2, <2>3, <2>4 DEF RightConnection
<1>14. HandlersHold'
  <2>1. srv.call \in Calls \cup {NoCall} /\ \A c \in Conns : fcb[c] \in Calls \cup {NoCall}
    BY DEF IInv, TypeOK, ServerRecord
  <2>2. \A m \in Calls : call[m].stage \notin {"none", "install"} => call'[m] = call[m]
    BY <1>2, <1>3
  <2> QED
    BY <1>2, <2>1, <2>2 DEF HandlersHold
<1>15. Turns'
  <2>1. \A m \in Calls : Active(m)' => m = n \/ (Active(m) /\ call'[m] = call[m] /\ call[m].thread # t)
    BY <1>2, <1>3, <1>7 DEF Busy
  <2>2. ASSUME srv'.at # "idle" PROVE ~Busy(ServerThread)'
    BY <1>2, <1>3, <2>1, <2>2 DEF Turns, Busy
  <2>3. ASSUME NEW m \in Calls, NEW k \in Calls, Active(m)', Active(k)',
               call'[m].thread = call'[k].thread
        PROVE  m = k
    BY <1>3, <2>1, <2>3 DEF Turns
  <2> QED
    BY <2>2, <2>3 DEF Turns
<1>16. WakeIsExcused'
  <2>1. srv.at = "wake" => srv.call \in Calls /\ Begun(srv.call)
    BY NullIsNoCall DEF IInv, ServerHolds, HandlersHold, Begun
  <2> QED
    BY <1>2, <1>6, <1>10, <2>1 DEF WakeIsExcused, Excused
<1>17. AnswersAreFinal'
  <2>1. \A m \in Calls : call[m].result \in Calls \cup {NoCall}
    BY <1>1 DEF CallRecord
  <2>2. \A m \in Calls : call'[m].result # NoCall
                           => m # n /\ call'[m].result = call[m].result
    BY <1>3
  <2>3. \A m \in Calls : call[m].stage \notin Early => call'[m] = call[m]
    BY <1>2, <1>3 DEF Early
  <2> QED
    BY <1>4, <1>7, <2>1, <2>2, <2>3 DEF AnswersAreFinal
<1>23. StrayAnswersHaveCause'
  BY <1>3, <1>6, <1>10 DEF StrayAnswersHaveCause, AnswersAreFinal, Disturbed
<1>18. OneRequest'
  <2> SUFFICES ASSUME NEW m \in Calls, NEW k \in Calls, Active(k)', Quiet(k)',
                      m # k, Begun(m)', Connection(m)' = Connection(k)'
               PROVE  ~Outstanding(m)
    BY <1>4 DEF OneRequest
  <2>1. CASE m = n
    BY <1>5, <2>1
  <2>2. CASE m # n /\ k # n
    <3>1. Begun(m) /\ Active(k) /\ Begun(k)
      BY <1>7, <2>2
    <3> QED
      BY <1>6, <1>10, <2>2, <3>1 DEF OneRequest
  <2>3. CASE m # n /\ k = n
    <3>1. Begun(m) /\ Connection(m) = Owner[f]
      BY <1>6, <1>7, <1>8, <2>3
    <3>2. \A j \in Calls : Begun(j) /\ Connection(j) = Owner[f] =>
            call[j].thread = t /\ j \notin timedOut
      BY <1>2, <1>3, <1>6, <1>8, <2>3 DEF Quiet
    <3>3. ~Disturbed(m) /\ m \notin timedOut /\ Open(m)
      BY <1>2, <3>1, <3>2 DEF Disturbed, Disturbs, Rivals, Open
    <3>4. ~Active(m)
      BY <1>2, <3>1, <3>2 DEF Busy
    <3>5. Done(m)
      BY <1>1, <3>1, <3>4 DEF Active, ActiveStages, Begun, CallRecord, Done, Late
    <3>6. Calm(m)
      BY DEF CallInv
    <3> QED
      BY <3>1, <3>3, <3>5, <3>6 DEF Calm
  <2> QED
    BY <2>1, <2>2, <2>3
<1>19. PointerIsMine'
  <2> SUFFICES ASSUME NEW m \in Calls, Active(m)', call'[m].stage # "install", Quiet(m)', Open(m)'
               PROVE  fcb'[Connection(m)'] = m
    BY DEF PointerIsMine
  <2>1. m # n /\ Begun(m) /\ Active(m)
    BY <1>3, <1>7
  <2> QED
    BY <1>2, <1>6, <1>10, <2>1 DEF PointerIsMine
<1>20. HandlerIsMine'
  BY <1>2, <1>4, <1>5, <1>6, <1>7, <1>10 DEF HandlerIsMine
<1>21. IdIsMine'
  <2> SUFFICES ASSUME NEW m \in Calls, NEW c \in Conns, NEW i \in DOMAIN request[c],
                      Active(m)', Quiet(m)',
                      i \in asked[c] \/ (srv.at = "match" /\ srv.cd = c /\ srv.id = i),
                      request[c][i] = m
               PROVE  call'[m].id = i
    BY <1>2 DEF IdIsMine
  <2>1. Requested(m)
    BY DEF IInv, ServerHolds, Requested
  <2>2. m # n /\ Begun(m) /\ Active(m) /\ Quiet(m) /\ call'[m] = call[m]
    BY <1>5, <1>6, <1>7, <1>10, <2>1
  <2> QED
    BY <2>2 DEF IdIsMine
<1>22. ASSUME NEW m \in Calls PROVE CallInv(m)'
  <2>1. CASE m = n
    BY <1>3, <2>1 DEF CallInv, ServerCall, MayEnd, Calm, Done, Flag, Late
  <2>2. CASE m # n
    <3>1. call'[m] = call[m] /\ CallInv(m)
      BY <1>3, <2>2
    <3>2. ServerCall(m)' /\ Flag(m)'
      BY <1>2, <3>1 DEF CallInv, ServerCall, Flag, Begun
    <3>3. MayEnd(m)'
      BY <1>2, <1>10, <3>1 DEF CallInv, MayEnd, Excused, Begun, Late
    <3>4. Calm(m)'
      BY <1>2, <1>4, <1>10, <3>1 DEF CallInv, Calm, Done, Begun
    <3> QED
      BY <3>2, <3>3, <3>4 DEF CallInv
  <2> QED
    BY <2>1, <2>2
<1> QED
  BY <1>11, <1>12, <1>13, <1>14, <1>15, <1>16, <1>17, <1>18, <1>19, <1>20, <1>21, <1>22,
     <1>23

-----------------------------------------------------------------------------
(* The server thread.                                                      *)

\* A handler changes no more of a call than its cd, id, result and lock.
Serves ==
    /\ call' \in [Calls -> CallRecord]
    /\ \A n \in Calls : \A f \in {"stage", "thread", "fun", "waitMux"} : call'[n][f] = call[n][f]
    /\ UNCHANGED <<fcb, timedOut>>
    /\ \A c \in Conns : conn'[c] = "open" => conn[c] = "open"
    /\ srv'.at # "idle" => ~Busy(ServerThread)

LEMMA ServedFields ==
    ASSUME IInv, AInv, Serves
    PROVE  /\ Grows
           /\ \A n \in Calls :
                /\ call'[n].stage = call[n].stage
                /\ call'[n].thread = call[n].thread
                /\ call'[n].fun = call[n].fun
                /\ call'[n].waitMux = call[n].waitMux
                /\ Begun(n)' = Begun(n)
                /\ Active(n)' = Active(n)
                /\ Active(n) => Begun(n)
                /\ Connection(n)' = Connection(n)
           /\ \A n \in Calls : Begun(n) => /\ Quiet(n)' => Quiet(n)
                                           /\ ~Disturbed(n)' => ~Disturbed(n)
                                           /\ Open(n)' => Open(n)
<1>1. \A n \in Calls :
        /\ call'[n].stage = call[n].stage
        /\ call'[n].thread = call[n].thread
        /\ call'[n].fun = call[n].fun
        /\ call'[n].waitMux = call[n].waitMux
  BY DEF Serves
<1>2. \A n \in Calls : /\ Begun(n)' = Begun(n)
                       /\ Active(n)' = Active(n)
                       /\ Active(n) => Begun(n)
                       /\ Connection(n)' = Connection(n)
  BY <1>1 DEF Begun, Active, ActiveStages, Connection
<1>3. Grows
  BY <1>1, <1>2 DEF Serves, Grows
<1> QED
  BY <1>1, <1>2, <1>3, UndisturbedBefore DEF AInv

\* What holds after a handler as long as no request is new.
LEMMA ServesKeeps ==
    ASSUME IInv, AInv, Serves, \A n \in Calls : Outstanding(n)' => Outstanding(n)
    PROVE  Turns' /\ OneRequest' /\ PointerIsMine'
<1> USE DEF AInv
<1>1. Turns'
  BY ServedFields DEF Serves, Turns, Busy
<1>2. OneRequest'
  BY ServedFields DEF OneRequest
<1>3. PointerIsMine'
  <2>1. fcb' = fcb
    BY DEF Serves
  <2> QED
    BY <2>1, ServedFields DEF PointerIsMine
<1> QED
  BY <1>1, <1>2, <1>3

\* What holds of a call whose lock, answer and wake the handler leaves alone.
LEMMA ServedCallInv ==
    ASSUME IInv, AInv, Serves, NEW n \in Calls,
           call'[n].locked = call[n].locked, call'[n].result = call[n].result,
           Outstanding(n)' => Outstanding(n),
           srv'.at = "wake" /\ srv'.call = n => srv.at = "wake" /\ srv.call = n
    PROVE  CallInv(n)'
<1>1. CallInv(n)
  BY DEF AInv
<1>2. /\ call'[n].stage = call[n].stage /\ call'[n].thread = call[n].thread
      /\ call'[n].waitMux = call[n].waitMux
      /\ Begun(n)' = Begun(n)
      /\ Begun(n) => (~Disturbed(n)' => ~Disturbed(n)) /\ (Open(n)' => Open(n))
      /\ timedOut' = timedOut
  BY ServedFields DEF Serves
<1>3. ServerCall(n)' /\ Flag(n)'
  BY <1>1, <1>2 DEF CallInv, ServerCall, Flag
<1>4. MayEnd(n)'
  BY <1>1, <1>2 DEF CallInv, MayEnd, Excused, Begun, Late
<1>5. Calm(n)'
  BY <1>1, <1>2 DEF CallInv, Calm, Done
<1> QED
  BY <1>3, <1>4, <1>5 DEF CallInv

\* What holds after a handler that leaves the answers alone.
LEMMA ServedAnswers ==
    ASSUME IInv, AInv, Serves, \A n \in Calls : Outstanding(n)' => Outstanding(n),
           \A n \in Calls : call'[n].result = call[n].result
    PROVE  StrayAnswersHaveCause' /\ AnswersAreFinal'
<1>1. \A n \in Calls : call[n].result \in Calls \cup {NoCall}
  BY DEF IInv, TypeOK, CallRecord
<1>2. StrayAnswersHaveCause'
  BY ServedFields DEF AInv, StrayAnswersHaveCause, AnswersAreFinal, Disturbed
<1>3. AnswersAreFinal'
  BY <1>1, ServedFields DEF AInv, AnswersAreFinal
<1> QED
  BY <1>2, <1>3

\* What holds after a handler that leaves the events, the requests and the
\* connections of the calls alone.
LEMMA ServedLedger ==
    ASSUME IInv, AInv, Serves, UNCHANGED <<posted, request>>,
           \A n \in Calls : call'[n].cd = call[n].cd
    PROVE  PostedOnce' /\ RequestedOnce' /\ RightConnection'
<1> USE DEF AInv
<1>1. \A n : Posted(n)' = Posted(n) /\ Requested(n)' = Requested(n)
  BY DEF Posted, Requested
<1>2. PostedOnce' /\ RequestedOnce'
  BY <1>1, ServedFields DEF PostedOnce, RequestedOnce
<1>3. /\ \A k \in DOMAIN posted : posted[k].call \in Calls /\ Begun(posted[k].call)
      /\ \A c \in Conns : \A i \in DOMAIN request[c] : request[c][i] \in Calls
  BY CallsBehind DEF IInv
<1>4. RightConnection'
  BY <1>3, ServedFields DEF RightConnection
<1> QED
  BY <1>2, <1>4

\* While a handler runs, or none of the server thread's own calls does, an
\* undisturbed call is quiet.
LEMMA UndisturbedIsQuiet ==
    ASSUME IInv, AInv, ~Busy(ServerThread), NEW n \in Calls,
           Active(n), ~Disturbed(n)
    PROVE  Quiet(n)
<1>1. call[n].thread # ServerThread
  BY DEF Busy
<1>2. ASSUME NEW m \in Calls, m # n, Begun(m), Connection(m) = Connection(n)
      PROVE  call[m].thread = call[n].thread /\ m \notin timedOut
  <2>1. m \notin timedOut /\ ~Rivals(m, n)
    BY <1>2 DEF Disturbed, Disturbs
  <2>2. call[m].thread # ServerThread
    <3> SUFFICES ASSUME call[m].thread = ServerThread PROVE FALSE
      OBVIOUS
    <3>1. ~Active(m)
      BY DEF Busy
    <3>2. call[m].stage \in Late
      BY <1>2, <3>1 DEF IInv, TypeOK, CallRecord, Active, ActiveStages, Begun, Late
    <3> QED
      BY <1>2, <2>1, <3>2 DEF AInv, CallInv, ServerCall
  <2> QED
    BY <1>1, <2>1, <2>2 DEF Rivals
<1> QED
  BY <1>2 DEF Quiet

\* Only undefined behaviour has been found.
LEMMA FrozenAInv ==
    ASSUME AInv, UNCHANGED <<conn, fcb, posted, asked, request, call, srv, timedOut>>
    PROVE  AInv'
  BY DEF AInv, PostedOnce, RequestedOnce, RightConnection, HandlersHold, Turns,
     WakeIsExcused, StrayAnswersHaveCause, AnswersAreFinal, OneRequest, PointerIsMine,
     HandlerIsMine, IdIsMine, CallInv, ServerCall, MayEnd, Calm, Flag, Posted,
     Requested, Awaited, Handled, Outstanding, Open, Quiet, Excused, Disturbed, Done,
     Disturbs, Rivals, Begun, Connection, Active, Busy

\* The oldest event leaves the queue.
LEMMA TakeEvent ==
    ASSUME IInv, AInv, posted # << >>, posted' = Tail(posted)
    PROVE  /\ Head(posted) \in Event /\ Head(posted).call \in Calls
           /\ Head(posted) = posted[1] /\ 1 \in DOMAIN posted
           /\ Posted(Head(posted).call) /\ Begun(Head(posted).call)
           /\ \A n : Posted(n)' <=> Posted(n) /\ n # Head(posted).call
           /\ \A k \in DOMAIN posted' : k + 1 \in DOMAIN posted /\ posted'[k] = posted[k + 1]
<1>1. posted \in Seq(Event)
  BY DEF IInv, TypeOK
<1>2. Head(posted) = posted[1] /\ 1 \in DOMAIN posted
  BY <1>1
<1>3. \A k \in DOMAIN posted' : k + 1 \in DOMAIN posted /\ posted'[k] = posted[k + 1]
  BY <1>1
<1>4. \A k \in DOMAIN posted : k # 1 => k - 1 \in DOMAIN posted' /\ posted'[k - 1] = posted[k]
  BY <1>1
<1>5. \A k \in DOMAIN posted' : k \in Nat /\ k + 1 # 1
  BY <1>1
<1>6. \A n : Posted(n)' <=> Posted(n) /\ n # Head(posted).call
  <2>1. ASSUME NEW n, Posted(n)' PROVE Posted(n) /\ n # Head(posted).call
    <3>1. PICK k \in DOMAIN posted' : posted'[k].call = n
      BY <2>1 DEF Posted
    <3>2. k + 1 \in DOMAIN posted /\ posted[k + 1].call = n /\ k + 1 # 1
      BY <1>3, <1>5, <3>1
    <3> QED
      BY <1>2, <3>2 DEF AInv, PostedOnce, Posted
  <2>2. ASSUME NEW n, Posted(n), n # Head(posted).call PROVE Posted(n)'
    <3>1. PICK k \in DOMAIN posted : posted[k].call = n
      BY <2>2 DEF Posted
    <3>2. k - 1 \in DOMAIN posted' /\ posted'[k - 1].call = n
      BY <1>2, <1>4, <2>2, <3>1
    <3> QED
      BY <3>2 DEF Posted
  <2> QED
    BY <2>1, <2>2
<1> QED
  BY <1>2, <1>3, <1>6, CallsBehind DEF IInv, AInv

LEMMA HandleRequestAInv ==
    ASSUME IInv, AInv, HandleRequest
    PROVE  AInv'
<1> USE DEF AInv
<1> DEFINE ev == Head(posted)
           k == ev.call
           takes == ev.cd # NoConn /\ conn[ev.cd] = "open"
<1>1. /\ UNCHANGED <<conn, fcb, call, asked, timedOut>> /\ posted' = Tail(posted)
      /\ posted # << >> /\ srv.at = "idle" /\ ~Busy(ServerThread)
  BY DEF HandleRequest, ServerIdle
<1>2. IInv'
  BY HandleRequestInvariant
<1>3. /\ ev \in Event /\ k \in Calls /\ ev = posted[1] /\ 1 \in DOMAIN posted
      /\ Posted(k) /\ Begun(k)
      /\ \A n : Posted(n)' <=> Posted(n) /\ n # k
      /\ \A j \in DOMAIN posted' : j + 1 \in DOMAIN posted /\ posted'[j] = posted[j + 1]
  BY <1>1, TakeEvent
<1>4. ~Requested(k) /\ call[k].stage \notin Early
  BY <1>3 DEF PostedOnce
<1>5. \A n : ~Handled(n)
  BY <1>1 DEF Handled
<1>6. CASE takes
  <2> DEFINE c == ev.cd
  <2>1. c \in Conns /\ c = Connection(k) /\ Open(k) /\ conn[c] = "open"
    BY <1>3, <1>6 DEF Event, RightConnection, Open
  <2>2. /\ request' = [request EXCEPT ![c] = Append(@, k)]
        /\ srv' = Doing("tag", c, fcb[c], NextRequestId(c))
    BY <1>6 DEF HandleRequest
  <2>3. /\ request \in [Conns -> Seq(Calls)]
        /\ \A d \in Conns : asked[d] \subseteq DOMAIN request[d]
        /\ fcb[c] \in Calls \cup {NoCall}
    BY <2>1 DEF IInv, TypeOK, ServerHolds
  <2> DEFINE l == Len(request[c]) + 1
  <2>4. /\ request'[c] = Append(request[c], k)
        /\ \A d \in Conns : d # c => request'[d] = request[d]
    BY <2>1, <2>2, <2>3
  <2>5. /\ DOMAIN request'[c] = DOMAIN request[c] \cup {l} /\ l \notin DOMAIN request[c]
        /\ request'[c][l] = k /\ Len(request'[c]) = l
        /\ \A i \in DOMAIN request[c] : request'[c][i] = request[c][i]
    BY <2>1, <2>3, <2>4
  <2>6. srv'.at = "tag" /\ srv'.cd = c /\ srv'.id = l /\ srv'.call = fcb[c]
    BY <2>2 DEF Doing, NextRequestId
  <2>7. \A n : /\ Requested(n)' <=> Requested(n) \/ n = k
               /\ Awaited(n)' <=> Awaited(n)
               /\ Handled(n)' <=> n = k
    <3>1. \A n : Requested(n)' <=> Requested(n) \/ n = k
      BY <2>1, <2>4, <2>5 DEF Requested
    <3>2. \A d \in Conns : \A i \in asked[d] : request'[d][i] = request[d][i]
      BY <2>3, <2>4, <2>5
    <3>3. \A n : Awaited(n)' <=> Awaited(n)
      BY <1>1, <3>2 DEF Awaited
    <3>4. \A n : Handled(n)' <=> n = k
      BY <2>5, <2>6 DEF Handled
    <3> QED
      BY <3>1, <3>3, <3>4
  <2>8. \A n : Outstanding(n)' => Outstanding(n)
    BY <1>3, <2>7 DEF Outstanding
  <2>9. Serves
    BY <1>1, <1>2 DEF Serves, IInv, TypeOK
  <2>10. PostedOnce'
    <3>1. \A n \in Calls : call'[n].stage \in Early => ~Posted(n)' /\ ~Requested(n)'
      BY <1>1, <1>3, <1>4, <2>7 DEF PostedOnce
    <3>2. \A i, j \in DOMAIN posted' : posted'[i].call = posted'[j].call => i = j
      <4>1. \A i \in DOMAIN posted' : i \in Nat
        BY <1>2 DEF IInv, TypeOK
      <4> QED
        BY <1>3, <4>1 DEF PostedOnce
    <3>3. \A n \in Calls : Posted(n)' => ~Requested(n)'
      BY <1>3, <2>7 DEF PostedOnce
    <3> QED
      BY <3>1, <3>2, <3>3 DEF PostedOnce
  <2>11. RequestedOnce'
    <3>1. \A d \in Conns : \A i \in DOMAIN request[d] : request[d][i] # k
      BY <1>4 DEF Requested
    <3>2. \A d \in Conns : \A i \in DOMAIN request'[d] :
            \/ d = c /\ i = l /\ request'[d][i] = k
            \/ i \in DOMAIN request[d] /\ request'[d][i] = request[d][i]
      BY <2>4, <2>5
    <3> QED
      BY <3>1, <3>2 DEF RequestedOnce
  <2>12. RightConnection'
    <3>1. \A n : Connection(n)' = Connection(n) /\ Open(n)' = Open(n) /\ Begun(n)' = Begun(n)
      BY <1>1 DEF Connection, Open, Begun
    <3>2. \A d \in Conns : \A i \in DOMAIN request'[d] :
            \/ d = c /\ request'[d][i] = k
            \/ i \in DOMAIN request[d] /\ request'[d][i] = request[d][i]
      BY <2>4, <2>5
    <3>3. (\A d \in Conns : \A i \in DOMAIN request[d] : Connection(request[d][i]) = d)'
      BY <1>1, <2>1, <3>2 DEF RightConnection, Connection
    <3>4. (\A j \in DOMAIN posted :
             /\ posted[j].cd \in {Connection(posted[j].call), NoConn}
             /\ Open(posted[j].call) => posted[j].cd = Connection(posted[j].call))'
      BY <1>1, <1>3 DEF RightConnection, Connection, Open
    <3> QED
      BY <1>1, <3>1, <3>3, <3>4 DEF RightConnection
  <2>13. HandlersHold'
    <3>1. srv'.id \notin asked'[srv'.cd] /\ conn'[srv'.cd] = "open"
      BY <1>1, <2>1, <2>3, <2>5, <2>6
    <3>2. srv'.call # NoCall => call'[srv'.call].stage \notin {"none", "install"}
      BY <1>1, <2>1, <2>6 DEF HandlersHold
    <3> QED
      BY <1>1, <2>5, <2>6, <3>1, <3>2 DEF HandlersHold
  <2>14. WakeIsExcused' /\ Turns' /\ OneRequest' /\ PointerIsMine'
         /\ StrayAnswersHaveCause' /\ AnswersAreFinal'
    BY <1>1, <2>6, <2>8, <2>9, ServesKeeps, ServedAnswers DEF WakeIsExcused
  <2>15. HandlerIsMine'
    <3> SUFFICES ASSUME NEW n \in Calls, Active(n)', Quiet(n)', Handled(n)'
                 PROVE  srv'.call = n
      BY DEF HandlerIsMine
    <3>1. n = k
      BY <2>7
    <3>2. Active(k) /\ Quiet(k) /\ call[k].stage # "install"
      BY <1>1, <1>4, <3>1 DEF Active, Quiet, Begun, Connection, Early
    <3> QED
      BY <1>3, <2>1, <2>6, <3>1, <3>2 DEF PointerIsMine
  <2>16. IdIsMine'
    <3>1. \A d \in Conns : \A i \in asked[d] :
            i \in DOMAIN request[d] /\ request'[d][i] = request[d][i]
      BY <2>3, <2>4, <2>5
    <3>2. \A n : (Active(n)' => Active(n)) /\ (Quiet(n)' => Quiet(n))
      BY <1>1 DEF Active, Quiet, Begun, Connection
    <3> QED
      BY <1>1, <2>6, <3>1, <3>2 DEF IdIsMine
  <2>17. \A n \in Calls : CallInv(n)'
    BY <1>1, <2>6, <2>8, <2>9, ServedCallInv
  <2> QED
    BY <2>10, <2>11, <2>12, <2>13, <2>14, <2>15, <2>16, <2>17
<1>7. CASE ~takes
  <2>1. UNCHANGED <<request, srv>>
    BY <1>7 DEF HandleRequest
  <2>2. \A n : /\ Requested(n)' = Requested(n)
               /\ Handled(n)' = Handled(n)
               /\ Outstanding(n)' => Outstanding(n)
    BY <1>1, <1>3, <2>1 DEF Requested, Awaited, Handled, Outstanding
  <2>3. Serves
    BY <1>1, <1>2, <2>1 DEF Serves, IInv, TypeOK
  <2>4. PostedOnce'
    <3>1. \A n \in Calls : call'[n].stage \in Early => ~Posted(n)' /\ ~Requested(n)'
      BY <1>1, <1>3, <2>2 DEF PostedOnce
    <3>2. \A i, j \in DOMAIN posted' : posted'[i].call = posted'[j].call => i = j
      <4>1. \A i \in DOMAIN posted' : i \in Nat
        BY <1>2 DEF IInv, TypeOK
      <4> QED
        BY <1>3, <4>1 DEF PostedOnce
    <3>3. \A n \in Calls : Posted(n)' => ~Requested(n)'
      BY <1>3, <2>2 DEF PostedOnce
    <3> QED
      BY <3>1, <3>2, <3>3 DEF PostedOnce
  <2>5. RequestedOnce'
    BY <2>1 DEF RequestedOnce
  <2>6. RightConnection'
    BY <1>1, <1>3, <2>1 DEF RightConnection, Connection, Open, Begun
  <2>7. HandlersHold'
    BY <1>1, <2>1 DEF HandlersHold
  <2>8. WakeIsExcused' /\ Turns' /\ OneRequest' /\ PointerIsMine'
        /\ StrayAnswersHaveCause' /\ AnswersAreFinal'
    BY <1>1, <2>1, <2>2, <2>3, ServesKeeps, ServedAnswers DEF WakeIsExcused
  <2>9. HandlerIsMine'
    BY <1>5, <2>2 DEF HandlerIsMine
  <2>10. IdIsMine'
    <3>1. \A n : (Active(n)' => Active(n)) /\ (Quiet(n)' => Quiet(n))
      BY <1>1 DEF Active, Quiet, Begun, Connection
    <3> QED
      BY <1>1, <2>1, <3>1 DEF IdIsMine
  <2>11. \A n \in Calls : CallInv(n)'
    BY <1>1, <2>1, <2>2, <2>3, ServedCallInv
  <2> QED
    BY <2>4, <2>5, <2>6, <2>7, <2>8, <2>9, <2>10, <2>11
<1> QED
  BY <1>6, <1>7

\* The call whose request a handler is at work on.
LEMMA HandledCall ==
    ASSUME IInv, AInv, srv.at \in {"tag", "match"}
    PROVE  LET k == request[srv.cd][srv.id] IN
           /\ srv.cd \in Conns /\ srv.id \in DOMAIN request[srv.cd] /\ srv.id \in Nat
           /\ k \in Calls /\ Begun(k) /\ Requested(k) /\ ~Posted(k) /\ ~Awaited(k)
           /\ call[k].stage \notin Early /\ Outstanding(k)
           /\ Connection(k) = srv.cd /\ Open(k) /\ conn[srv.cd] = "open"
           /\ \A n : Handled(n) <=> n = k
<1> DEFINE k == request[srv.cd][srv.id]
<1>1. srv.cd \in Conns /\ srv.id \in DOMAIN request[srv.cd] /\ srv.id \in Nat
  BY DEF IInv, ServerHolds, TypeOK, ServerRecord
<1>2. k \in Calls /\ Begun(k)
  BY <1>1, CallsBehind DEF IInv, AInv
<1>3. Requested(k)
  BY <1>1 DEF Requested
<1>4. call[k].stage \notin Early /\ ~Posted(k)
  BY <1>2, <1>3 DEF AInv, PostedOnce
<1>5. conn[srv.cd] = "open" /\ srv.id \notin asked[srv.cd]
  BY DEF AInv, HandlersHold
<1>6. Connection(k) = srv.cd /\ Open(k)
  BY <1>1, <1>5 DEF AInv, RightConnection, Open
<1>7. ~Awaited(k)
  BY <1>1, <1>5 DEF AInv, RequestedOnce, Awaited, IInv, ServerHolds
<1>8. Handled(k) /\ Outstanding(k) /\ \A n : Handled(n) <=> n = k
  BY DEF Handled, Outstanding
<1> QED
  BY <1>1, <1>2, <1>3, <1>4, <1>5, <1>6, <1>7, <1>8

LEMMA TagAndSendAInv ==
    ASSUME IInv, AInv, TagAndSend
    PROVE  AInv'
<1> USE DEF AInv
<1> DEFINE m == srv.call
           k == request[srv.cd][srv.id]
<1>1. UNCHANGED <<conn, fcb, posted, request, timedOut>> /\ srv.at = "tag"
  BY DEF TagAndSend
<1>2. IInv'
  BY TagAndSendInvariant
<1>3. /\ srv.cd \in Conns /\ srv.id \in DOMAIN request[srv.cd] /\ srv.id \in Nat
      /\ k \in Calls /\ Begun(k) /\ Outstanding(k) /\ Connection(k) = srv.cd
      /\ Open(k) /\ call[k].stage \notin Early
      /\ \A n : Handled(n) <=> n = k
  BY <1>1, HandledCall
<1>4. CASE BadObject(m)
  BY <1>1, <1>4, FrozenAInv DEF TagAndSend
<1>5. CASE ~BadObject(m)
  <2>1. m \in Calls
    BY <1>5 DEF BadObject, IInv, TypeOK, ServerRecord
  <2>2. /\ call' = IF call[m].cd = srv.cd /\ Fun[call[m].fun] = Fun[call[Last(request[srv.cd])].fun]
                     THEN [call EXCEPT ![m].id = srv.id] ELSE call
        /\ asked' = [asked EXCEPT ![srv.cd] = @ \cup {srv.id}]
        /\ srv' = SrvIdle
    BY <1>5 DEF TagAndSend
  <2>3. Last(request[srv.cd]) = k
    BY <1>1 DEF Last, HandlersHold
  <2>4. call \in [Calls -> CallRecord]
    BY DEF IInv, TypeOK
  <2>5. /\ \A n \in Calls : \A f \in {"stage", "thread", "fun", "cd", "result", "waitMux", "locked"} :
             call'[n][f] = call[n][f]
        /\ \A n \in Calls : call'[n].id # call[n].id => n = m /\ call[m].cd = srv.cd
    BY <2>1, <2>2, <2>4 DEF CallRecord
  <2>6. srv'.at = "idle"
    BY <2>2 DEF SrvIdle, Doing
  <2>7. Serves
    BY <1>1, <1>2, <2>5, <2>6 DEF Serves, IInv, TypeOK
  <2>8. \A c \in Conns : \A i : i \in asked'[c] <=> i \in asked[c] \/ (c = srv.cd /\ i = srv.id)
    BY <1>3, <2>2 DEF IInv, TypeOK
  <2>9. /\ \A n : Awaited(n)' <=> Awaited(n) \/ n = k
        /\ \A n : ~Handled(n)'
    BY <1>1, <1>3, <2>6, <2>8 DEF Awaited, Handled
  <2>10. \A n : Outstanding(n)' => Outstanding(n)
    BY <1>1, <1>3, <2>9 DEF Outstanding, Posted
  <2>11. PostedOnce' /\ RequestedOnce' /\ RightConnection'
    BY <1>1, <2>5, <2>7, ServedLedger
  <2>12. HandlersHold'
    BY <1>1, <2>5, <2>6 DEF HandlersHold, IInv, TypeOK
  <2>13. WakeIsExcused' /\ Turns' /\ OneRequest' /\ PointerIsMine'
         /\ StrayAnswersHaveCause' /\ AnswersAreFinal'
    BY <2>5, <2>6, <2>7, <2>10, ServesKeeps, ServedAnswers DEF WakeIsExcused
  <2>14. HandlerIsMine'
    BY <2>9 DEF HandlerIsMine
  <2>15. IdIsMine'
    <3> SUFFICES ASSUME NEW n \in Calls, NEW c \in Conns, NEW i \in DOMAIN request[c],
                        Active(n)', Quiet(n)', i \in asked'[c], request[c][i] = n
                 PROVE  call'[n].id = i
      BY <1>1, <2>6 DEF IdIsMine
    <3>1. Active(n) /\ Begun(n) /\ Quiet(n)
      BY <2>7, ServedFields
    <3>2. i \in DOMAIN request[c] /\ Connection(n) = c
      BY <1>2, <1>1 DEF IInv, ServerHolds, RightConnection
    <3>3. CASE n = k
      <4>1. c = srv.cd /\ i = srv.id
        BY <1>3, <3>2, <3>3 DEF RequestedOnce
      <4>2. m = n
        BY <1>3, <3>1, <3>3 DEF HandlerIsMine
      <4>3. call[m].cd = srv.cd
        BY <1>3, <3>3, <4>2 DEF RightConnection
      <4> QED
        BY <2>1, <2>2, <2>3, <2>4, <3>3, <4>1, <4>2, <4>3
    <3>4. CASE n # k
      <4>1. i \in asked[c]
        BY <2>8, <3>4
      <4>2. call[n].id = i
        BY <3>1, <4>1 DEF IdIsMine
      <4>3. Connection(n) # srv.cd
        BY <1>3, <3>1, <3>4 DEF OneRequest
      <4>4. call[n].cd # srv.cd
        BY <1>3, <3>1, <4>3, ConnAssumption DEF RightConnection
      <4> QED
        BY <2>5, <4>2, <4>4
    <3> QED
      BY <3>3, <3>4
  <2>16. \A n \in Calls : CallInv(n)'
    BY <2>5, <2>6, <2>7, <2>10, ServedCallInv
  <2> QED
    BY <2>11, <2>12, <2>13, <2>14, <2>15, <2>16
<1> QED
  BY <1>4, <1>5

LEMMA AnswerArrivesAInv ==
    ASSUME IInv, AInv, NEW c \in Conns, NEW i \in RequestIds, AnswerArrives(c, i)
    PROVE  AInv'
<1> USE DEF AInv
<1> DEFINE k == request[c][i]
<1>1. /\ UNCHANGED <<conn, fcb, posted, request, call, timedOut>>
      /\ srv.at = "idle" /\ ~Busy(ServerThread) /\ conn[c] = "open" /\ i \in asked[c]
      /\ asked' = [asked EXCEPT ![c] = @ \ {i}]
      /\ srv' = IF fcb[c] = NoCall THEN srv ELSE Doing("match", c, fcb[c], i)
  BY DEF AnswerArrives, ServerIdle
<1>2. IInv'
  BY AnswerArrivesInvariant
<1>3. i \in DOMAIN request[c] /\ k \in Calls /\ Requested(k) /\ Awaited(k)
  BY <1>1 DEF IInv, TypeOK, ServerHolds, Requested, Awaited
<1>4. Begun(k) /\ call[k].stage \notin Early /\ Connection(k) = c /\ Open(k)
  BY <1>1, <1>3, CallsBehind DEF IInv, PostedOnce, RightConnection, Open
<1>5. \A d \in Conns : \A j : j \in asked'[d] <=> j \in asked[d] /\ ~(d = c /\ j = i)
  BY <1>1 DEF IInv, TypeOK
<1>6. \A n : Awaited(n)' => Awaited(n)
  BY <1>1, <1>5 DEF Awaited
<1>7. /\ srv'.at \in {"idle", "match"}
      /\ srv'.at = "match" => srv'.cd = c /\ srv'.id = i /\ srv'.call = fcb[c] /\ srv'.call # NoCall
  BY <1>1 DEF Doing
<1>8. \A n : Handled(n)' => n = k
  BY <1>1, <1>7 DEF Handled
<1>9. \A n : Outstanding(n)' => Outstanding(n)
  BY <1>1, <1>3, <1>6, <1>8 DEF Outstanding, Posted
<1>10. Serves
  BY <1>1, <1>2 DEF Serves, IInv, TypeOK
<1>11. PostedOnce' /\ RequestedOnce' /\ RightConnection'
  BY <1>1, <1>10, ServedLedger
<1>12. HandlersHold'
  BY <1>1, <1>5, <1>7 DEF HandlersHold
<1>13. WakeIsExcused' /\ Turns' /\ OneRequest' /\ PointerIsMine'
       /\ StrayAnswersHaveCause' /\ AnswersAreFinal'
  BY <1>1, <1>7, <1>9, <1>10, ServesKeeps, ServedAnswers DEF WakeIsExcused
<1>14. HandlerIsMine'
  <2> SUFFICES ASSUME NEW n \in Calls, Active(n)', Quiet(n)', Handled(n)'
               PROVE  srv'.call = n
    BY DEF HandlerIsMine
  <2>1. n = k /\ srv'.at = "match"
    BY <1>7, <1>8 DEF Handled
  <2>2. Active(k) /\ Quiet(k) /\ call[k].stage # "install"
    BY <1>4, <1>10, <2>1, ServedFields DEF Early
  <2> QED
    BY <1>4, <1>7, <2>1, <2>2 DEF PointerIsMine
<1>15. IdIsMine'
  <2> SUFFICES ASSUME NEW n \in Calls, NEW d \in Conns, NEW j \in DOMAIN request[d],
                      Active(n)', Quiet(n)', request[d][j] = n,
                      j \in asked'[d] \/ (srv'.at = "match" /\ srv'.cd = d /\ srv'.id = j)
               PROVE  call[n].id = j
    BY <1>1 DEF IdIsMine
  <2>1. j \in asked[d]
    BY <1>1, <1>5, <1>7
  <2>2. Active(n) /\ Quiet(n)
    BY <1>10, ServedFields
  <2> QED
    BY <2>1, <2>2 DEF IdIsMine
<1>16. \A n \in Calls : CallInv(n)'
  BY <1>1, <1>7, <1>9, <1>10, ServedCallInv
<1> QED
  BY <1>11, <1>12, <1>13, <1>14, <1>15, <1>16

\* An answer that a call takes is its own, unless the call is disturbed.
LEMMA OwnAnswer ==
    ASSUME IInv, AInv, srv.at = "match", NEW m \in Calls, Active(m),
           call[m].cd = srv.cd, ~Disturbed(m)
    PROVE  request[srv.cd][srv.id] = m
<1> DEFINE k == request[srv.cd][srv.id]
<1>1. /\ srv.cd \in Conns /\ k \in Calls /\ Begun(k) /\ Outstanding(k)
      /\ Connection(k) = srv.cd
  BY HandledCall
<1>2. Begun(m) /\ Quiet(m)
  BY UndisturbedIsQuiet DEF AInv, Turns, Active, ActiveStages, Begun
<1>3. Connection(m) = srv.cd
  BY <1>1, <1>2, ConnAssumption DEF AInv, RightConnection
<1> QED
  BY <1>1, <1>2, <1>3 DEF AInv, OneRequest

LEMMA MatchAnswerAInv ==
    ASSUME IInv, AInv, NEW m \in Calls \cup {NoCall}, MatchAnswer(m)
    PROVE  AInv'
<1> USE DEF AInv
<1> DEFINE k == request[srv.cd][srv.id]
<1>1. /\ UNCHANGED <<conn, fcb, posted, asked, request, timedOut>>
      /\ srv.at = "match" /\ m \in SecondRead
  BY DEF MatchAnswer
<1>2. IInv' /\ ~Busy(ServerThread)
  BY <1>1, MatchAnswerInvariant DEF Turns
<1>3. /\ srv.cd \in Conns /\ k \in Calls /\ Begun(k) /\ Outstanding(k) /\ ~Posted(k)
      /\ ~Awaited(k) /\ Connection(k) = srv.cd /\ call[k].stage \notin Early
      /\ \A n : Handled(n) <=> n = k
  BY <1>1, HandledCall
<1>4. CASE BadObject(m)
  BY <1>1, <1>4, FrozenAInv DEF MatchAnswer
<1>5. CASE ~BadObject(m)
  <2> DEFINE hit == call[m].cd = srv.cd /\ call[m].id = srv.id
  <2>1. m \in Calls /\ Active(m)
    BY <1>5 DEF BadObject
  <2>2. /\ call' = IF hit THEN [call EXCEPT ![m].result = k] ELSE call
        /\ srv' = IF hit /\ MustWake(m) THEN Doing("wake", srv.cd, m, srv.id) ELSE SrvIdle
    BY <1>5 DEF MatchAnswer
  <2>3. call \in [Calls -> CallRecord]
    BY DEF IInv, TypeOK
  <2>4. /\ \A n \in Calls : \A f \in {"stage", "thread", "fun", "cd", "id", "waitMux", "locked"} :
             call'[n][f] = call[n][f]
        /\ \A n \in Calls : call'[n].result = IF hit /\ n = m THEN k ELSE call[n].result
    BY <2>1, <2>2, <2>3 DEF CallRecord
  <2>5. /\ srv'.at \in {"idle", "wake"}
        /\ srv'.at = "wake" => hit /\ srv'.cd = srv.cd /\ srv'.call = m
    BY <2>2 DEF SrvIdle, Doing
  <2>6. Serves
    BY <1>1, <1>2, <2>4 DEF Serves, IInv, TypeOK
  <2>7. \A n : ~Handled(n)'
    BY <2>5 DEF Handled
  <2>8. \A n : Outstanding(n)' <=> Outstanding(n) /\ n # k
    BY <1>1, <1>3, <2>7 DEF Outstanding, Posted, Awaited
  <2>9. PostedOnce' /\ RequestedOnce' /\ RightConnection'
    BY <1>1, <2>4, <2>6, ServedLedger
  <2>10. HandlersHold'
    <3>1. call[m].stage \notin {"none", "install"}
      BY <1>1, <1>3, <2>1, NullIsNoCall DEF HandlersHold, SecondRead
    <3> QED
      BY <1>1, <2>1, <2>4, <2>5, <3>1 DEF HandlersHold, IInv, TypeOK
  <2>11. Turns' /\ OneRequest' /\ PointerIsMine'
    BY <2>6, <2>8, ServesKeeps
  <2>12. WakeIsExcused'
    BY <1>3, <2>1, <2>4, <2>5, NullIsNoCall DEF WakeIsExcused, Excused
  <2>13. StrayAnswersHaveCause'
    <3> SUFFICES ASSUME NEW n \in Calls, call'[n].result \notin {n, NoCall}
                 PROVE  Disturbed(n)'
      BY DEF StrayAnswersHaveCause, Disturbed
    <3>1. CASE hit /\ n = m
      <4>1. Disturbed(n)
        BY <1>1, <2>1, <2>4, <3>1, OwnAnswer
      <4> QED
        BY <2>1, <2>6, <3>1, <4>1, ServedFields
    <3>2. CASE ~(hit /\ n = m)
      <4>1. Disturbed(n) /\ Begun(n)
        BY <2>4, <3>2 DEF StrayAnswersHaveCause, AnswersAreFinal, Disturbed
      <4> QED
        BY <2>6, <4>1, ServedFields
    <3> QED
      BY <3>1, <3>2
  <2>14. AnswersAreFinal'
    <3>1. \A n \in Calls : call[n].result \in Calls \cup {NoCall}
      BY <2>3 DEF CallRecord
    <3>2. \A n \in Calls : call'[n].result # NoCall =>
            /\ Begun(n)'
            /\ call'[n].result \in Calls
            /\ call'[n].result = k \/ ~Outstanding(call'[n].result)
            /\ call[call'[n].result].stage \notin Early
      BY <1>3, <2>1, <2>4, <2>6, <3>1, ServedFields DEF AnswersAreFinal, Active, ActiveStages, Begun
    <3>3. \A n \in Calls : call'[n].stage = call[n].stage
      BY <2>4
    <3> QED
      BY <2>8, <3>2, <3>3 DEF AnswersAreFinal
  <2>15. HandlerIsMine' /\ IdIsMine'
    <3>1. \A n \in Calls : call'[n].id = call[n].id
      BY <2>4
    <3> QED
      BY <1>1, <2>5, <2>6, <2>7, <3>1, ServedFields DEF HandlerIsMine, IdIsMine
  <2>16. ASSUME NEW n \in Calls PROVE CallInv(n)'
    <3>1. CASE ~(hit /\ n = m)
      BY <1>1, <2>4, <2>5, <2>6, <2>8, <3>1, ServedCallInv
    <3>2. CASE hit /\ n = m
      <4>1. CallInv(n) /\ Active(n) /\ Begun(n)
        BY <2>1, <3>2 DEF Active, ActiveStages, Begun
      <4>2. /\ call'[n].stage = call[n].stage /\ call'[n].thread = call[n].thread
            /\ call'[n].waitMux = call[n].waitMux /\ call'[n].locked = call[n].locked
            /\ call'[n].result = k /\ k # NoCall
            /\ (~Disturbed(n)' => ~Disturbed(n)) /\ (Open(n)' => Open(n))
        BY <1>3, <2>4, <2>6, <3>2, <4>1, ServedFields, NullIsNoCall
      <4>3. ServerCall(n)'
        BY <1>2, <4>1, <4>2 DEF ServerCall, Busy
      <4>4. MayEnd(n)'
        BY <4>2 DEF MayEnd, Excused
      <4>5. Calm(n)'
        <5> SUFFICES ASSUME Begun(n), ~Disturbed(n), n \notin timedOut, Open(n)
                     PROVE  /\ ~Done(n)
                            /\ call[n].stage \in {"clear", "unlock"} => call[n].locked
          BY <1>1, <4>1, <4>2 DEF Calm, Done
        <5>1. k = n
          BY <1>1, <2>1, <3>2, OwnAnswer
        <5> QED
          BY <1>3, <4>1, <5>1 DEF CallInv, Calm
      <4>6. Flag(n)'
        BY <4>1, <4>2 DEF CallInv, Flag
      <4> QED
        BY <4>3, <4>4, <4>5, <4>6 DEF CallInv
    <3> QED
      BY <3>1, <3>2
  <2> QED
    BY <2>9, <2>10, <2>11, <2>12, <2>13, <2>14, <2>15, <2>16
<1> QED
  BY <1>4, <1>5

LEMMA WakeCallerAInv ==
    ASSUME IInv, AInv, WakeCaller
    PROVE  AInv'
<1> USE DEF AInv
<1> DEFINE m == srv.call
<1>1. UNCHANGED <<fcb, posted, asked, request, timedOut>> /\ srv.at = "wake"
  BY DEF WakeCaller
<1>2. IInv' /\ ~Busy(ServerThread) /\ m \in Calls /\ srv.cd \in Conns
  BY <1>1, WakeCallerInvariant DEF Turns, IInv, ServerHolds
<1>3. CASE UNCHANGED <<call, conn, srv>>
  BY <1>1, <1>3, FrozenAInv
<1>4. CASE /\ Active(m) /\ call[m].locked
           /\ call' = [call EXCEPT ![m].locked = FALSE]
           /\ conn' = FreeClosing(srv.cd)
           /\ srv' = SrvIdle
  <2>1. call \in [Calls -> CallRecord] /\ conn \in [Conns -> {"open", "closing", "freed"}]
    BY DEF IInv, TypeOK
  <2>2. /\ \A n \in Calls : \A f \in {"stage", "thread", "fun", "cd", "id", "result", "waitMux"} :
             call'[n][f] = call[n][f]
        /\ \A n \in Calls : call'[n].locked = IF n = m THEN FALSE ELSE call[n].locked
    BY <1>2, <1>4, <2>1 DEF CallRecord
  <2>3. \A c \in Conns : conn'[c] = "open" <=> conn[c] = "open"
    BY <1>2, <1>4, <2>1 DEF FreeClosing
  <2>4. srv'.at = "idle"
    BY <1>4 DEF SrvIdle, Doing
  <2>5. Serves
    BY <1>1, <1>2, <2>2, <2>3, <2>4 DEF Serves, IInv, TypeOK
  <2>6. \A n : ~Handled(n)' /\ (Outstanding(n)' <=> Outstanding(n))
    BY <1>1, <2>4 DEF Handled, Outstanding, Posted, Awaited
  <2>7. PostedOnce' /\ RequestedOnce' /\ RightConnection'
    BY <1>1, <2>2, <2>5, ServedLedger
  <2>8. HandlersHold'
    BY <1>1, <2>2, <2>4 DEF HandlersHold, IInv, TypeOK
  <2>9. WakeIsExcused' /\ Turns' /\ OneRequest' /\ PointerIsMine'
        /\ StrayAnswersHaveCause' /\ AnswersAreFinal'
    BY <2>2, <2>4, <2>5, <2>6, ServesKeeps, ServedAnswers DEF WakeIsExcused
  <2>10. HandlerIsMine' /\ IdIsMine'
    <3>1. \A n \in Calls : call'[n].id = call[n].id
      BY <2>2
    <3> QED
      BY <1>1, <2>4, <2>5, <2>6, <3>1, ServedFields DEF HandlerIsMine, IdIsMine
  <2>11. ASSUME NEW n \in Calls PROVE CallInv(n)'
    <3>1. CASE n # m
      BY <2>2, <2>4, <2>5, <2>6, <3>1, ServedCallInv
    <3>2. CASE n = m
      <4>1. CallInv(n) /\ Begun(n) /\ Excused(n)
        BY <1>1, <1>4, <3>2 DEF Active, ActiveStages, Begun, WakeIsExcused
      <4>2. /\ call'[n].stage = call[n].stage /\ call'[n].thread = call[n].thread
            /\ call'[n].waitMux = call[n].waitMux /\ call'[n].result = call[n].result
            /\ (~Disturbed(n)' => ~Disturbed(n)) /\ (Open(n)' => Open(n))
        BY <2>2, <2>5, <4>1, ServedFields
      <4>3. ServerCall(n)'
        BY <1>2, <1>4, <3>2, <4>2 DEF ServerCall, Busy
      <4>4. MayEnd(n)'
        BY <4>1, <4>2 DEF MayEnd, Excused
      <4>5. Calm(n)'
        <5> SUFFICES ASSUME ~Disturbed(n), n \notin timedOut, Open(n)
                     PROVE  ~Outstanding(n) /\ call[n].stage \notin {"clear", "unlock"}
          BY <1>1, <2>4, <2>6, <4>1, <4>2 DEF Calm, Done
        <5>1. call[n].result = n
          BY <4>1 DEF Excused, StrayAnswersHaveCause, Disturbed
        <5>2. ~Outstanding(n)
          BY <5>1, NullIsNoCall DEF AnswersAreFinal
        <5>3. ~Done(n)
          BY <1>1, <3>2, <4>1 DEF CallInv, Calm
        <5> QED
          BY <5>2, <5>3 DEF Done, Late
      <4>6. Flag(n)'
        BY <4>1, <4>2 DEF CallInv, Flag
      <4> QED
        BY <4>3, <4>4, <4>5, <4>6 DEF CallInv
    <3> QED
      BY <3>1, <3>2
  <2> QED
    BY <2>7, <2>8, <2>9, <2>10, <2>11
<1> QED
  BY <1>3, <1>4 DEF WakeCaller

LEMMA CloseAInv ==
    ASSUME IInv, AInv, NEW c \in Conns, Close(c)
    PROVE  AInv'
<1> USE DEF AInv
<1>1. /\ UNCHANGED <<fcb, posted, asked, request, call, timedOut>>
      /\ srv.at = "idle" /\ ~Busy(ServerThread) /\ conn' = [conn EXCEPT ![c] = "closing"]
      /\ srv'.at = "delete"
  BY DEF Close, ServerIdle, Doing
<1>2. IInv'
  BY CloseInvariant
<1>3. Serves
  BY <1>1, <1>2 DEF Serves, IInv, TypeOK
<1>4. \A n : ~Handled(n)' /\ (Outstanding(n)' <=> Outstanding(n))
  BY <1>1 DEF Handled, Outstanding, Posted, Awaited
<1>5. PostedOnce' /\ RequestedOnce' /\ RightConnection'
  BY <1>1, <1>3, ServedLedger
<1>6. HandlersHold'
  BY <1>1 DEF HandlersHold
<1>7. WakeIsExcused' /\ Turns' /\ OneRequest' /\ PointerIsMine'
      /\ StrayAnswersHaveCause' /\ AnswersAreFinal'
  BY <1>1, <1>3, <1>4, ServesKeeps, ServedAnswers DEF WakeIsExcused
<1>8. HandlerIsMine' /\ IdIsMine'
  BY <1>1, <1>3, <1>4, ServedFields DEF HandlerIsMine, IdIsMine
<1>9. \A n \in Calls : CallInv(n)'
  BY <1>1, <1>3, <1>4, ServedCallInv
<1> QED
  BY <1>5, <1>6, <1>7, <1>8, <1>9

LEMMA DeleteConnectionAInv ==
    ASSUME IInv, AInv, DeleteConnection
    PROVE  AInv'
<1> USE DEF AInv
<1>1. /\ UNCHANGED <<fcb, posted, asked, request, call, timedOut>>
      /\ srv.at = "delete" /\ ~Busy(ServerThread) /\ srv.cd \in Conns
      /\ srv'.at \in {"idle", "detach"}
      /\ srv'.at = "detach" => srv'.call = fcb[srv.cd]
      /\ conn' = conn \/ conn' = FreeClosing(srv.cd)
  BY DEF DeleteConnection, Turns, Doing, SrvIdle, IInv, ServerHolds
<1>2. IInv'
  BY DeleteConnectionInvariant
<1>3. \A c \in Conns : conn'[c] = "open" => conn[c] = "open"
  BY <1>1, FreeClosingType DEF IInv
<1>4. Serves
  BY <1>1, <1>2, <1>3 DEF Serves, IInv, TypeOK
<1>5. \A n : ~Handled(n)' /\ (Outstanding(n)' <=> Outstanding(n))
  BY <1>1 DEF Handled, Outstanding, Posted, Awaited
<1>6. PostedOnce' /\ RequestedOnce' /\ RightConnection'
  BY <1>1, <1>4, ServedLedger
<1>7. HandlersHold'
  BY <1>1 DEF HandlersHold
<1>8. WakeIsExcused' /\ Turns' /\ OneRequest' /\ PointerIsMine'
      /\ StrayAnswersHaveCause' /\ AnswersAreFinal'
  BY <1>1, <1>4, <1>5, ServesKeeps, ServedAnswers DEF WakeIsExcused
<1>9. HandlerIsMine' /\ IdIsMine'
  BY <1>1, <1>4, <1>5, ServedFields DEF HandlerIsMine, IdIsMine
<1>10. \A n \in Calls : CallInv(n)'
  BY <1>1, <1>4, <1>5, ServedCallInv
<1> QED
  BY <1>6, <1>7, <1>8, <1>9, <1>10

LEMMA DetachCallAInv ==
    ASSUME IInv, AInv, NEW m \in Calls \cup {NoCall}, DetachCall(m)
    PROVE  AInv'
<1> USE DEF AInv
<1>1. /\ UNCHANGED <<fcb, posted, asked, request, timedOut>>
      /\ srv.at = "detach" /\ m \in SecondRead
  BY DEF DetachCall
<1>2. IInv' /\ ~Busy(ServerThread) /\ srv.cd \in Conns /\ conn[srv.cd] = "closing"
  BY <1>1, DetachCallInvariant DEF Turns, IInv, ServerHolds
<1>3. CASE BadObject(m)
  BY <1>1, <1>3, FrozenAInv DEF DetachCall
<1>4. CASE ~BadObject(m)
  <2> DEFINE hit == call[m].cd = srv.cd
  <2>1. m \in Calls /\ Active(m) /\ Begun(m)
    BY <1>4 DEF BadObject, Active, ActiveStages, Begun
  <2>2. /\ call' = IF hit THEN [call EXCEPT ![m].cd = NoConn] ELSE call
        /\ \/ hit /\ srv' = Doing("wake", srv.cd, m, srv.id) /\ conn' = conn
           \/ srv' = SrvIdle /\ conn' = FreeClosing(srv.cd)
    BY <1>4 DEF DetachCall
  <2>3. call \in [Calls -> CallRecord]
    BY DEF IInv, TypeOK
  <2>4. /\ \A n \in Calls : \A f \in {"stage", "thread", "fun", "id", "result", "waitMux", "locked"} :
             call'[n][f] = call[n][f]
        /\ \A n \in Calls : call'[n].cd = IF hit /\ n = m THEN NoConn ELSE call[n].cd
    BY <2>1, <2>2, <2>3 DEF CallRecord
  <2>5. /\ srv'.at \in {"idle", "wake"}
        /\ srv'.at = "wake" => hit /\ srv'.cd = srv.cd /\ srv'.call = m
    BY <2>2 DEF SrvIdle, Doing
  <2>6. \A c \in Conns : conn'[c] = "open" => conn[c] = "open"
    BY <1>2, <2>2, FreeClosingType DEF IInv
  <2>7. Serves
    BY <1>1, <1>2, <2>4, <2>6 DEF Serves, IInv, TypeOK
  <2>8. \A n : ~Handled(n)' /\ (Outstanding(n)' <=> Outstanding(n))
    BY <1>1, <2>5 DEF Handled, Outstanding, Posted, Awaited
  <2>9. PostedOnce' /\ RequestedOnce'
    <3>1. \A n : Posted(n)' = Posted(n) /\ Requested(n)' = Requested(n)
      BY <1>1 DEF Posted, Requested
    <3> QED
      BY <1>1, <2>7, <3>1, ServedFields DEF PostedOnce, RequestedOnce
  <2>10. hit => Connection(m) = srv.cd /\ ~Open(m)
    BY <1>2, <2>1, ConnAssumption DEF RightConnection, Open
  <2>11. RightConnection'
    <3>1. /\ \A k \in DOMAIN posted : posted[k].call \in Calls /\ Begun(posted[k].call)
          /\ \A c \in Conns : \A i \in DOMAIN request[c] : request[c][i] \in Calls
      BY CallsBehind DEF IInv
    <3>2. (\A n \in Calls : Begun(n) =>
             /\ call[n].fun \in Callbacks
             /\ call[n].cd \in {Connection(n), NoConn}
             /\ Open(n) => call[n].cd = Connection(n))'
      BY <2>1, <2>4, <2>7, <2>10, ServedFields DEF RightConnection
    <3>3. (/\ \A k \in DOMAIN posted :
                /\ posted[k].cd \in {Connection(posted[k].call), NoConn}
                /\ Open(posted[k].call) => posted[k].cd = Connection(posted[k].call)
           /\ \A c \in Conns : \A i \in DOMAIN request[c] : Connection(request[c][i]) = c)'
      BY <1>1, <2>7, <3>1, ServedFields DEF RightConnection
    <3> QED
      BY <3>2, <3>3 DEF RightConnection
  <2>12. HandlersHold'
    <3>1. call[m].stage \notin {"none", "install"}
      BY <1>1, <1>2, <2>1, NullIsNoCall DEF HandlersHold, SecondRead
    <3> QED
      BY <1>1, <2>1, <2>4, <2>5, <3>1 DEF HandlersHold, IInv, TypeOK
  <2>13. Turns' /\ OneRequest' /\ PointerIsMine' /\ StrayAnswersHaveCause' /\ AnswersAreFinal'
    BY <2>4, <2>7, <2>8, ServesKeeps, ServedAnswers
  <2>14. WakeIsExcused'
    BY <2>1, <2>5, <2>7, <2>10, ServedFields DEF WakeIsExcused, Excused
  <2>15. HandlerIsMine' /\ IdIsMine'
    <3>1. \A n \in Calls : call'[n].id = call[n].id
      BY <2>4
    <3> QED
      BY <1>1, <2>5, <2>7, <2>8, <3>1, ServedFields DEF HandlerIsMine, IdIsMine
  <2>16. ASSUME NEW n \in Calls PROVE CallInv(n)'
    <3>1. CASE ~(hit /\ n = m)
      BY <1>1, <2>4, <2>5, <2>7, <2>8, <3>1, ServedCallInv
    <3>2. CASE hit /\ n = m
      <4>1. CallInv(n) /\ Begun(n) /\ ~Open(n)
        BY <2>1, <2>10, <3>2
      <4>2. /\ call'[n].stage = call[n].stage /\ call'[n].thread = call[n].thread
            /\ call'[n].waitMux = call[n].waitMux /\ call'[n].result = call[n].result
            /\ call'[n].locked = call[n].locked /\ Begun(n)' = Begun(n)
            /\ timedOut' = timedOut /\ ~Open(n)'
        BY <1>1, <2>4, <2>7, <4>1, ServedFields
      <4>3. ServerCall(n)' /\ MayEnd(n)' /\ Calm(n)' /\ Flag(n)'
        BY <4>1, <4>2 DEF CallInv, ServerCall, MayEnd, Excused, Calm, Flag
      <4> QED
        BY <4>3 DEF CallInv
    <3> QED
      BY <3>1, <3>2
  <2> QED
    BY <2>9, <2>11, <2>12, <2>13, <2>14, <2>15, <2>16
<1> QED
  BY <1>3, <1>4

-----------------------------------------------------------------------------
(* The invariant.                                                          *)

LEMMA InitAInv == Init => AInv
<1> SUFFICES ASSUME Init PROVE AInv
  OBVIOUS
<1>1. \A n \in Calls : call[n] = NoObject
  BY DEF Init
<1>2. /\ posted = << >> /\ srv.at = "idle"
      /\ \A c \in Conns : asked[c] = {} /\ request[c] = << >> /\ fcb[c] = NoCall
  BY DEF Init, SrvIdle, Doing
<1>3. \A n : ~Posted(n) /\ ~Requested(n) /\ ~Handled(n) /\ ~Outstanding(n)
  BY <1>2 DEF Posted, Requested, Awaited, Handled, Outstanding
<1>4. \A n \in Calls : ~Active(n) /\ ~Begun(n) /\ call[n].result = NoCall /\ call[n].stage = "none"
  BY <1>1 DEF NoObject, Active, ActiveStages, Begun
<1>5. PostedOnce /\ RequestedOnce /\ RightConnection
  BY <1>2, <1>3, <1>4 DEF PostedOnce, RequestedOnce, RightConnection
<1>6. HandlersHold /\ Turns /\ WakeIsExcused /\ StrayAnswersHaveCause /\ AnswersAreFinal
  BY <1>2, <1>4 DEF HandlersHold, Turns, WakeIsExcused, StrayAnswersHaveCause, AnswersAreFinal
<1>7. OneRequest /\ PointerIsMine /\ HandlerIsMine /\ IdIsMine
  BY <1>4 DEF OneRequest, PointerIsMine, HandlerIsMine, IdIsMine
<1>8. \A n \in Calls : CallInv(n)
  BY <1>4 DEF CallInv, ServerCall, MayEnd, Calm, Flag, Late
<1> QED
  BY <1>5, <1>6, <1>7, <1>8 DEF AInv

LEMMA StepAInv == IInv /\ AInv /\ [Next]_vars => AInv'
<1> SUFFICES ASSUME IInv, AInv, [Next]_vars PROVE AInv'
  OBVIOUS
<1>1. IInv'
  BY StepInvariant
<1>2. CASE UNCHANGED vars
  BY <1>2, FrozenAInv DEF vars
<1>3. ASSUME NEW t \in Threads, NEW f \in Callbacks, NEW n \in Calls, Begin(t, f, n)
      PROVE  AInv'
  BY <1>3, BeginAInv
<1>4. ASSUME NEW n \in Calls, CallerStep(n) \/ Timeout(n)
      PROVE  AInv'
  BY <1>1, <1>4, CallerAInv, PostAInv DEF CallerStep
<1>5. ASSUME NEW c \in Conns, NEW i \in RequestIds, AnswerArrives(c, i)
      PROVE  AInv'
  BY <1>5, AnswerArrivesAInv
<1>6. ASSUME NEW c \in Conns, Close(c)
      PROVE  AInv'
  BY <1>6, CloseAInv
<1>7. ASSUME ServerStep
      PROVE  AInv'
  BY <1>7, HandleRequestAInv, TagAndSendAInv, WakeCallerAInv, DeleteConnectionAInv,
     MatchAnswerAInv, DetachCallAInv DEF ServerStep
<1> QED
  BY <1>2, <1>3, <1>4, <1>5, <1>6, <1>7 DEF Next, Step

\* What the program knows of its calls, requests and answers in every
\* reachable state.
THEOREM AnswersInvariant == Spec => [](IInv /\ AInv)
<1>1. Init => IInv /\ AInv
  BY InitInvariant, InitAInv
<1>2. IInv /\ AInv /\ [Next]_vars => IInv' /\ AInv'
  BY StepInvariant, StepAInv
<1> QED
  BY <1>1, <1>2, PTL DEF Spec

\* fastCallbackReturnArrived gives a call the answer to another call's request
\* only if a call on the same connection ran into its timeout or another
\* thread of QUIK has called on it.
THEOREM AnswersGoAstrayForCause == Spec => []StrayAnswersHaveCause
<1>1. AInv => StrayAnswersHaveCause
  BY DEF AInv
<1> QED
  BY <1>1, AnswersInvariant, PTL

-----------------------------------------------------------------------------
(* Undefined behaviour.                                                    *)

\* A call that is not open has a closed connection, one that is disturbed
\* has a timeout or a rival.
LEMMA CauseOfDisturbance ==
    ASSUME RightConnection, NEW n \in Calls, Begun(n)
    PROVE  /\ ~Open(n) => SomeClosed
           /\ Disturbed(n) \/ n \in timedOut => SomeTimedOut \/ SomeRivals
  BY ConnectionType DEF Open, SomeClosed, SomeTimedOut, SomeRivals, RivalsOf, Disturbed, Disturbs

\* A call that nobody disturbs and whose request is still on its way is awake
\* and at hand.
LEMMA CalmCallIsFound ==
    ASSUME IInv, AInv, ~Busy(ServerThread), NEW k \in Calls, Begun(k), Open(k),
           Outstanding(k), call[k].stage \notin Early, ~Disturbed(k), k \notin timedOut
    PROVE  Active(k) /\ Quiet(k) /\ fcb[Connection(k)] = k /\ (Handled(k) => srv.call = k)
<1>1. ~Done(k)
  BY DEF AInv, CallInv, Calm
<1>2. Active(k)
  BY <1>1 DEF IInv, TypeOK, CallRecord, Active, ActiveStages, Early, Late, Done
<1>3. Quiet(k)
  BY <1>2, UndisturbedIsQuiet
<1> QED
  BY <1>2, <1>3 DEF AInv, HandlerIsMine, PointerIsMine, Early

\* The call whose request a handler is at work on is the one the handler
\* finds, unless some call is disturbed.
LEMMA HandlerFindsCall ==
    ASSUME IInv, AInv, srv.at \in {"tag", "match"}, ~SomeTimedOut, ~SomeRivals
    PROVE  LET k == request[srv.cd][srv.id] IN
           k \in Calls /\ Active(k) /\ srv.call = k /\ fcb[srv.cd] = k
<1> DEFINE k == request[srv.cd][srv.id]
<1>1. /\ k \in Calls /\ Begun(k) /\ Outstanding(k) /\ Open(k) /\ Connection(k) = srv.cd
      /\ call[k].stage \notin Early /\ Handled(k)
  BY HandledCall
<1>2. ~Disturbed(k) /\ k \notin timedOut
  BY <1>1, CauseOfDisturbance DEF AInv
<1> QED
  BY <1>1, <1>2, CalmCallIsFound DEF AInv, Turns

\* The causes are events of the past: they do not go away.
LEMMA CausesStay ==
    ASSUME Grows, timedOut \subseteq Calls, conn' = conn
    PROVE  /\ SomeClosed => SomeClosed'
           /\ SomeTimedOut => SomeTimedOut'
           /\ SomeRivals => SomeRivals'
<1>1. SomeRivals => SomeRivals'
  <2> SUFFICES ASSUME NEW n \in Calls, NEW m \in Calls, m \in RivalsOf(n)
               PROVE  m \in RivalsOf(n)'
    BY DEF SomeRivals, RivalsOf
  <2> QED
    BY DEF RivalsOf, Rivals, Grows
<1> QED
  BY <1>1 DEF SomeClosed, SomeTimedOut, Grows

\* What may be said of a step into undefined behaviour.
Caused ==
    /\ Grows /\ conn' = conn
    /\ ub' = "unlockedEarly" \/ SomeTimedOut \/ SomeClosed \/ SomeRivals
    /\ ub' = "freedConnection" => SomeClosed
    /\ ub' = "nullObject" /\ srv'.at = "tag" => SomeTimedOut \/ SomeRivals

LEMMA CallerCaused ==
    ASSUME IInv, AInv, IInv', NEW n \in Calls, CallerStep(n) \/ Timeout(n),
           ub = "none", ub' # "none"
    PROVE  Caused
<1> USE DEF AInv
<1>1. Install(n) \/ Unlock(n) \/ ResetAndReturn(n)
  BY DEF CallerStep, Post, Lock, Woken, ClearWaitMux, TestConnection, Timeout
<1>2. MovesOn(n)
  BY <1>1, CallerMoves
<1>3. Grows /\ conn' = conn /\ srv' = srv /\ Begun(n)
  BY <1>2, MoveGrows DEF MovesOn, Moves, Active, ActiveStages, Begun
<1>4. /\ call[n].cd \in {Connection(n), NoConn} /\ Connection(n) \in Conns
      /\ Open(n) => call[n].cd = Connection(n)
  BY <1>3, ConnectionType DEF RightConnection
<1>5. CASE Install(n) \/ ResetAndReturn(n)
  <2>1. ub' = "freedConnection" /\ (call[n].cd = NoConn \/ conn[call[n].cd] = "freed")
    BY <1>5 DEF Install, ResetAndReturn
  <2>2. ~Open(n)
    BY <1>4, <2>1, ConnAssumption DEF Open
  <2> QED
    BY <1>3, <2>1, <2>2, CauseOfDisturbance DEF Caused
<1>6. CASE Unlock(n)
  <2>1. ub' = "unlockedTwice" /\ ~call[n].locked /\ call[n].stage = "unlock"
    BY <1>6 DEF Unlock
  <2>2. Calm(n)
    BY DEF CallInv
  <2>3. Disturbed(n) \/ n \in timedOut \/ ~Open(n)
    BY <1>3, <2>1, <2>2 DEF Calm
  <2> QED
    BY <1>3, <2>1, <2>3, CauseOfDisturbance DEF Caused
<1> QED
  BY <1>1, <1>5, <1>6

LEMMA ServerCaused ==
    ASSUME IInv, AInv, ServerStep, ub = "none", ub' # "none"
    PROVE  Caused
<1> USE DEF AInv
<1>1. \/ TagAndSend /\ BadObject(srv.call)
      \/ WakeCaller
      \/ \E m \in Calls \cup {NoCall} : (MatchAnswer(m) \/ DetachCall(m)) /\ BadObject(m)
  BY DEF ServerStep, HandleRequest, TagAndSend, DeleteConnection, MatchAnswer, DetachCall
<1>2. UNCHANGED <<call, timedOut, conn, srv>>
  BY <1>1 DEF TagAndSend, WakeCaller, MatchAnswer, DetachCall
<1>3. Grows
  BY <1>2 DEF Grows, Begun, Connection
<1>4. CASE TagAndSend /\ BadObject(srv.call)
  <2>1. srv.at = "tag" /\ ub' \in {"nullObject", "deadObject"}
    BY <1>4 DEF TagAndSend, BadObjectKind
  <2>2. SomeTimedOut \/ SomeRivals
    BY <1>4, <2>1, HandlerFindsCall, NullIsNoCall DEF BadObject
  <2> QED
    BY <1>2, <1>3, <2>1, <2>2 DEF Caused
<1>5. CASE WakeCaller
  <2> DEFINE m == srv.call
  <2>1. srv.at = "wake" /\ m \in Calls /\ call[m].stage \notin {"none", "install"} /\ Begun(m)
    BY <1>5, NullIsNoCall DEF WakeCaller, IInv, ServerHolds, HandlersHold, Begun
  <2>2. /\ ub' \in {"deadObject", "nullObject", "unlockedEarly", "unlockedTwice"}
        /\ ub' # "unlockedEarly" =>
             ~Active(m) \/ ~call[m].waitMux \/ (~call[m].locked /\ call[m].stage \notin {"post", "lock"})
    BY <1>5 DEF WakeCaller
  <2>3. Flag(m) /\ Calm(m)
    BY <2>1 DEF CallInv
  <2>4. ~SomeTimedOut /\ ~SomeClosed /\ ~SomeRivals => ~Done(m)
    BY <2>1, <2>3, CauseOfDisturbance DEF Calm
  <2>5. ~Done(m) => Active(m) /\ call[m].waitMux /\ (call[m].locked \/ call[m].stage \in {"post", "lock"})
    BY <2>1, <2>3 DEF Flag, Done, Late, IInv, TypeOK, CallRecord, Stages, Active, ActiveStages
  <2> QED
    BY <1>2, <1>3, <2>1, <2>2, <2>4, <2>5 DEF Caused
<1>6. ASSUME NEW m \in Calls \cup {NoCall}, MatchAnswer(m), BadObject(m)
      PROVE  Caused
  <2>1. srv.at = "match" /\ ub' \in {"nullObject", "deadObject"} /\ m \in {srv.call, fcb[srv.cd]}
    BY <1>6 DEF MatchAnswer, BadObjectKind, SecondRead
  <2>2. SomeTimedOut \/ SomeRivals
    BY <1>6, <2>1, HandlerFindsCall, NullIsNoCall DEF BadObject
  <2> QED
    BY <1>2, <1>3, <2>1, <2>2 DEF Caused
<1>7. ASSUME NEW m \in Calls \cup {NoCall}, DetachCall(m), BadObject(m)
      PROVE  Caused
  <2>1. srv.at = "detach" /\ ub' \in {"nullObject", "deadObject"}
    BY <1>7 DEF DetachCall, BadObjectKind
  <2>2. SomeClosed
    BY <2>1 DEF IInv, ServerHolds, SomeClosed
  <2> QED
    BY <1>2, <1>3, <2>1, <2>2 DEF Caused
<1> QED
  BY <1>1, <1>4, <1>5, <1>6, <1>7

LEMMA StepCauses ==
    ASSUME IInv, AInv, UndefinedBehaviourCauses, [Next]_vars
    PROVE  UndefinedBehaviourCauses'
<1>1. CASE UNCHANGED vars
  BY <1>1 DEF vars, UndefinedBehaviourCauses, SomeTimedOut, SomeClosed, SomeRivals,
     RivalsOf, Begun, Rivals, Connection
<1>2. CASE Next /\ ub' = "none"
  BY <1>2 DEF UndefinedBehaviourCauses
<1>3. CASE Next /\ ub' # "none"
  <2>1. Caused
    <3>1. ub = "none" /\ Step /\ IInv'
      BY <1>3, StepInvariant DEF Next
    <3>2. \/ \E n \in Calls : CallerStep(n) \/ Timeout(n)
          \/ ServerStep
      BY <1>3, <3>1 DEF Step, Begin, AnswerArrives, Close
    <3> QED
      BY <1>3, <3>1, <3>2, CallerCaused, ServerCaused
  <2>2. timedOut \subseteq Calls
    BY DEF IInv, TypeOK
  <2>3. /\ SomeClosed => SomeClosed'
        /\ SomeTimedOut => SomeTimedOut'
        /\ SomeRivals => SomeRivals'
    BY <2>1, <2>2, CausesStay DEF Caused
  <2> QED
    BY <2>1, <2>3 DEF UndefinedBehaviourCauses, Caused
<1> QED
  BY <1>1, <1>2, <1>3

\* Each kind of undefined behaviour needs the events that
\* UndefinedBehaviourCauses names; with a single thread of QUIK, no timeout
\* and no closed connection only waitMutex.lock() can be overtaken.
THEOREM CausesOfUndefinedBehaviour == Spec => []UndefinedBehaviourCauses
<1>1. Init => UndefinedBehaviourCauses
  BY DEF Init, UndefinedBehaviourCauses
<1>2. IInv /\ AInv /\ UndefinedBehaviourCauses /\ [Next]_vars => UndefinedBehaviourCauses'
  BY StepCauses
<1> QED
  BY <1>1, <1>2, AnswersInvariant, PTL DEF Spec

=============================================================================
