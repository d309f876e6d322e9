---------------------------- MODULE FastCallback ----------------------------
(***************************************************************************)
(* The synchronous callback of bridgetcpserver.cpp: QUIK calls a Lua       *)
(* function that stands for a function of a remote client, the calling     *)
(* thread posts a request to the Qt server thread and sleeps until the     *)
(* client's answer, the deletion of the connection or a timeout wakes it.  *)
(*                                                                         *)
(* The two threads share, without any lock, ConnectionData::fcbWaitResult  *)
(* and the fields of the FastCallbackRequestEventLoop object, which lives  *)
(* on the caller's stack.  Every access of either thread to that shared    *)
(* state is a step of its own here.  What C++ leaves undefined (a null or  *)
(* dangling object, a freed connection, the unlock of an unlocked QMutex)  *)
(* is recorded in ub, and the model stops there.                           *)
(***************************************************************************)
EXTENDS Integers, Sequences

CONSTANTS
    Conns,        \* ConnectionData objects
    NoConn,       \* the null ConnectionData pointer
    Callbacks,    \* registered FastCallbackFunctionData objects
    Owner,        \* Owner[f]: the connection that registered f (its cd)
    Fun,          \* Fun[f]: the pair objId, funName of f
    Threads,      \* threads on which QUIK may call a registered function
    ServerThread, \* the thread that runs the Qt event loop
    MaxCalls,     \* bound: number of callback calls in a behaviour
    Garbage       \* values the uninitialised member id may hold

Calls == 1..MaxCalls    \* the FastCallbackRequestEventLoop objects
NoCall == 0             \* the null FastCallbackRequestEventLoop pointer
RequestIds == 1..MaxCalls
NoThread == "no thread"

ASSUME MaxCallsAssumption == MaxCalls \in Nat \ {0}
ASSUME ConnAssumption == NoConn \notin Conns
ASSUME CallbackAssumption == Owner \in [Callbacks -> Conns]
ASSUME ThreadAssumption == NoThread \notin Threads
ASSUME GarbageAssumption == Garbage \subseteq Int

VARIABLES
    conn,     \* conn[c]: "open" while in m_connections, "closing" in
              \* ~ConnectionData, "freed" after it
    fcb,      \* fcb[c]: ConnectionData::fcbWaitResult
    posted,   \* posted fastCallbackRequestHandler events, oldest first
    asked,    \* asked[c]: ids of the requests the client has not answered
    request,  \* request[c]: the call behind each request sent, in id order;
              \* its length is ConnectionData::outMsgId
    call,     \* call[n]: the n-th call, its position in sendAndWaitResult
              \* and the fields of its object
    srv,      \* what the server thread is doing and the pointers it has read
    timedOut, \* history: the calls whose tryLock ran into its timeout
    ub        \* "none", or what undefined behaviour the program has run into

vars == <<conn, fcb, posted, asked, request, call, srv, timedOut, ub>>

-----------------------------------------------------------------------------
Stages == {"none", "install", "post", "lock", "wait", "clear", "unlock",
           "detach", "reset", "returned"}
ActiveStages == Stages \ {"none", "returned"}

CallRecord == [stage : Stages, thread : Threads \cup {NoThread},
               fun : Callbacks \cup {"none"}, cd : Conns \cup {NoConn},
               id : Int, result : Calls \cup {NoCall},
               waitMux : BOOLEAN, locked : BOOLEAN]
Event == [cd : Conns \cup {NoConn}, fun : Callbacks, call : Calls]

NoObject == [stage |-> "none", thread |-> NoThread, fun |-> "none",
             cd |-> NoConn, id |-> 0, result |-> NoCall,
             waitMux |-> FALSE, locked |-> FALSE]

Active(n) == call[n].stage \in ActiveStages   \* the object n exists

Doing(at, c, m, i) == [at |-> at, cd |-> c, call |-> m, id |-> i]
SrvIdle == Doing("idle", NoConn, NoCall, 0)
ServerSteps == {"idle", "tag", "match", "wake", "delete", "detach",
                "wakeDeleted"}

ServerRecord == [at : ServerSteps, cd : Conns \cup {NoConn},
                 call : Calls \cup {NoCall}, id : Nat]

\* A thread runs one call at a time: sendAndWaitResult blocks it.
Busy(t) == \E n \in Calls : Active(n) /\ call[n].thread = t

\* The event loop is between two handlers.
ServerIdle == srv.at = "idle" /\ ~Busy(ServerThread)

Init ==
    /\ conn = [c \in Conns |-> "open"]
    /\ fcb = [c \in Conns |-> NoCall]
    /\ posted = << >>
    /\ asked = [c \in Conns |-> {}]
    /\ request = [c \in Conns |-> << >>]
    /\ call = [n \in Calls |-> NoObject]
    /\ srv = SrvIdle
    /\ timedOut = {}
    /\ ub = "none"

-----------------------------------------------------------------------------
(* The calling thread.                                                     *)

\* fastCallbackRequest: the connection is still in m_connections; the
\* constructor leaves id uninitialised.
Begin(t, f, n) ==
    /\ ~Busy(t)
    /\ t = ServerThread => srv.at = "idle"
    /\ call[n].stage = "none"
    /\ n > 1 => call[n - 1].stage # "none"
    /\ conn[Owner[f]] = "open"
    /\ \E g \in Garbage :
         call' = [call EXCEPT ![n] = [stage |-> "install", thread |-> t,
                      fun |-> f, cd |-> Owner[f], id |-> g,
                      result |-> NoCall, waitMux |-> FALSE, locked |-> FALSE]]
    /\ UNCHANGED <<conn, fcb, posted, asked, request, srv, timedOut, ub>>

\* waitMux = &waitMutex; cd->fcbWaitResult = this
Install(n) ==
    /\ call[n].stage = "install"
    /\ call' = [call EXCEPT ![n].stage = "post", ![n].waitMux = TRUE]
    /\ IF conn[call[n].cd] = "freed"
         THEN ub' = "freedConnection" /\ UNCHANGED fcb
         ELSE fcb' = [fcb EXCEPT ![call[n].cd] = n] /\ UNCHANGED ub
    /\ UNCHANGED <<conn, posted, asked, request, srv, timedOut>>

\* invokeMethod(server, "fastCallbackRequestHandler", QueuedConnection, ...)
Post(n) ==
    /\ call[n].stage = "post"
    /\ posted' = Append(posted, [cd |-> call[n].cd, fun |-> call[n].fun,
                                 call |-> n])
    /\ call' = [call EXCEPT ![n].stage = "lock"]
    /\ UNCHANGED <<conn, fcb, asked, request, srv, timedOut, ub>>

\* waitMutex.lock().  Mutant: the first lock is forgotten.
Lock_Omitted(n) ==
    /\ call[n].stage = "lock"
    /\ call' = [call EXCEPT ![n].stage = "wait"]
    /\ UNCHANGED <<conn, fcb, posted, asked, request, srv, timedOut, ub>>
Lock(n) ==
    /\ call[n].stage = "lock"
    /\ call' = [call EXCEPT ![n].stage = "wait", ![n].locked = TRUE]
    /\ UNCHANGED <<conn, fcb, posted, asked, request, srv, timedOut, ub>>

\* waitMutex.tryLock(...) returns true: someone has unlocked the mutex.
\* Mutant: the wait may end on its own.
Woken_Spurious(n) ==
    /\ call[n].stage = "wait"
    /\ call' = [call EXCEPT ![n].stage = "clear", ![n].locked = TRUE]
    /\ UNCHANGED <<conn, fcb, posted, asked, request, srv, timedOut, ub>>
Woken(n) ==
    /\ call[n].stage = "wait"
    /\ ~call[n].locked
    /\ call' = [call EXCEPT ![n].stage = "clear", ![n].locked = TRUE]
    /\ UNCHANGED <<conn, fcb, posted, asked, request, srv, timedOut, ub>>

\* waitMutex.tryLock(...) returns false: FASTCALLBACK_TIMEOUT_SEC have passed.
\* Mutant: lock() instead of tryLock(...).
Timeout_Blocking(n) == FALSE
Timeout(n) ==
    /\ call[n].stage = "wait"
    /\ call[n].locked
    /\ call' = [call EXCEPT ![n].stage = "clear"]
    /\ timedOut' = timedOut \cup {n}
    /\ UNCHANGED <<conn, fcb, posted, asked, request, srv, ub>>

\* waitMux = nullptr
ClearWaitMux(n) ==
    /\ call[n].stage = "clear"
    /\ call' = [call EXCEPT ![n].stage = "unlock", ![n].waitMux = FALSE]
    /\ UNCHANGED <<conn, fcb, posted, asked, request, srv, timedOut, ub>>

\* waitMutex.unlock()
Unlock(n) ==
    /\ call[n].stage = "unlock"
    /\ call' = [call EXCEPT ![n].stage = "detach", ![n].locked = FALSE]
    /\ ub' = IF call[n].locked THEN ub ELSE "unlockedTwice"
    /\ UNCHANGED <<conn, fcb, posted, asked, request, srv, timedOut>>

\* if(cd): a deleted connection has reset the member, and the call returns.
TestConnection(n) ==
    /\ call[n].stage = "detach"
    /\ call' = [call EXCEPT ![n].stage = IF call[n].cd = NoConn
                                           THEN "returned" ELSE "reset"]
    /\ UNCHANGED <<conn, fcb, posted, asked, request, srv, timedOut, ub>>

\* cd->fcbWaitResult = nullptr; return result.  The member cd may have been
\* reset, or the connection freed, since it was tested.
\* Mutant: the pointer is left in the connection.
ResetAndReturn_KeepsPointer(n) ==
    /\ call[n].stage = "reset"
    /\ call' = [call EXCEPT ![n].stage = "returned"]
    /\ UNCHANGED <<conn, fcb, posted, asked, request, srv, timedOut, ub>>
ResetAndReturn(n) ==
    /\ call[n].stage = "reset"
    /\ call' = [call EXCEPT ![n].stage = "returned"]
    /\ IF call[n].cd = NoConn \/ conn[call[n].cd] = "freed"
         THEN ub' = "freedConnection" /\ UNCHANGED fcb
         ELSE fcb' = [fcb EXCEPT ![call[n].cd] = NoCall] /\ UNCHANGED ub
    /\ UNCHANGED <<conn, posted, asked, request, srv, timedOut>>

CallerStep(n) ==
    \/ Install(n) \/ Post(n) \/ Lock(n) \/ Woken(n) \/ ClearWaitMux(n)
    \/ Unlock(n) \/ TestConnection(n) \/ ResetAndReturn(n)

-----------------------------------------------------------------------------
(* The server thread.  A handler that reads a pointer and uses it later    *)
(* keeps it in srv, since the calling thread runs in between.              *)

\* Dereferencing the object pointer m.
BadObject(m) == m = NoCall \/ ~Active(m)
BadObjectKind(m) == IF m = NoCall THEN "nullObject" ELSE "deadObject"

\* The second read of a pointer that the code tests and then uses: either
\* the value in a register or a fresh one.
SecondRead == {srv.call, fcb[srv.cd]}

\* ++(cd->outMsgId).  Mutant: the value before the increment.
NextRequestId_Postfix(c) == Len(request[c])
NextRequestId(c) == Len(request[c]) + 1

\* The call whose event was the last to be turned into a request.
Last(s) == s[Len(s)]

\* fastCallbackRequestHandler up to the read of cd->fcbWaitResult; a
\* connection that has left m_connections is ignored.
HandleRequest ==
    /\ ServerIdle
    /\ posted # << >>
    /\ LET ev == Head(posted) IN
       IF ev.cd # NoConn /\ conn[ev.cd] = "open"
         THEN /\ request' = [request EXCEPT ![ev.cd] = Append(@, ev.call)]
              /\ srv' = Doing("tag", ev.cd, fcb[ev.cd], NextRequestId(ev.cd))
         ELSE UNCHANGED <<request, srv>>
    /\ UNCHANGED <<conn, fcb, call, asked, timedOut, ub>>
    /\ posted' = Tail(posted)

\* fastCallbackRequestSent on the object just read, then safeSendReq.
TagAndSend ==
    /\ srv.at = "tag"
    /\ LET m == srv.call
           ev == Last(request[srv.cd])   \* the call that posted the event
       IN IF BadObject(m)
            THEN ub' = BadObjectKind(m) /\ UNCHANGED <<call, asked, srv>>
            ELSE /\ call' = IF call[m].cd = srv.cd
                                 /\ Fun[call[m].fun] = Fun[call[ev].fun]
                              THEN [call EXCEPT ![m].id = srv.id] ELSE call
                 /\ asked' = [asked EXCEPT ![srv.cd] = @ \cup {srv.id}]
                 /\ srv' = SrvIdle
                 /\ UNCHANGED ub
    /\ UNCHANGED <<conn, fcb, posted, request, timedOut>>

\* protoAnsArrived for a "return": if(cd->fcbWaitResult).  The client
\* answers each request at most once, in any order and as late as it likes.
AnswerArrives(c, i) ==
    /\ ServerIdle
    /\ conn[c] = "open"
    /\ i \in asked[c]
    /\ asked' = [asked EXCEPT ![c] = @ \ {i}]
    /\ srv' = IF fcb[c] = NoCall THEN srv
              ELSE Doing("match", c, fcb[c], i)
    /\ UNCHANGED <<conn, fcb, posted, request, call, timedOut, ub>>

\* if(waitMux).  Mutant: the test is inverted.
MustWake_Inverted(m) == ~call[m].waitMux
MustWake(m) == call[m].waitMux

\* fastCallbackReturnArrived: the test on cd and id, result = res, and
\* if(waitMux)
MatchAnswer(m) ==
    /\ srv.at = "match"
    /\ m \in SecondRead
    /\ IF BadObject(m)
         THEN ub' = BadObjectKind(m) /\ UNCHANGED <<call, srv>>
         ELSE /\ IF call[m].cd = srv.cd /\ call[m].id = srv.id
                   THEN /\ call' = [call EXCEPT ![m].result =
                                       request[srv.cd][srv.id]]
                        /\ srv' = IF MustWake(m)
                                    THEN Doing("wake", srv.cd, m, srv.id)
                                    ELSE SrvIdle
                   ELSE srv' = SrvIdle /\ UNCHANGED call
              /\ UNCHANGED ub
    /\ UNCHANGED <<conn, fcb, posted, asked, request, timedOut>>

\* The end of ~ConnectionData frees the connection that is being deleted.
FreeClosing(c) == IF conn[c] = "closing" THEN [conn EXCEPT ![c] = "freed"]
                  ELSE conn

\* waitMux->unlock(), reached from an answer or from a deletion.
WakeCaller ==
    /\ srv.at = "wake"
    /\ LET m == srv.call IN
       \/ /\ ~Active(m)
          /\ ub' = "deadObject" /\ UNCHANGED <<call, conn, srv>>
       \/ /\ Active(m) /\ ~call[m].waitMux          \* waitMux is read again
          /\ ub' = "nullObject" /\ UNCHANGED <<call, conn, srv>>
       \/ /\ Active(m) /\ ~call[m].locked
          /\ ub' = IF call[m].stage \in {"post", "lock"}
                     THEN "unlockedEarly" ELSE "unlockedTwice"
          /\ UNCHANGED <<call, conn, srv>>
       \/ /\ Active(m) /\ call[m].locked
          /\ call' = [call EXCEPT ![m].locked = FALSE]
          /\ conn' = FreeClosing(srv.cd)
          /\ srv' = SrvIdle
          /\ UNCHANGED ub
    /\ UNCHANGED <<fcb, posted, asked, request, timedOut>>

\* protoFinished and protoError: the connection leaves m_connections and
\* its destructor starts.
Close(c) ==
    /\ ServerIdle
    /\ conn[c] = "open"
    /\ conn' = [conn EXCEPT ![c] = "closing"]
    /\ srv' = Doing("delete", c, NoCall, 0)
    /\ UNCHANGED <<fcb, posted, asked, request, call, timedOut, ub>>

\* ~ConnectionData: if(fcbWaitResult).  Mutant: the waiting call is not told.
DeleteConnection_Silent ==
    /\ srv.at = "delete"
    /\ conn' = FreeClosing(srv.cd)
    /\ srv' = SrvIdle
    /\ UNCHANGED <<fcb, posted, asked, request, call, timedOut, ub>>
DeleteConnection ==
    /\ srv.at = "delete"
    /\ IF fcb[srv.cd] = NoCall
         THEN conn' = FreeClosing(srv.cd) /\ srv' = SrvIdle
         ELSE /\ srv' = Doing("detach", srv.cd, fcb[srv.cd], 0)
              /\ UNCHANGED conn
    /\ UNCHANGED <<fcb, posted, asked, request, call, timedOut, ub>>

\* connectionDataDeleted: cd = nullptr and if(waitMux)
DetachCall(m) ==
    /\ srv.at = "detach"
    /\ m \in SecondRead
    /\ IF BadObject(m)
         THEN ub' = BadObjectKind(m) /\ UNCHANGED <<call, conn, srv>>
         ELSE /\ IF call[m].cd = srv.cd
                   THEN call' = [call EXCEPT ![m].cd = NoConn]
                   ELSE UNCHANGED call
              /\ IF call[m].cd = srv.cd /\ MustWake(m)
                   THEN /\ srv' = Doing("wake", srv.cd, m, srv.id)
                        /\ UNCHANGED conn
                   ELSE srv' = SrvIdle /\ conn' = FreeClosing(srv.cd)
              /\ UNCHANGED ub
    /\ UNCHANGED <<fcb, posted, asked, request, timedOut>>

ServerStep ==
    \/ HandleRequest \/ TagAndSend \/ WakeCaller \/ DeleteConnection
    \/ \E m \in Calls \cup {NoCall} : MatchAnswer(m) \/ DetachCall(m)

-----------------------------------------------------------------------------
Step ==
    \/ \E t \in Threads, f \in Callbacks, n \in Calls : Begin(t, f, n)
    \/ \E n \in Calls : CallerStep(n) \/ Timeout(n)
    \/ \E c \in Conns, i \in RequestIds : AnswerArrives(c, i)
    \/ \E c \in Conns : Close(c)
    \/ ServerStep

\* Nothing is claimed of a program after undefined behaviour.
Next == ub = "none" /\ Step

Spec == Init /\ [][Next]_vars

\* Both threads keep running; nothing is assumed of QUIK, of the clients or
\* of the sockets, and a timeout is not assumed either.
Progress ==
    /\ \A n \in Calls : WF_vars(ub = "none" /\ CallerStep(n))
    /\ WF_vars(ub = "none" /\ ServerStep)

FairSpec == Spec /\ Progress

Timed(n) == WF_vars(ub = "none" /\ Timeout(n))
OnServerThread(n) == call[n].thread = ServerThread /\ Timeout(n)

\* A call that the server thread itself makes can only end by its timeout.
LiveSpec == FairSpec /\ \A n \in Calls : WF_vars(ub = "none" /\ OnServerThread(n))

-----------------------------------------------------------------------------
(* Properties.                                                             *)

\* Every variable has its type.
TypeOK ==
    /\ conn \in [Conns -> {"open", "closing", "freed"}]
    /\ fcb \in [Conns -> Calls \cup {NoCall}]
    /\ posted \in Seq(Event)
    /\ asked \in [Conns -> SUBSET (Nat \ {0})]
    /\ request \in [Conns -> Seq(Calls)]
    /\ call \in [Calls -> CallRecord]
    /\ srv \in ServerRecord
    /\ timedOut \subseteq Calls
    /\ ub \in {"none", "nullObject", "deadObject", "freedConnection",
               "unlockedEarly", "unlockedTwice"}

\* fcbWaitResult of a connection in m_connections is null or points to an
\* object that still exists and still belongs to that connection: every
\* return path of sendAndWaitResult takes its own pointer back, also after
\* a timeout and when another thread has called on the same connection.
PointerIsLive ==
    \A c \in Conns : conn[c] = "open" /\ fcb[c] # NoCall =>
        /\ Active(fcb[c])
        /\ call[fcb[c]].stage # "install"
        /\ call[fcb[c]].cd = c

\* What the pointers and ids kept by the server thread between two of its
\* steps refer to, and what a call of each stage holds; with TypeOK and
\* PointerIsLive an inductive invariant.
ServerHolds ==
    /\ srv.at # "idle" => srv.cd \in Conns
    /\ srv.at = "tag" => srv.id \in DOMAIN request[srv.cd]
    /\ srv.at = "match" => srv.id \in DOMAIN request[srv.cd]
    /\ srv.at \in {"delete", "detach"} => conn[srv.cd] = "closing"
    /\ srv.at = "wake" => srv.call \in Calls
    /\ \A c \in Conns : asked[c] \subseteq DOMAIN request[c]
CallHolds == \A n \in Calls : Active(n) => call[n].fun \in Callbacks
IInv == TypeOK /\ ServerHolds /\ CallHolds /\ PointerIsLive

\* Call m may lead an answer on its connection astray to call n: it ran into
\* its timeout, or another thread of QUIK made it.  A call that the server
\* thread makes cannot overlap with a handler.
Begun(n) == call[n].stage # "none"
Connection(n) == Owner[call[n].fun]
Rivals(m, n) == /\ call[m].thread # call[n].thread
                /\ ServerThread \notin {call[m].thread, call[n].thread}
Disturbs(m, n) ==
    /\ m # n /\ Begun(m) /\ Connection(m) = Connection(n)
    /\ m \in timedOut \/ Rivals(m, n)

\* A call is given the answer to another call's request only if a call on the
\* same connection, not itself, ran into its timeout or was made by another
\* thread of QUIK: the uninitialised id and the ids of old requests do no harm
\* as long as the calls on a connection come one after the other and get
\* their answers in time.
StrayAnswersHaveCause ==
    \A n \in Calls :
        call[n].result \notin {n, NoCall} => \E m \in Calls : Disturbs(m, n)

\* Some client connection has been closed, some wait has timed out, two
\* threads of QUIK have called functions of one connection.
SomeClosed == \E c \in Conns : conn[c] # "open"
SomeTimedOut == timedOut # {}
RivalsOf(n) == {m \in Calls : /\ Begun(m) /\ Begun(n) /\ Rivals(m, n)
                              /\ Connection(m) = Connection(n)}
SomeRivals == \E n \in Calls : RivalsOf(n) # {}

\* Which event each kind of undefined behaviour needs.  Without a timeout, a
\* closed connection or calls of two threads on one connection the handshake
\* of caller and server has one hole, the answer that overtakes
\* waitMutex.lock().  The message handler meets a null object only after a
\* timeout or with two such threads, a freed connection is touched only after
\* a close.
UndefinedBehaviourCauses ==
    /\ ub \in {"none", "unlockedEarly"} \/ SomeTimedOut \/ SomeClosed \/ SomeRivals
    /\ ub = "freedConnection" => SomeClosed
    /\ ub = "nullObject" /\ srv.at = "tag" => SomeTimedOut \/ SomeRivals

\* README.md, section on callable arguments: a client that does not answer
\* freezes the calling QUIK thread while the main thread of the server goes
\* on working.  Here: as long as no request has been answered and no
\* connection closed, the server thread meets no undefined behaviour.
NobodyAnswered ==
    \A c \in Conns : \A i \in DOMAIN request[c] :
        i \in asked[c] \/ (srv.at = "tag" /\ srv.cd = c /\ srv.id = i)
SilentClientHarmless == NobodyAnswered /\ ~SomeClosed => ub = "none"

\* A sleeping caller is woken, with no timeout assumed: once its object holds
\* an answer it returns, and so it does when its connection is deleted while
\* fcbWaitResult points to it.  (A call that another one on the same
\* connection has displaced is not told of the deletion.  With two threads of
\* QUIK on one connection the other call may also reset the pointer after the
\* connection is closed and before its destructor reads it.)
AnswerWakesCaller ==
    \A n \in Calls :
        call[n].result # NoCall ~> call[n].stage = "returned" \/ ub # "none"
DeletionWakesCaller ==
    \A n \in Calls, c \in Conns :
        Active(n) /\ fcb[c] = n /\ conn[c] # "open"
            ~> \/ call[n].stage = "returned" \/ ub # "none"
               \/ RivalsOf(n) # {}
CallersAreWoken == AnswerWakesCaller /\ DeletionWakesCaller

\* If a wait that nobody ends runs into its timeout, every callback returns
\* to QUIK, answered or not, on whichever thread it was made.
EveryCallReturns ==
    (\A n \in Calls : Timed(n)) =>
        \A n \in Calls :
            Active(n) ~> call[n].stage = "returned" \/ ub # "none"
=============================================================================
