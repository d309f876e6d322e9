---------------------------- MODULE NamedCallbacks ----------------------------
(***************************************************************************)
(* The callbacks that QUIK makes by name (OnStop, OnParam, OnTrade, ...),  *)
(* from mainTrampoline, which starts the server, to the end of the bridge. *)
(*                                                                         *)
(* A callback runs on a thread of QUIK through universalCallbackHandler,   *)
(* QuikQtBridge::callbackRequest and BridgeTCPServer::callbackRequest, and *)
(* reads on its way, without a lock, what the server thread writes: the    *)
(* pointer to the bridge, its maps, the lists of the server, and the       *)
(* connections.  A stage of a call is such an access in progress; its end  *)
(* is an action.  A write of the server thread meanwhile, and an access to *)
(* an object that has been deleted, are recorded in ub, and the model      *)
(* stops there.                                                            *)
(*                                                                         *)
(* The table of functions (JumpTable) is taken to have a slot for every    *)
(* name, and a send to an open connection to succeed (Session).            *)
(***************************************************************************)
EXTENDS Integers, SequencesExt, FiniteSets

CONSTANTS
    Conns,       \* clients
    Threads,     \* the threads on which QUIK makes callbacks
    ServerThread,
    Predefined,  \* names that have a function from luaopenImp on
    Names,       \* these and the names a client may register
    Reserved,    \* OnStop, OnParam, OnQuote, in the order of the constructor
    Updates,     \* those of them that post an event to the server
    Stop,        \* OnStop
    Wanted,      \* bound: Wanted[c] are the names client c may register
    MaxCalls     \* bound: number of callbacks in a behaviour

Calls == 1..MaxCalls

ASSUME NamesAssumption ==
    /\ ToSet(Reserved) \subseteq Predefined /\ Predefined \subseteq Names
    /\ Updates \cup {Stop} \subseteq ToSet(Reserved) /\ Stop \notin Updates
ASSUME WantedAssumption == Wanted \in [Conns -> SUBSET Names]
ASSUME ThreadAssumption == ServerThread \notin Threads
ASSUME MaxCallsAssumption == MaxCalls \in Nat \ {0}

VARIABLES
    phase,     \* of the server thread, see Phases
    quit,      \* the event loop has been told to quit
    bridge,    \* global_bridge: "null", "alive" or "deleted"
    stacks,    \* threads in recentStackMap
    callable,  \* names under which Lua finds a function
    handlers,  \* names in m_handlers of the bridge
    active,    \* activeCallbacks of the server
    listed,    \* m_connections, in order
    conn,      \* conn[c]: "new", "open" or "deleted"
    subs,      \* subs[c]: callbackSubscriptions
    inbox,     \* inbox[c]: posted sendReq events of the handler of c
    wire,      \* wire[c]: the callbacks sent to c
    updates,   \* posted secParamsUpdate and secQuotesUpdate events
    thread,    \* thread[t]: where the call of t is
    calls,     \* the calls made so far
    ub         \* "none", or what undefined behaviour the program has run into

vars == <<phase, quit, bridge, stacks, callable, handlers, active, listed,
          conn, subs, inbox, wire, updates, thread, calls, ub>>
mainVars == <<phase, quit>>
bridgeVars == <<bridge, stacks, callable, handlers>>
serverVars == <<active, listed, conn, subs>>
queues == <<inbox, wire, updates>>
quikVars == <<thread, calls>>

-----------------------------------------------------------------------------
\* main has not begun; the server is constructed; exec; the server is
\* destroyed; the bridge is; main has returned.
Phases == {"init", "starting", "loop", "closing", "serverGone", "done"}

Stages == {"idle", "bridge", "stacks", "handlers", "active", "copy", "send"}
Idle == [at |-> "idle", call |-> 0, todo |-> << >>]

\* due: the open connections subscribed to the name when the call began.
CallRecord == [name : Names, thread : Threads, due : SUBSET Conns,
               done : BOOLEAN]

NameOf(t) == calls[thread[t].call].name
Someone(stage) == \E t \in Threads : thread[t].at = stage
ServerAlive == phase \in {"starting", "loop", "closing"}

Init ==
    /\ phase = "init"
    /\ quit = FALSE
    /\ bridge = "null"
    /\ stacks = {}
    /\ callable = Predefined
    /\ handlers = {}
    /\ active = {}
    /\ listed = << >>
    /\ conn = [c \in Conns |-> "new"]
    /\ subs = [c \in Conns |-> {}]
    /\ inbox = [c \in Conns |-> << >>]
    /\ wire = [c \in Conns |-> << >>]
    /\ updates = << >>
    /\ thread = [t \in Threads |-> Idle]
    /\ calls = << >>
    /\ ub = "none"

\* faults: pairs of a condition and what undefined behaviour it is.
Risk(faults) ==
    LET present == {f[2] : f \in {g \in faults : g[1]}}
    IN  IF present = {} THEN UNCHANGED ub ELSE ub' \in present

-----------------------------------------------------------------------------
(* A callback, on a thread of QUIK.                                        *)

MoveTo(t, stage) == thread' = [thread EXCEPT ![t].at = stage]

\* A call that has run into undefined behaviour does not return.
Return(t, fault) ==
    /\ thread' = [thread EXCEPT ![t] = Idle]
    /\ calls' = [calls EXCEPT ![thread[t].call].done = ~fault]

\* QUIK calls the function that Lua has under the name.
Call(t, name) ==
    /\ thread[t].at = "idle"
    /\ name \in callable
    /\ Len(calls) < MaxCalls
    /\ calls' = Append(calls,
           [name |-> name, thread |-> t, done |-> FALSE,
            due |-> {c \in Conns : conn[c] = "open" /\ name \in subs[c]}])
    /\ thread' = [thread EXCEPT ![t] = [at |-> "bridge", todo |-> << >>,
                                        call |-> Len(calls')]]
    /\ UNCHANGED <<mainVars, bridgeVars, serverVars, queues, ub>>

\* initQuikQtBridge: whoever finds no bridge makes one.
FindBridge(t) ==
    /\ thread[t].at = "bridge"
    /\ bridge' = IF bridge = "null" THEN "alive" ELSE bridge
    /\ MoveTo(t, "stacks")
    /\ Risk({<<bridge = "null" /\ \E u \in Threads \ {t} :
                  thread[u].at = "bridge", "raceBridge">>})
    /\ UNCHANGED <<mainVars, stacks, callable, handlers, serverVars, queues, calls>>

\* setRecentStack: the map changes its shape with the first entry of a thread.
SetRecentStack(t) ==
    /\ thread[t].at = "stacks"
    /\ stacks' = stacks \cup {t}
    /\ MoveTo(t, "handlers")
    /\ Risk({<<bridge = "deleted", "freedBridge">>,
             <<\E u \in Threads \ {t} : /\ thread[u].at = "stacks"
                                        /\ {t, u} \ stacks # {},
               "raceStacks">>})
    /\ UNCHANGED <<mainVars, bridge, callable, handlers, serverVars, queues, calls>>

\* QuikQtBridge::callbackRequest
FindHandler(t) ==
    /\ thread[t].at = "handlers"
    /\ IF NameOf(t) \in handlers THEN MoveTo(t, "active") /\ UNCHANGED calls
                                 ELSE Return(t, bridge = "deleted")
    /\ Risk({<<bridge = "deleted", "freedBridge">>})
    /\ UNCHANGED <<mainVars, bridgeVars, serverVars, queues>>

\* BridgeTCPServer::callbackRequest.
\* Mutant: the server quits before it has told its clients.
TestActive_QuitsFirst(t) ==
    /\ thread[t].at = "active"
    /\ IF NameOf(t) \in active THEN MoveTo(t, "copy") /\ UNCHANGED calls
                               ELSE Return(t, ~ServerAlive)
    /\ quit' = (quit \/ (NameOf(t) = Stop /\ phase = "loop"))
    /\ Risk({<<~ServerAlive, "freedServer">>})
    /\ UNCHANGED <<phase, bridgeVars, serverVars, queues>>
TestActive(t) ==
    /\ thread[t].at = "active"
    /\ IF NameOf(t) \in active THEN MoveTo(t, "copy") /\ UNCHANGED calls
                               ELSE Return(t, ~ServerAlive)
    /\ Risk({<<~ServerAlive, "freedServer">>})
    /\ UNCHANGED <<mainVars, bridgeVars, serverVars, queues>>

\* foreach takes a copy of m_connections.
CopyConnections(t) ==
    /\ thread[t].at = "copy"
    /\ thread' = [thread EXCEPT ![t].at = "send", ![t].todo = listed]
    /\ Risk({<<~ServerAlive, "freedServer">>})
    /\ UNCHANGED <<mainVars, bridgeVars, serverVars, queues, calls>>

\* A turn of the loop: callbackSubscriptions, then safeSendReq, which posts
\* the request to the handler.  Mutant: the loop ends at the first subscriber.
SendToNext_Once(t) ==
    /\ thread[t].at = "send"
    /\ thread[t].todo # << >>
    /\ LET c == Head(thread[t].todo)
           mine == NameOf(t) \in subs[c]
       IN  /\ thread' = [thread EXCEPT ![t].todo = IF mine THEN << >> ELSE Tail(@)]
           /\ inbox' = IF mine THEN [inbox EXCEPT ![c] = Append(@, thread[t].call)]
                               ELSE inbox
           /\ Risk({<<conn[c] = "deleted", "freedConnection">>})
    /\ UNCHANGED <<mainVars, bridgeVars, serverVars, wire, updates, calls>>
SendToNext(t) ==
    /\ thread[t].at = "send"
    /\ thread[t].todo # << >>
    /\ LET c == Head(thread[t].todo)
       IN  /\ thread' = [thread EXCEPT ![t].todo = Tail(@)]
           /\ inbox' = IF NameOf(t) \in subs[c]
                         THEN [inbox EXCEPT ![c] = Append(@, thread[t].call)]
                         ELSE inbox
           /\ Risk({<<conn[c] = "deleted", "freedConnection">>})
    /\ UNCHANGED <<mainVars, bridgeVars, serverVars, wire, updates, calls>>

\* After the loop: OnStop quits, OnParam and OnQuote post their events.  quit
\* of an application whose event loop does not run is lost.
FinishCall(t) ==
    /\ thread[t].at = "send"
    /\ thread[t].todo = << >>
    /\ Return(t, NameOf(t) \in Updates /\ ~ServerAlive)
    /\ quit' = (quit \/ (NameOf(t) = Stop /\ phase = "loop"))
    /\ updates' = IF NameOf(t) \in Updates /\ ServerAlive
                    THEN Append(updates, thread[t].call) ELSE updates
    /\ Risk({<<NameOf(t) \in Updates /\ ~ServerAlive, "freedServer">>})
    /\ UNCHANGED <<phase, bridgeVars, serverVars, inbox, wire>>

CallStep(t) ==
    \/ FindBridge(t)
    \/ SetRecentStack(t)
    \/ FindHandler(t)
    \/ TestActive(t)
    \/ CopyConnections(t)
    \/ SendToNext(t)
    \/ FinishCall(t)

-----------------------------------------------------------------------------
(* The server thread.                                                      *)

\* mainTrampoline: the stack of this thread, and a bridge if there is none.
StartMain ==
    /\ phase = "init"
    /\ phase' = "starting"
    /\ bridge' = "alive"
    /\ stacks' = stacks \cup {ServerThread}
    /\ Risk({<<bridge = "null" /\ Someone("bridge"), "raceBridge">>,
             <<Someone("stacks"), "raceStacks">>})
    /\ UNCHANGED <<quit, callable, handlers, serverVars, queues, quikVars>>

\* The constructor registers itself under one name after the other.
Construct ==
    /\ phase = "starting"
    /\ \E i \in DOMAIN Reserved :
         /\ active = {Reserved[j] : j \in 1..(i - 1)}
         /\ handlers' = handlers \cup {Reserved[i]}
         /\ active' = active \cup {Reserved[i]}
    /\ Risk({<<Someone("handlers"), "raceHandlers">>,
             <<Someone("active"), "raceActive">>})
    /\ UNCHANGED <<mainVars, bridge, stacks, callable, listed, conn, subs,
                   queues, quikVars>>

Exec ==
    /\ phase = "starting"
    /\ ToSet(Reserved) \subseteq active
    /\ phase' = "loop"
    /\ UNCHANGED <<quit, bridgeVars, serverVars, queues, quikVars, ub>>

\* connectionEstablished
Establish(c) ==
    /\ phase = "loop"
    /\ conn[c] = "new"
    /\ conn' = [conn EXCEPT ![c] = "open"]
    /\ listed' = Append(listed, c)
    /\ Risk({<<Someone("copy"), "raceConnections">>})
    /\ UNCHANGED <<mainVars, bridgeVars, active, subs, queues, quikVars>>

\* The request register, for a name this client has not registered.
Register(c, name) ==
    /\ phase = "loop"
    /\ conn[c] = "open"
    /\ name \notin subs[c]
    /\ handlers' = handlers \cup {name}
    /\ callable' = callable \cup {name}
    /\ active' = active \cup {name}
    /\ subs' = [subs EXCEPT ![c] = @ \cup {name}]
    /\ Risk({<<name \notin handlers /\ Someone("handlers"), "raceHandlers">>,
             <<name \notin active /\ Someone("active"), "raceActive">>,
             <<\E t \in Threads : thread[t].at = "send" /\ thread[t].todo # << >>
                    /\ Head(thread[t].todo) = c, "raceSubscriptions">>})
    /\ UNCHANGED <<mainVars, bridge, stacks, listed, conn, queues, quikVars>>

\* Other requests and events look up the stack of this thread.
UseRecentStack ==
    /\ phase = "loop"
    /\ ub' = "raceStacks"
    /\ \E t \in Threads \ stacks : thread[t].at = "stacks"
    /\ UNCHANGED <<mainVars, bridgeVars, serverVars, queues, quikVars>>

\* m_connections.removeAll and ~ConnectionData: a connection is listed once;
\* with the handler go the events posted to it.  Mutant: a client that ends
\* stays in the list.
DeleteConnection_Kept(c) ==
    /\ conn' = [conn EXCEPT ![c] = "deleted"]
    /\ subs' = [subs EXCEPT ![c] = {}]
    /\ listed' = IF phase = "loop" THEN listed ELSE RemoveFirst(listed, c)
    /\ inbox' = [inbox EXCEPT ![c] = << >>]
    /\ Risk({<<Someone("copy"), "raceConnections">>})
DeleteConnection(c) ==
    /\ conn' = [conn EXCEPT ![c] = "deleted"]
    /\ subs' = [subs EXCEPT ![c] = {}]
    /\ listed' = RemoveFirst(listed, c)
    /\ inbox' = [inbox EXCEPT ![c] = << >>]
    /\ Risk({<<Someone("copy"), "raceConnections">>})

\* protoFinished, protoError
Close(c) ==
    /\ phase = "loop"
    /\ conn[c] = "open"
    /\ DeleteConnection(c)
    /\ UNCHANGED <<mainVars, bridgeVars, active, wire, updates, quikVars>>

\* A posted sendReq.  Mutant: the last posted is taken first.
Deliver_Newest(c) ==
    /\ phase = "loop"
    /\ inbox[c] # << >>
    /\ wire' = [wire EXCEPT ![c] = Append(@, Last(inbox[c]))]
    /\ inbox' = [inbox EXCEPT ![c] = Front(@)]
    /\ UNCHANGED <<mainVars, bridgeVars, serverVars, updates, quikVars, ub>>
Deliver(c) ==
    /\ phase = "loop"
    /\ inbox[c] # << >>
    /\ wire' = [wire EXCEPT ![c] = Append(@, Head(inbox[c]))]
    /\ inbox' = [inbox EXCEPT ![c] = Tail(@)]
    /\ UNCHANGED <<mainVars, bridgeVars, serverVars, updates, quikVars, ub>>

\* secParamsUpdate, secQuotesUpdate: see Subscriptions.
TakeUpdate ==
    /\ phase = "loop"
    /\ updates # << >>
    /\ updates' = Tail(updates)
    /\ UNCHANGED <<mainVars, bridgeVars, serverVars, inbox, wire, quikVars, ub>>

\* exec returns; what is still posted stays in the queue.  Mutant: the loop
\* runs on while there are clients.
LeaveLoop_Waits ==
    /\ phase = "loop"
    /\ quit /\ listed = << >>
    /\ phase' = "closing"
    /\ UNCHANGED <<quit, bridgeVars, serverVars, queues, quikVars, ub>>
LeaveLoop ==
    /\ phase = "loop"
    /\ quit
    /\ phase' = "closing"
    /\ UNCHANGED <<quit, bridgeVars, serverVars, queues, quikVars, ub>>

\* ~BridgeTCPServer takes the last connection until there is none.
DestroyConnection ==
    /\ phase = "closing"
    /\ listed # << >>
    /\ DeleteConnection(Last(listed))
    /\ UNCHANGED <<mainVars, bridgeVars, active, wire, updates, quikVars>>

DestroyServer ==
    /\ phase = "closing"
    /\ listed = << >>
    /\ phase' = "serverGone"
    /\ updates' = << >>
    /\ UNCHANGED <<quit, bridgeVars, serverVars, inbox, wire, quikVars, ub>>

\* deinitQuikQtBridge: the functions of the names are taken from Lua, then
\* the bridge goes; global_bridge keeps its address.
DestroyBridge ==
    /\ phase = "serverGone"
    /\ phase' = "done"
    /\ callable' = {}
    /\ bridge' = "deleted"
    /\ Risk({<<\E t \in Threads \ stacks : thread[t].at = "stacks",
               "raceStacks">>})
    /\ UNCHANGED <<quit, stacks, handlers, serverVars, queues, quikVars>>

ServerStep ==
    \/ StartMain \/ Construct \/ Exec
    \/ \E c \in Conns : Deliver(c)
    \/ TakeUpdate \/ LeaveLoop
    \/ DestroyConnection \/ DestroyServer \/ DestroyBridge

\* What clients make the server thread do.
ClientStep ==
    \/ \E c \in Conns : Establish(c) \/ Close(c)
    \/ \E c \in Conns : \E name \in Wanted[c] : Register(c, name)
    \/ UseRecentStack

Next ==
    /\ ub = "none"
    /\ \/ ServerStep
       \/ ClientStep
       \/ \E t \in Threads : CallStep(t)
       \/ \E t \in Threads, name \in Names : Call(t, name)

Spec == Init /\ [][Next]_vars

\* Each thread runs: the event loop handles what is posted, and leaves when
\* told to and nothing is left to do.  Nothing is assumed of clients or of
\* what QUIK calls.
FairSpec ==
    /\ Spec
    /\ \A t \in Threads : WF_vars(ub = "none" /\ CallStep(t))
    /\ WF_vars(ub = "none" /\ ServerStep)

-----------------------------------------------------------------------------
(* Properties.                                                             *)

\* Every variable keeps its type, and the lists agree with the connections.
TypeOK ==
    /\ phase \in Phases
    /\ quit \in BOOLEAN
    /\ bridge \in {"null", "alive", "deleted"}
    /\ stacks \subseteq Threads \cup {ServerThread}
    /\ callable \subseteq Names
    /\ handlers = active /\ active \subseteq Names
    /\ ToSet(listed) = {c \in Conns : conn[c] = "open"}
    /\ conn \in [Conns -> {"new", "open", "deleted"}]
    /\ subs \in [Conns -> SUBSET Names]
    /\ \A c \in Conns : ToSet(inbox[c]) \cup ToSet(wire[c]) \subseteq Calls
    /\ ToSet(updates) \subseteq Calls
    /\ \A t \in Threads : /\ thread[t].at \in Stages
                          /\ thread[t].call \in 0..Len(calls)
                          /\ ToSet(thread[t].todo) \subseteq Conns
    /\ Len(calls) <= MaxCalls /\ \A n \in DOMAIN calls : calls[n] \in CallRecord
    /\ ub \in {"none", "raceBridge", "raceStacks", "raceHandlers",
               "raceActive", "raceConnections", "raceSubscriptions",
               "freedBridge", "freedServer", "freedConnection"}

Told(c) == wire[c] \o inbox[c]

\* When a callback has returned, each client that had registered its name
\* before and is still connected has been sent it, or will be, exactly once;
\* and nobody is sent a callback it has not registered, whatever connects,
\* registers and disconnects meanwhile (callbackRequest, safeSendReq).
EachSubscriberIsTold ==
    \A c \in Conns : conn[c] = "open" =>
        /\ \A n \in DOMAIN calls : calls[n].done /\ c \in calls[n].due =>
               Cardinality({i \in DOMAIN Told(c) : Told(c)[i] = n}) = 1
        /\ \A i \in DOMAIN Told(c) : calls[Told(c)[i]].name \in subs[c]

\* A client gets the callbacks of one thread in the order in which QUIK made
\* them (callbackRequest, the posted sendReq events).
CallbacksStayInOrder ==
    \A c \in Conns : \A i, j \in DOMAIN Told(c) :
        i < j /\ calls[Told(c)[i]].thread = calls[Told(c)[j]].thread =>
            Told(c)[i] < Told(c)[j]

Running(n) == n \in DOMAIN calls /\ ~calls[n].done
First(n) == \A m \in 1..(n - 1) : calls[m].thread # calls[n].thread

\* How far the missing locks reach.  The map of stacks is in danger only from
\* the first callback of a thread, and when main begins; the bridge only
\* before any callback has returned.  The names are in danger while the server
\* starts, and when a client registers a name of its own.  The server and the
\* bridge are used after their deletion only by a callback other than the one
\* that stopped them: the OnStop that quits touches neither afterwards.
UndefinedBehaviourCauses ==
    /\ ub = "raceBridge" => \A n \in DOMAIN calls : Running(n)
    /\ ub = "raceStacks" =>
           active = {} \/ \E n \in Calls : Running(n) /\ First(n)
    /\ ub \in {"raceHandlers", "raceActive"} =>
           phase = "starting" \/ active # ToSet(Reserved)
    /\ ub \in {"freedServer", "freedBridge"} =>
           \E n \in Calls : /\ Running(n)
                            /\ \E m \in Calls \ {n} : m \in DOMAIN calls
                                   /\ calls[m].name = Stop /\ calls[m].done

\* An OnStop that reaches the running event loop ends main, whatever the
\* clients do, as far as nothing undefined happens (callbackRequest, exec,
\* ~BridgeTCPServer, deinitQuikQtBridge).
StopEndsMain ==
    (phase = "loop" /\ \E t \in Threads : /\ thread[t].at # "idle"
                                          /\ NameOf(t) = Stop)
        ~> (phase = "done" \/ ub # "none")
=============================================================================
