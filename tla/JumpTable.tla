----------------------------- MODULE JumpTable -----------------------------
(***************************************************************************)
(* The functions QUIK's Lua is given and the Lua objects clients are given *)
(* (quikcoast.cpp, and the requests register, invoke and delete of         *)
(* bridgetcpserver.cpp).                                                   *)
(*                                                                         *)
(* Every function the program hands to Lua is one of JUMP_TABLE_SIZE       *)
(* compiled handlers, the i-th of which looks up slot i of a global table. *)
(* A slot serves either a named callback or a fast callback, which leads   *)
(* to a FastCallbackFunctionData of a client.  Slots are written by the    *)
(* server thread and read by QUIK's threads without a lock, and Lua may    *)
(* keep a function long after its slot has been given to another.  Each    *)
(* write and each read that another thread can tell apart is a step.       *)
(*                                                                         *)
(* What a call does once it has found its connection is in FastCallback.   *)
(***************************************************************************)
EXTENDS Integers, Sequences, FiniteSetsExt, SequencesExt

CONSTANTS
    Clients,        \* addresses of ConnectionData objects, which are reused
    NoClient,       \* no connection
    TableSize,      \* JUMP_TABLE_SIZE
    Names,          \* names of callbacks clients may register
    Predefined,     \* those luaopenImp registers, in its order
    Special,        \* OnStop, OnParam, OnQuote: the server's own
    NoName,         \* the empty fName
    Globals,        \* functions of QUIK that take callables
    Methods,        \* methods of Lua objects that take callables
    Objects,        \* indices luaL_ref can return, all above 0
    Threads,        \* QUIK's threads
    MaxCallables,   \* bound: callables in one invoke request
    MaxRefs,        \* bound: how often one list has the same reference
    MaxData,        \* bound: FastCallbackFunctionData objects
    MaxConnections  \* bound: connections in a behaviour

ASSUME ClientAssumption == NoClient \notin Clients
ASSUME TableAssumption == TableSize \in Nat
ASSUME NameAssumption ==
    /\ Predefined \in Seq(Names)
    /\ \A i, j \in DOMAIN Predefined : Predefined[i] = Predefined[j] => i = j
    /\ Len(Predefined) <= TableSize
    /\ Special \subseteq ToSet(Predefined)
    /\ NoName \notin Names
    /\ Names \cap (0..MaxData) = {}
ASSUME ObjectAssumption == Objects \subseteq Nat \ {0}
ASSUME BoundAssumption ==
    MaxCallables \in Nat /\ MaxRefs \in Nat /\ MaxData \in Nat
    /\ MaxConnections \in Nat

Slots == 0..(TableSize - 1)
NoSlot == -1
Global == 0     \* in place of an object: a global function is called
NoCaller == <<>>
Callers == ({Global} \X Globals) \cup (Objects \X Methods)
Null == 0       \* the null customData
Data == 1..MaxData

VARIABLES
    client,   \* client[c]: number of the connection at the address c, or 0
    slot,     \* the jump table
    data,     \* the FastCallbackFunctionData objects, oldest first
    registry, \* allocated references of the Lua registry
    objRefs,  \* ConnectionData::objRefs: how often each reference is in it
    active,   \* BridgeTCPServer::activeCallbacks: the names for which some
              \* client was answered "registered", and the server's own
    handlers, \* keys of QuikQtBridge::m_handlers
    held,     \* functions Lua holds: the slot and what it was given for
    call,     \* call[t]: where thread t is in universalCallbackHandler
    srv,      \* what the server thread is doing
    opened,   \* connections opened so far
    reached,  \* the call the last step has delivered
    dropped,  \* history: data whose object was released after it was made
    lost,     \* history: references no client was told of
    foreign,  \* history: a client has used an object it does not hold
    ub        \* "none", or what undefined behaviour the program has run into

history == <<dropped, lost, foreign>>
vars == <<client, slot, data, registry, objRefs, active, handlers, held,
          call, srv, opened, reached, history, ub>>

-----------------------------------------------------------------------------
JumpTableItem == [owner : BOOLEAN, name : Names \cup {NoName},
                  caller : Callers \cup {NoCaller}, data : Data \cup {Null}]
FreeItem == [owner |-> FALSE, name |-> NoName, caller |-> NoCaller,
             data |-> Null]

FunctionData == [cd : Clients, conn : 1..MaxConnections, caller : Callers,
                 freed : BOOLEAN]
Function == [slot : Slots, given : Data \cup Names]

CallSteps == {"idle", "name", "owner", "load", "connection", "use"}
NoCall == [at |-> "idle", slot |-> NoSlot, given |-> Null, data |-> Null]

ServerSteps == {"idle", "args", "data", "release", "clearOwner", "clearSlot",
                "takeLast"}
SrvIdle == [at |-> "idle", cd |-> NoClient, caller |-> NoCaller, left |-> 0,
            functions |-> {}, slot |-> NoSlot, object |-> Global,
            closing |-> FALSE]

NoDelivery == [given |-> Null, by |-> Null, conn |-> 0]

CallRecord == [at : CallSteps, slot : Slots \cup {NoSlot},
               given : Data \cup {Null} \cup Names, data : Data \cup {Null}]
ServerRecord == [at : ServerSteps, cd : Clients \cup {NoClient},
                 caller : Callers \cup {NoCaller}, left : 0..MaxCallables,
                 functions : SUBSET Function, slot : Slots \cup {NoSlot},
                 object : Objects \cup {Global}, closing : BOOLEAN]
Delivery == [given : Data \cup {Null} \cup Names,
             by : Data \cup {Null} \cup Names, conn : 0..MaxConnections]

-----------------------------------------------------------------------------
(* The searches of quikcoast.cpp: the lowest slot that fits, or NoSlot.    *)

\* Mutant: the loop's index is returned when it ends.
Lowest_PastTheEnd(S) == IF S = {} THEN TableSize ELSE Min(S)
Lowest(S) == IF S = {} THEN NoSlot ELSE Min(S)

\* Mutant: fName is not looked at.
FreeSlots_OwnerOnly == {i \in Slots : ~slot[i].owner}
FreeSlots == {i \in Slots : ~slot[i].owner /\ slot[i].name = NoName}

NamedSlots(name) == {i \in Slots : ~slot[i].owner /\ slot[i].name = name}

\* Mutant: callerName is not compared.
CallerSlots_AnyCaller(caller) == {i \in Slots : slot[i].owner}
CallerSlots(caller) ==
    {i \in Slots : slot[i].owner /\ slot[i].caller = caller}

SlotForName(name) ==
    Lowest(IF NamedSlots(name) # {} THEN NamedSlots(name) ELSE FreeSlots)

\* Mutant: a free slot is preferred to the caller's own.
SlotForCaller_FreeFirst(caller) ==
    Lowest(IF FreeSlots # {} THEN FreeSlots ELSE CallerSlots(caller))
SlotForCaller(caller) ==
    Lowest(IF CallerSlots(caller) # {} THEN CallerSlots(caller) ELSE FreeSlots)

\* The slots unregisterAllObjectCallbacks has still to release.
\* Mutant: the object is dropped without unregistering its callbacks.
ObjectSlots_None(o) == {}
ObjectSlots(o) ==
    {i \in Slots : slot[i].owner /\ slot[i].data # Null
                   /\ slot[i].caller[1] = o}

\* objRefs.append, takeLast and removeAll.  The order of the list decides
\* only in which order the destructor releases, and is left open.
\* Mutant: the reference stays in the list.
AppendRef(refs, o) == [refs EXCEPT ![o] = @ + 1]
TakeRef(refs, o) == [refs EXCEPT ![o] = @ - 1]
RemoveAll_Keeps(refs, o) == refs
RemoveAll(refs, o) == [refs EXCEPT ![o] = 0]
Refs(c) == {o \in Objects : objRefs[c][o] > 0}

Open(c) == client[c] # 0

\* luaopenImp has put every predefined name into a slot and into a global of
\* Lua, and the constructor of the server has registered its own names.
Init ==
    /\ client = [c \in Clients |-> 0]
    /\ slot = [i \in Slots |->
                 IF i < Len(Predefined)
                   THEN [FreeItem EXCEPT !.name = Predefined[i + 1]]
                   ELSE FreeItem]
    /\ data = <<>>
    /\ registry = {}
    /\ objRefs = [c \in Clients |-> [o \in Objects |-> 0]]
    /\ active = Special
    /\ handlers = Special
    /\ held = {[slot |-> i - 1, given |-> Predefined[i]] :
                 i \in DOMAIN Predefined}
    /\ call = [t \in Threads |-> NoCall]
    /\ srv = SrvIdle
    /\ opened = 0
    /\ reached = NoDelivery
    /\ dropped = {}
    /\ lost = {}
    /\ foreign = FALSE
    /\ ub = "none"

-----------------------------------------------------------------------------
(* The server thread.                                                      *)

\* A new ConnectionData, perhaps at the address of a deleted one.
Connect(c) ==
    /\ srv.at = "idle"
    /\ ~Open(c)
    /\ opened < MaxConnections
    /\ opened' = opened + 1
    /\ client' = [client EXCEPT ![c] = opened + 1]
    /\ UNCHANGED <<slot, data, registry, objRefs, active, handlers,
                   held, call, srv, history, ub>>

\* QuikQtBridge::registerCallback for a name that is not active yet, which
\* has no handler and is none of the server's own.  Without a slot it returns
\* false, and the server does not look at its result.
RegisterCallback(name) ==
    LET i == SlotForName(name)
    IN IF i = NoSlot
         THEN UNCHANGED <<slot, held, handlers>>
         ELSE /\ slot' = [slot EXCEPT ![i].owner = FALSE, ![i].name = name]
              /\ held' = held \cup {[slot |-> i, given |-> name]}
              /\ handlers' = handlers \cup {name}

\* The request register for a name nobody has registered yet.  The request
\* for another one changes callbackSubscriptions only, which says to whom a
\* named callback is sent and is left out here.
Register(c, name) ==
    /\ srv.at = "idle"
    /\ Open(c)
    /\ name \notin active
    /\ RegisterCallback(name)
    /\ active' = active \cup {name}
    /\ UNCHANGED <<client, data, registry, objRefs, call, srv, opened,
                   history, ub>>

\* Client c uses a reference that it was not given or has given back.
UseObject(c, o) ==
    foreign' = (foreign \/ (o # Global /\ o \notin Refs(c)))

\* The request invoke up to its first argument.  lua_getfield is called
\* outside lua_pcall: on a reference that is not allocated it raises an
\* error that nothing in the program catches.
Invoke(c, caller, n) ==
    /\ srv.at = "idle"
    /\ Open(c)
    /\ UseObject(c, caller[1])
    /\ IF caller[1] = Global \/ caller[1] \in registry
         THEN /\ srv' = [SrvIdle EXCEPT !.at = "args", !.cd = c,
                                        !.caller = caller, !.left = n]
              /\ UNCHANGED ub
         ELSE ub' = "luaError" /\ UNCHANGED srv
    /\ UNCHANGED <<client, slot, data, registry, objRefs, active,
                   handlers, held, call, opened, dropped, lost>>

\* A callable argument, pushVariantToLuaStack and registerFastCallback: nil
\* is pushed when there is no slot.  Otherwise owner and callerName are
\* written first ...
PushCallable ==
    /\ srv.at = "args"
    /\ srv.left > 0
    /\ Len(data) < MaxData
    /\ data' = Append(data, [cd |-> srv.cd, conn |-> client[srv.cd],
                             caller |-> srv.caller, freed |-> FALSE])
    /\ LET i == SlotForCaller(srv.caller)
       IN IF i = NoSlot
            THEN srv' = [srv EXCEPT !.left = @ - 1] /\ UNCHANGED slot
            ELSE /\ slot' = [slot EXCEPT ![i].owner = TRUE,
                                         ![i].caller = srv.caller]
                 /\ srv' = [srv EXCEPT !.at = "data", !.slot = i]
    /\ UNCHANGED <<client, registry, objRefs, active, handlers, held,
                   call, opened, history, ub>>

\* ... and customData last.  What the slot led to before is not freed.
\* Mutant: it is freed.
SetCustomData_Frees ==
    /\ srv.at = "data"
    /\ LET old == slot[srv.slot].data
       IN data' = IF old = Null THEN data ELSE [data EXCEPT ![old].freed = TRUE]
    /\ slot' = [slot EXCEPT ![srv.slot].data = Len(data)]
    /\ srv' = [srv EXCEPT !.at = "args", !.left = @ - 1, !.slot = NoSlot,
                 !.functions = @ \cup {[slot |-> srv.slot,
                                        given |-> Len(data)]}]
    /\ UNCHANGED <<client, registry, objRefs, active, handlers, held, call,
                   opened, history, ub>>
SetCustomData ==
    /\ srv.at = "data"
    /\ slot' = [slot EXCEPT ![srv.slot].data = Len(data)]
    /\ srv' = [srv EXCEPT !.at = "args", !.left = @ - 1, !.slot = NoSlot,
                 !.functions = @ \cup {[slot |-> srv.slot,
                                        given |-> Len(data)]}]
    /\ UNCHANGED <<client, data, registry, objRefs, active, handlers,
                   held, call, opened, history, ub>>

\* lua_pcall: QUIK keeps the functions or does not, and returns nothing that
\* matters here, an object, or a list with an object in it.  A reference is
\* made of both, and only the first is given to the client.
FinishInvoke ==
    /\ srv.at = "args"
    /\ srv.left = 0
    /\ srv' = SrvIdle
    /\ held' \in {held, held \cup srv.functions}
    /\ \/ UNCHANGED <<registry, objRefs, lost>>
       \/ \E o \in Objects \ registry :
             /\ registry' = registry \cup {o}
             /\ \/ /\ objRefs[srv.cd][o] < MaxRefs
                   /\ objRefs' = [objRefs EXCEPT ![srv.cd] = AppendRef(@, o)]
                   /\ lost' = lost \ {o}
                \/ lost' = lost \cup {o} /\ UNCHANGED objRefs
    /\ UNCHANGED <<client, slot, data, active, handlers, call, opened,
                   dropped, foreign, ub>>

\* deleteQuikObject begins: everything registered for a method of o so far
\* loses its slot.
BeginRelease(c, o, closing) ==
    /\ srv' = [SrvIdle EXCEPT !.at = "release", !.cd = c, !.object = o,
                              !.closing = closing]
    /\ dropped' = dropped \cup {r \in DOMAIN data : data[r].caller[1] = o}

\* The request delete, for any number above 0.
Delete(c, o) ==
    /\ srv.at = "idle"
    /\ Open(c)
    /\ UseObject(c, o)
    /\ BeginRelease(c, o, FALSE)
    /\ UNCHANGED <<client, slot, data, registry, objRefs, active,
                   handlers, held, call, opened, lost, ub>>

\* protoFinished or protoError: the connection leaves m_connections and its
\* destructor begins.
Close(c) ==
    /\ srv.at = "idle"
    /\ Open(c)
    /\ client' = [client EXCEPT ![c] = 0]
    /\ srv' = [SrvIdle EXCEPT !.at = "takeLast", !.cd = c, !.closing = TRUE]
    /\ UNCHANGED <<slot, data, registry, objRefs, active, handlers, held,
                   call, opened, history, ub>>

\* A turn of the loop of ~ConnectionData, or its end.
TakeLast ==
    /\ srv.at = "takeLast"
    /\ \/ /\ Refs(srv.cd) = {}
          /\ srv' = SrvIdle
          /\ UNCHANGED <<objRefs, dropped>>
       \/ \E o \in Refs(srv.cd) :
             /\ objRefs' = [objRefs EXCEPT ![srv.cd] = TakeRef(@, o)]
             /\ BeginRelease(srv.cd, o, TRUE)
    /\ UNCHANGED <<client, slot, data, registry, active, handlers,
                   held, call, opened, lost, foreign, ub>>

\* unregisterAllObjectCallbacks comes to a slot: clearFastCallbackData first,
ReleaseData ==
    /\ srv.at = "release"
    /\ ObjectSlots(srv.object) # {}
    /\ LET i == Lowest(ObjectSlots(srv.object))
       IN /\ data' = [data EXCEPT ![slot[i].data].freed = TRUE]
          /\ srv' = [srv EXCEPT !.at = "clearOwner", !.slot = i]
    /\ UNCHANGED <<client, slot, registry, objRefs, active, handlers,
                   held, call, opened, history, ub>>

\* then owner,
ClearOwner ==
    /\ srv.at = "clearOwner"
    /\ slot' = [slot EXCEPT ![srv.slot].owner = FALSE]
    /\ srv' = [srv EXCEPT !.at = "clearSlot"]
    /\ UNCHANGED <<client, data, registry, objRefs, active, handlers,
                   held, call, opened, history, ub>>

\* then the rest.
ClearSlot ==
    /\ srv.at = "clearSlot"
    /\ slot' = [slot EXCEPT ![srv.slot] = FreeItem]
    /\ srv' = [srv EXCEPT !.at = "release", !.slot = NoSlot]
    /\ UNCHANGED <<client, data, registry, objRefs, active, handlers,
                   held, call, opened, history, ub>>

\* luaL_unref, and for the request delete objRefs.removeAll.
Unref ==
    /\ srv.at = "release"
    /\ ObjectSlots(srv.object) = {}
    /\ IF srv.object \in registry
         THEN registry' = registry \ {srv.object} /\ UNCHANGED ub
         ELSE ub' = "badUnref" /\ UNCHANGED registry
    /\ IF srv.closing
         THEN /\ srv' = [srv EXCEPT !.at = "takeLast", !.object = Global]
              /\ UNCHANGED objRefs
         ELSE /\ srv' = SrvIdle
              /\ objRefs' = [objRefs EXCEPT ![srv.cd] =
                                RemoveAll(@, srv.object)]
    /\ lost' = lost \ {srv.object}
    /\ UNCHANGED <<client, slot, data, active, handlers, held, call,
                   opened, dropped, foreign>>

-----------------------------------------------------------------------------
(* A thread of QUIK in universalCallbackHandler.                           *)

Goto(t, step) == call' = [call EXCEPT ![t].at = step]
Return(t) == call' = [call EXCEPT ![t] = NoCall]
Crash(kind) == ub' = kind /\ UNCHANGED call
Deliver(r) == reached' = r
NotDelivered == Deliver(NoDelivery)

\* QUIK calls a function Lua holds.
CallFunction(t, f) ==
    /\ call[t].at = "idle"
    /\ f \in held
    /\ call' = [call EXCEPT ![t] = [at |-> "name", slot |-> f.slot,
                                    given |-> f.given, data |-> Null]]
    /\ NotDelivered
    /\ UNCHANGED ub

\* jitem->fName: a named callback goes to whoever has registered the name.
ReadName(t) ==
    /\ call[t].at = "name"
    /\ LET name == slot[call[t].slot].name
       IN \/ name = NoName /\ Goto(t, "owner") /\ NotDelivered
          \/ /\ name # NoName
             /\ Return(t)
             /\ IF name \in handlers \cap active
                  THEN Deliver([given |-> call[t].given, by |-> name,
                                conn |-> 0])
                  ELSE NotDelivered
    /\ UNCHANGED ub

\* if(jitem->owner)
TestOwner(t) ==
    /\ call[t].at = "owner"
    /\ IF slot[call[t].slot].owner THEN Goto(t, "load") ELSE Return(t)
    /\ NotDelivered
    /\ UNCHANGED ub

\* The call through jitem->owner with jitem->customData.  The compiler may
\* read owner again, and call through a null, or use what it has read.
LoadData(t) ==
    /\ call[t].at = "load"
    /\ LET item == slot[call[t].slot]
       IN \/ /\ call' = [call EXCEPT ![t].at = "connection",
                                     ![t].data = item.data]
             /\ UNCHANGED ub
          \/ ~item.owner /\ Crash("nullOwner")
    /\ NotDelivered

\* fastCallbackRequest reads cd of the data and looks for it among the
\* connections.
ReadConnection(t) ==
    /\ call[t].at = "connection"
    /\ LET r == call[t].data
       IN IF r = Null THEN Crash("nullData")
          ELSE IF data[r].freed THEN Crash("freedData")
          ELSE /\ IF Open(data[r].cd) THEN Goto(t, "use") ELSE Return(t)
               /\ UNCHANGED ub
    /\ NotDelivered

\* It reads cd, objId and funName again and makes the call.  A connection
\* deleted meanwhile is the subject of FastCallback.
UseData(t) ==
    /\ call[t].at = "use"
    /\ LET r == call[t].data
       IN IF data[r].freed THEN Crash("freedData") /\ NotDelivered
          ELSE /\ Return(t)
               /\ IF Open(data[r].cd)
                    THEN Deliver([given |-> call[t].given, by |-> r,
                                  conn |-> client[data[r].cd]])
                    ELSE NotDelivered
               /\ UNCHANGED ub

-----------------------------------------------------------------------------
ServerStep ==
    \/ \E c \in Clients :
          \/ Connect(c)
          \/ Close(c)
          \/ \E name \in Names : Register(c, name)
          \/ \E caller \in Callers, n \in 0..MaxCallables :
                Invoke(c, caller, n)
          \/ \E o \in Objects : Delete(c, o)
    \/ PushCallable \/ SetCustomData \/ FinishInvoke
    \/ TakeLast \/ ReleaseData \/ ClearOwner \/ ClearSlot \/ Unref

QuikStep(t) ==
    /\ \/ \E f \in held : CallFunction(t, f)
       \/ ReadName(t) \/ TestOwner(t) \/ LoadData(t)
       \/ ReadConnection(t) \/ UseData(t)
    /\ UNCHANGED <<client, slot, data, registry, objRefs, active,
                   handlers, held, srv, opened, dropped, lost, foreign>>

\* Nothing is claimed of a program that has run into undefined behaviour.
Next ==
    /\ ub = "none"
    /\ \/ ServerStep /\ NotDelivered
       \/ \E t \in Threads : QuikStep(t)

Spec == Init /\ [][Next]_vars

-----------------------------------------------------------------------------
(* Properties.                                                             *)

\* Every variable has its type.
TypeOK ==
    /\ client \in [Clients -> 0..MaxConnections]
    /\ slot \in [Slots -> JumpTableItem]
    /\ data \in Seq(FunctionData) /\ Len(data) <= MaxData
    /\ registry \subseteq Objects
    /\ objRefs \in [Clients -> [Objects -> 0..MaxRefs]]
    /\ active \subseteq Names
    /\ handlers \subseteq Names
    /\ held \subseteq Function
    /\ call \in [Threads -> CallRecord]
    /\ srv \in ServerRecord
    /\ opened \in 0..MaxConnections
    /\ reached \in Delivery
    /\ dropped \subseteq Data
    /\ lost \subseteq Objects
    /\ foreign \in BOOLEAN
    /\ ub \in {"none", "nullOwner", "nullData", "freedData", "luaError",
               "badUnref"}

\* The two uses of the table never meet: a slot serves a name or a client, a
\* caller has one slot, and a slot in use leads to data that exists, except
\* in the moment in which that slot is being filled or released.
TableIsConsistent ==
    /\ \A i \in Slots : slot[i].owner =>
          /\ slot[i].name = NoName
          /\ slot[i].data = Null => srv.at = "data" /\ srv.slot = i
          /\ slot[i].data # Null /\ data[slot[i].data].freed =>
                srv.at = "clearOwner" /\ srv.slot = i
    /\ \A i, j \in Slots :
          slot[i].owner /\ slot[j].owner /\ slot[i].caller = slot[j].caller
             => i = j

\* A name that has a handler keeps, against all the fast callbacks that
\* compete for slots, exactly one slot, the one behind the global of Lua.
NamesKeepTheirSlots ==
    \A name \in handlers \cup ToSet(Predefined) :
        /\ \E i \in Slots : [slot |-> i, given |-> name] \in held
        /\ \A i \in Slots :
              slot[i].name = name <=> [slot |-> i, given |-> name] \in held

\* The objects the server thread has taken from a list and not yet released.
BeingReleased == IF srv.object = Global THEN {} ELSE {srv.object}

\* As long as clients use their own objects only: every reference has one
\* holder, who holds it once and is connected or in its destructor, or was
\* never told to a client; nothing is held that has been given back.
ReferencesHaveOneHolder ==
    ~foreign =>
        /\ \A c \in Clients, o \in Objects : objRefs[c][o] <= 1
        /\ \A c, d \in Clients : c # d => Refs(c) \cap Refs(d) = {}
        /\ registry = lost \cup BeingReleased
                      \cup UNION {Refs(c) : c \in Clients}
        /\ \A c \in Clients :
              Refs(c) # {} => Open(c) \/ (srv.closing /\ srv.cd = c)

\* A slot that serves a method of an object never outlives the object, and,
\* as long as clients use their own objects only, it leads to the connection
\* that holds the object.
SlotsFollowTheirObject ==
    \A i \in Slots :
        slot[i].owner /\ slot[i].caller[1] # Global =>
            LET o == slot[i].caller[1]
                d == data[slot[i].data]
            IN /\ o \in registry
               /\ foreign \/ slot[i].data = Null
                  \/ /\ o \in Refs(d.cd) \cup BeingReleased
                     /\ client[d.cd] = d.conn \/ (srv.closing /\ srv.cd = d.cd)

\* What the server thread holds between two of its steps, what a call of each
\* step holds, and what the slots and names say beyond the properties above;
\* with those an inductive invariant.
ServerHolds ==
    /\ srv.at # "idle" => srv.cd \in Clients
    /\ srv.at \in {"args", "data"} => Open(srv.cd) /\ srv.caller \in Callers
    /\ srv.at \in {"data", "clearOwner", "clearSlot"} => srv.slot \in Slots
    /\ srv.at = "data" =>
          /\ srv.left > 0 /\ Len(data) > 0
          /\ ~data[Len(data)].freed /\ data[Len(data)].caller = srv.caller
          /\ data[Len(data)].cd = srv.cd
          /\ data[Len(data)].conn = client[srv.cd]
          /\ slot[srv.slot].owner /\ slot[srv.slot].caller = srv.caller
          /\ \A i \in Slots : slot[i].data # Len(data)
    /\ srv.at = "clearOwner" => slot[srv.slot].owner
    /\ srv.at = "clearSlot" => /\ ~slot[srv.slot].owner
                              /\ slot[srv.slot].name = NoName
    /\ srv.at \in {"release", "clearOwner", "clearSlot"} =>
          srv.object \in Objects
    /\ \A f \in srv.functions : f.given \in Data
CallHolds ==
    \A t \in Threads :
        /\ call[t].at # "idle" => call[t].slot \in Slots
        /\ call[t].data <= Len(data)
        /\ call[t].at = "use" => call[t].data # Null
SlotsHold ==
    /\ \A i \in Slots :
          /\ slot[i].data <= Len(data)
          /\ ~slot[i].owner /\ slot[i].data # Null =>
                srv.at = "clearSlot" /\ srv.slot = i
          /\ slot[i].owner => slot[i].caller \in Callers
    /\ \A i, j \in Slots :
          slot[i].owner /\ slot[j].owner /\ slot[i].data = slot[j].data
             => i = j \/ slot[i].data = Null
NamesHold ==
    /\ handlers \subseteq active
    /\ Special \subseteq active
    /\ \A i \in Slots : slot[i].name \in
          handlers \cup ToSet(Predefined) \cup {NoName}
    /\ \A f \in held : f.given \in
          handlers \cup ToSet(Predefined) \cup Data
TableInv == /\ TypeOK /\ ServerHolds /\ CallHolds /\ SlotsHold /\ NamesHold
            /\ TableIsConsistent /\ NamesKeepTheirSlots

\* The unlocked reads of the table are harmless for a function given to a
\* global function of QUIK, and for one given to a method until its object
\* is released.  The Lua registry is damaged only by a client that uses an
\* object it does not hold.
UndefinedBehaviourCauses ==
    /\ ub \in {"nullOwner", "nullData", "freedData"} =>
          \E t \in Threads : call[t].at # "idle" /\ call[t].given \in dropped
    /\ ub \in {"luaError", "badUnref"} => foreign

\* A call reaches what its function was given for, or what the same caller
\* was given later; it can only go astray, to another client or to a named
\* callback, when the object it was given to has been released.
StrayCallsComeFromReleases ==
    reached.by # reached.given =>
        \/ reached.given \in dropped
        \/ /\ reached.given \in Data /\ reached.by \in Data
           /\ data[reached.given].caller = data[reached.by].caller
           /\ reached.given < reached.by

\* A later registration of the same caller has taken the slot of r.
Replaced(r) ==
    \E q \in DOMAIN data : q > r /\ data[q].caller = data[r].caller

\* A client that is connected at the address of an earlier one can get calls
\* meant for that one.  From a method of an object it gets them only if the
\* data was replaced, which leaves it unfreed, and the call had already read
\* it when the object was released.
ClosedConnectionsAreForgotten ==
    reached.by \in Data =>
        \/ reached.conn = data[reached.by].conn
        \/ data[reached.by].caller[1] = Global
        \/ Replaced(reached.by) /\ reached.by \in dropped
        \/ foreign

\* README.md, invoke: after SetUpdateCallback of a data source the client
\* gets the updates as calls of the function it has named, so a call of such
\* a function ends there, or at what the same method was given later.
FunctionsReachTheirClient ==
    reached.given \in Data /\ data[reached.given].caller[1] # Global =>
        /\ reached.by \in Data
        /\ data[reached.by].caller = data[reached.given].caller
=============================================================================
