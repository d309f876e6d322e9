--------------------------- MODULE JumpTableProofs ---------------------------
(* Proofs about JumpTable for every number of slots, every set of clients,  *)
(* names, objects and threads and every value of the bounds.                *)
EXTENDS JumpTable, FiniteSetTheorems, SequenceTheorems, TLAPS

-----------------------------------------------------------------------------
(* The searches.                                                           *)

\* A set of numbers that is not empty has a least element.  The intervals
\* 0..i are finite sets, among which inclusion is well-founded.
LEMMA LeastElement ==
    ASSUME NEW S, S \subseteq Nat, S # {}
    PROVE  Min(S) \in S
<1> DEFINE T == {0..i : i \in S}
<1>1. T \subseteq FiniteSubsetsOf(Nat)
  <2>1. \A i \in Nat : IsFiniteSet(0..i)
    BY FS_Interval
  <2> QED
    BY <2>1 DEF FiniteSubsetsOf
<1>2. T # {}
  OBVIOUS
<1>3. \E x \in T : \A y \in T : ~(<<y, x>> \in StrictSubsetOrdering(Nat))
  <2> HIDE DEF T
  <2> QED
    BY <1>1, <1>2, FS_StrictSubsetOrderingWellFounded, WFMin
<1>4. PICK i \in S : \A j \in S :
          ~(<<0..j, 0..i>> \in StrictSubsetOrdering(Nat))
  BY <1>3
<1>5. \A j \in S : i =< j
  <2> SUFFICES ASSUME NEW j \in S, j < i PROVE FALSE
    OBVIOUS
  <2>1. 0..j \subseteq 0..i /\ 0..j # 0..i /\ 0..j \subseteq Nat /\ 0..i \subseteq Nat
    <3>1. i \in 0..i /\ i \notin 0..j
      OBVIOUS
    <3> QED
      BY <3>1
  <2> QED
    BY <1>4, <2>1 DEF StrictSubsetOrdering
<1> QED
  BY <1>5 DEF Min

LEMMA LowestCases ==
    ASSUME NEW S, S \subseteq Slots
    PROVE  IF S = {} THEN Lowest(S) = NoSlot ELSE Lowest(S) \in S
<1>1. S \subseteq Nat
  BY TableAssumption DEF Slots
<1> QED
  BY <1>1, LeastElement DEF Lowest

\* registerNamedCallback takes a slot that serves no client: the one with
\* the name, or one without a name if there is none.
LEMMA SlotForNameCases ==
    ASSUME NEW name
    PROVE  LET i == SlotForName(name)
           IN \/ i = NoSlot
              \/ i \in Slots /\ ~slot[i].owner /\ slot[i].name = name
              \/ /\ i \in Slots /\ ~slot[i].owner /\ slot[i].name = NoName
                 /\ NamedSlots(name) = {}
  BY LowestCases DEF SlotForName, NamedSlots, FreeSlots

\* registerFastCallback takes the slot of the caller, or a free one if the
\* caller has none.
LEMMA SlotForCallerCases ==
    ASSUME NEW caller
    PROVE  LET i == SlotForCaller(caller)
           IN \/ i = NoSlot
              \/ i \in Slots /\ slot[i].owner /\ slot[i].caller = caller
              \/ /\ i \in Slots /\ ~slot[i].owner /\ slot[i].name = NoName
                 /\ \A j \in Slots : slot[j].owner => slot[j].caller # caller
  BY LowestCases DEF SlotForCaller, CallerSlots, FreeSlots

LEMMA ObjectSlotsCases ==
    ASSUME NEW o, ObjectSlots(o) # {}
    PROVE  LET i == Lowest(ObjectSlots(o))
           IN i \in Slots /\ slot[i].owner /\ slot[i].data # Null
  BY LowestCases DEF ObjectSlots

\* What luaopenImp registers are names.
LEMMA PredefinedNames == ToSet(Predefined) \subseteq Names
  BY NameAssumption, ElementOfSeq, LenProperties DEF ToSet

-----------------------------------------------------------------------------
(* What the parts of the invariant depend on.                              *)

\* A step between two requests, or inside one but outside its writes to the
\* table, leaves the table as it is.
LEMMA TableFrame ==
    ASSUME TypeOK, SlotsHold, TableIsConsistent, UNCHANGED <<slot, data>>,
           \/ srv.at \notin {"data", "clearOwner", "clearSlot"}
           \/ UNCHANGED srv
    PROVE  SlotsHold' /\ TableIsConsistent'
<1>1. CASE UNCHANGED srv
  BY <1>1 DEF SlotsHold, TableIsConsistent
<1>2. CASE srv.at \notin {"data", "clearOwner", "clearSlot"}
  BY <1>2 DEF SlotsHold, TableIsConsistent
<1> QED
  BY <1>1, <1>2

LEMMA NamesFrame ==
    ASSUME NamesHold, NamesKeepTheirSlots, slot' = slot,
           UNCHANGED <<held, handlers, active>>
    PROVE  NamesHold' /\ NamesKeepTheirSlots'
  BY DEF NamesHold, NamesKeepTheirSlots

LEMMA CallFrame ==
    ASSUME TypeOK, CallHolds, UNCHANGED call,
           Len(data') \in Nat, Len(data) =< Len(data')
    PROVE  CallHolds'
  BY LenProperties DEF CallHolds, TypeOK, CallRecord, Data, Null

\* The records of the server thread.
LEMMA ServerIdleType == SrvIdle \in ServerRecord
  BY BoundAssumption DEF SrvIdle, ServerRecord, ServerSteps

LEMMA InvokeRecord ==
    ASSUME NEW r \in ServerRecord, NEW c \in Clients, NEW caller \in Callers,
           NEW n \in 0..MaxCallables
    PROVE  [r EXCEPT !.at = "args", !.cd = c, !.caller = caller, !.left = n]
              \in ServerRecord
  BY DEF ServerRecord, ServerSteps

LEMMA ReleaseRecord ==
    ASSUME NEW r \in ServerRecord, NEW c \in Clients, NEW o \in Objects,
           NEW b \in BOOLEAN
    PROVE  [r EXCEPT !.at = "release", !.cd = c, !.object = o, !.closing = b]
              \in ServerRecord
  BY DEF ServerRecord, ServerSteps

LEMMA CloseRecord ==
    ASSUME NEW r \in ServerRecord, NEW c \in Clients
    PROVE  [r EXCEPT !.at = "takeLast", !.cd = c, !.closing = TRUE]
              \in ServerRecord
  BY DEF ServerRecord, ServerSteps

LEMMA StepRecord ==
    ASSUME NEW r \in ServerRecord, NEW at \in ServerSteps,
           NEW i \in Slots \cup {NoSlot}, NEW o \in Objects \cup {Global}
    PROVE  /\ [r EXCEPT !.at = at] \in ServerRecord
           /\ [r EXCEPT !.at = at, !.slot = i] \in ServerRecord
           /\ [r EXCEPT !.at = at, !.object = o] \in ServerRecord
  BY DEF ServerRecord

\* The data that exists, and the lists of references.
LEMMA DataType ==
    ASSUME TypeOK
    PROVE  /\ Len(data) \in Nat /\ DOMAIN data = 1..Len(data)
           /\ DOMAIN data \subseteq Data
           /\ \A r \in DOMAIN data : data[r] \in FunctionData
<1>1. data \in Seq(FunctionData) /\ Len(data) =< MaxData
  BY DEF TypeOK
<1>2. Len(data) \in Nat /\ DOMAIN data = 1..Len(data)
  BY <1>1, LenProperties
<1>3. DOMAIN data \subseteq Data
  BY <1>1, <1>2, BoundAssumption DEF Data
<1>4. \A r \in DOMAIN data : data[r] \in FunctionData
  BY <1>1, <1>2, ElementOfSeq
<1> QED
  BY <1>2, <1>3, <1>4

LEMMA RefsUpdate ==
    ASSUME TypeOK, NEW c \in Clients, NEW o \in Objects, NEW n \in 0..MaxRefs
    PROVE  [objRefs EXCEPT ![c] = [objRefs[c] EXCEPT ![o] = n]]
              \in [Clients -> [Objects -> 0..MaxRefs]]
  BY DEF TypeOK

LEMMA NoDeliveryType == NoDelivery \in Delivery
  BY BoundAssumption DEF NoDelivery, Delivery

-----------------------------------------------------------------------------
(* The server thread.                                                      *)

LEMMA ConnectInvariant ==
    ASSUME TableInv, NotDelivered, NEW c \in Clients, Connect(c)
    PROVE  TableInv'
<1> USE DEF TableInv, Connect
<1>1. TypeOK'
  <2>1. opened + 1 \in 0..MaxConnections
    BY BoundAssumption DEF TypeOK
  <2> QED
    BY <2>1, NoDeliveryType DEF TypeOK, history, NotDelivered, Deliver
<1>2. SlotsHold' /\ TableIsConsistent'
  BY TableFrame
<1>3. NamesHold' /\ NamesKeepTheirSlots'
  BY NamesFrame
<1>4. CallHolds'
  BY CallFrame, DataType
<1>5. ServerHolds'
  BY DEF ServerHolds
<1> QED
  BY <1>1, <1>2, <1>3, <1>4, <1>5

LEMMA InvokeInvariant ==
    ASSUME TableInv, NotDelivered, NEW c \in Clients, NEW caller \in Callers,
           NEW n \in 0..MaxCallables, Invoke(c, caller, n)
    PROVE  TableInv'
<1>1. srv' \in ServerRecord
  <2>1. [SrvIdle EXCEPT !.at = "args", !.cd = c, !.caller = caller, !.left = n]
           \in ServerRecord
    BY ServerIdleType, InvokeRecord
  <2> QED
    BY <2>1 DEF Invoke, TableInv, TypeOK
<1> USE DEF TableInv, Invoke
<1>2. TypeOK'
  BY <1>1, NoDeliveryType DEF TypeOK, UseObject, NotDelivered, Deliver
<1>3. SlotsHold' /\ TableIsConsistent'
  BY TableFrame
<1>4. NamesHold' /\ NamesKeepTheirSlots'
  BY NamesFrame
<1>5. CallHolds'
  BY CallFrame, DataType
<1>6. ServerHolds'
  BY DEF ServerHolds, SrvIdle, Open
<1> QED
  BY <1>2, <1>3, <1>4, <1>5, <1>6

LEMMA FinishInvokeInvariant ==
    ASSUME TableInv, NotDelivered, FinishInvoke
    PROVE  TableInv'
<1> USE DEF TableInv, FinishInvoke
<1>1. held' \subseteq Function /\ (\A f \in held' \ held : f.given \in Data)
  BY DEF TypeOK, ServerRecord, ServerHolds
<1>2. objRefs' \in [Clients -> [Objects -> 0..MaxRefs]]
  <2>1. srv.cd \in Clients
    BY DEF ServerHolds
  <2>2. ASSUME NEW o \in Objects, objRefs[srv.cd][o] < MaxRefs,
               objRefs' = [objRefs EXCEPT ![srv.cd] = AppendRef(@, o)]
        PROVE  objRefs' \in [Clients -> [Objects -> 0..MaxRefs]]
    <3>1. objRefs[srv.cd][o] + 1 \in 0..MaxRefs
      BY <2>1, <2>2, BoundAssumption DEF TypeOK
    <3> QED
      BY <2>1, <2>2, <3>1, RefsUpdate DEF AppendRef
  <2> QED
    BY <2>2 DEF TypeOK
<1>3. TypeOK'
  BY <1>1, <1>2, ServerIdleType, NoDeliveryType
     DEF TypeOK, NotDelivered, Deliver
<1>4. SlotsHold' /\ TableIsConsistent'
  BY TableFrame
<1>5. NamesHold'
  BY <1>1 DEF NamesHold
<1>6. NamesKeepTheirSlots'
  <2>1. ASSUME NEW name \in Names, NEW i \in Slots,
               [slot |-> i, given |-> name] \in held'
        PROVE  [slot |-> i, given |-> name] \in held
    BY <1>1, <2>1, NameAssumption DEF Data
  <2>2. handlers \cup ToSet(Predefined) \subseteq Names
    BY PredefinedNames DEF TypeOK
  <2>3. held \subseteq held'
    OBVIOUS
  <2> QED
    BY <2>1, <2>2, <2>3 DEF NamesKeepTheirSlots
<1>7. CallHolds'
  BY CallFrame, DataType
<1>8. ServerHolds'
  BY DEF ServerHolds, SrvIdle
<1> QED
  BY <1>3, <1>4, <1>5, <1>6, <1>7, <1>8

LEMMA DeleteInvariant ==
    ASSUME TableInv, NotDelivered, NEW c \in Clients, NEW o \in Objects,
           Delete(c, o)
    PROVE  TableInv'
<1> USE DEF TableInv, Delete, BeginRelease
<1>1. srv' \in ServerRecord
  BY ServerIdleType, ReleaseRecord
<1>2. dropped' \subseteq Data
  BY DataType DEF TypeOK
<1>3. TypeOK'
  BY <1>1, <1>2, NoDeliveryType DEF TypeOK, UseObject, NotDelivered, Deliver
<1>4. SlotsHold' /\ TableIsConsistent'
  BY TableFrame
<1>5. NamesHold' /\ NamesKeepTheirSlots'
  BY NamesFrame
<1>6. CallHolds'
  BY CallFrame, DataType
<1>7. ServerHolds'
  BY DEF ServerHolds, SrvIdle
<1> QED
  BY <1>3, <1>4, <1>5, <1>6, <1>7

LEMMA CloseInvariant ==
    ASSUME TableInv, NotDelivered, NEW c \in Clients, Close(c)
    PROVE  TableInv'
<1> USE DEF TableInv, Close
<1>1. srv' \in ServerRecord
  BY ServerIdleType, CloseRecord
<1>2. TypeOK'
  BY <1>1, NoDeliveryType, BoundAssumption
     DEF TypeOK, history, NotDelivered, Deliver
<1>3. SlotsHold' /\ TableIsConsistent'
  BY TableFrame
<1>4. NamesHold' /\ NamesKeepTheirSlots'
  BY NamesFrame
<1>5. CallHolds'
  BY CallFrame, DataType
<1>6. ServerHolds'
  BY DEF ServerHolds, SrvIdle
<1> QED
  BY <1>2, <1>3, <1>4, <1>5, <1>6

LEMMA TakeLastInvariant ==
    ASSUME TableInv, NotDelivered, TakeLast
    PROVE  TableInv'
<1>0. TypeOK /\ srv.cd \in Clients
  BY DEF TableInv, TakeLast, ServerHolds
<1>1. srv' \in ServerRecord
  <2>1. \A o \in Objects : [SrvIdle EXCEPT !.at = "release", !.cd = srv.cd,
                              !.object = o, !.closing = TRUE] \in ServerRecord
    BY <1>0, ServerIdleType, ReleaseRecord
  <2> QED
    BY <2>1, ServerIdleType DEF TakeLast, BeginRelease, Refs
<1>2. dropped' \subseteq Data
  BY <1>0, DataType DEF TypeOK, TakeLast, BeginRelease
<1>3. objRefs' \in [Clients -> [Objects -> 0..MaxRefs]]
  <2>1. ASSUME NEW o \in Refs(srv.cd),
               objRefs' = [objRefs EXCEPT ![srv.cd] = TakeRef(@, o)]
        PROVE  objRefs' \in [Clients -> [Objects -> 0..MaxRefs]]
    <3>1. o \in Objects /\ objRefs[srv.cd][o] > 0
      BY DEF Refs
    <3>2. objRefs[srv.cd][o] \in 0..MaxRefs
      BY <1>0, <3>1 DEF TypeOK
    <3>3. objRefs[srv.cd][o] - 1 \in 0..MaxRefs
      BY <3>1, <3>2, BoundAssumption
    <3> QED
      BY <1>0, <2>1, <3>1, <3>3, RefsUpdate DEF TakeRef
  <2> QED
    BY <1>0, <2>1 DEF TypeOK, TakeLast
<1>7. CallHolds'
  BY <1>0, CallFrame, DataType DEF TableInv, TakeLast
<1> USE DEF TableInv, TakeLast, BeginRelease
<1>4. TypeOK'
  BY <1>1, <1>2, <1>3, NoDeliveryType DEF TypeOK, NotDelivered, Deliver
<1>5. SlotsHold' /\ TableIsConsistent'
  BY TableFrame
<1>6. NamesHold' /\ NamesKeepTheirSlots'
  BY NamesFrame
<1>8. ServerHolds'
  <2>1. CASE srv' = SrvIdle
    BY <2>1 DEF ServerHolds, SrvIdle
  <2>2. ASSUME NEW o \in Refs(srv.cd), BeginRelease(srv.cd, o, TRUE)
        PROVE  ServerHolds'
    BY <1>0, <2>2 DEF ServerHolds, SrvIdle, Refs
  <2> QED
    BY <2>1, <2>2
<1> QED
  BY <1>4, <1>5, <1>6, <1>7, <1>8

LEMMA UnrefInvariant ==
    ASSUME TableInv, NotDelivered, Unref
    PROVE  TableInv'
<1>0. TypeOK /\ srv.cd \in Clients /\ srv.object \in Objects
  BY DEF TableInv, Unref, ServerHolds
<1>1. srv' \in ServerRecord
  <2>1. [srv EXCEPT !.at = "takeLast", !.object = Global] \in ServerRecord
    BY <1>0, StepRecord DEF TypeOK, ServerSteps
  <2> QED
    BY <2>1, ServerIdleType DEF Unref
<1>2. objRefs' \in [Clients -> [Objects -> 0..MaxRefs]]
  <2>1. [objRefs EXCEPT ![srv.cd] = RemoveAll(@, srv.object)]
           \in [Clients -> [Objects -> 0..MaxRefs]]
    BY <1>0, RefsUpdate, BoundAssumption DEF RemoveAll
  <2> QED
    BY <1>0, <2>1 DEF TypeOK, Unref
<1> USE DEF TableInv, Unref
<1>3. TypeOK'
  BY <1>1, <1>2, NoDeliveryType DEF TypeOK, NotDelivered, Deliver
<1>4. SlotsHold' /\ TableIsConsistent'
  BY TableFrame
<1>5. NamesHold' /\ NamesKeepTheirSlots'
  BY NamesFrame
<1>6. CallHolds'
  BY CallFrame, DataType
<1>7. ServerHolds'
  <2>1. CASE srv' = SrvIdle
    BY <2>1 DEF ServerHolds, SrvIdle
  <2>2. CASE srv' = [srv EXCEPT !.at = "takeLast", !.object = Global]
    BY <1>0, <2>2 DEF ServerHolds, TypeOK, ServerRecord
  <2> QED
    BY <2>1, <2>2
<1> QED
  BY <1>3, <1>4, <1>5, <1>6, <1>7

\* The request register.  The slot it takes has the name already, or has no
\* name while no slot and no function has this one.
LEMMA RegisterInvariant ==
    ASSUME TableInv, NotDelivered, NEW c \in Clients, NEW name \in Names,
           Register(c, name)
    PROVE  TableInv'
<1> DEFINE i == SlotForName(name)
           f == [slot |-> i, given |-> name]
<1>1. TypeOK /\ srv.at = "idle" /\ name # NoName
  BY NameAssumption DEF TableInv, Register
<1>2. CASE i = NoSlot
  <2>1. UNCHANGED <<slot, held, handlers>> /\ active' = active \cup {name}
        /\ UNCHANGED <<client, data, registry, objRefs, call, srv, opened,
                       history, ub>>
    BY <1>2 DEF Register, RegisterCallback
  <2>2. TypeOK'
    BY <1>1, <2>1, NoDeliveryType DEF TypeOK, history, NotDelivered, Deliver
  <2>3. SlotsHold' /\ TableIsConsistent'
    BY <1>1, <2>1, TableFrame DEF TableInv
  <2>4. CallHolds' /\ ServerHolds'
    BY <2>1 DEF TableInv, CallHolds, ServerHolds, Open
  <2>5. NamesHold' /\ NamesKeepTheirSlots'
    BY <2>1 DEF TableInv, NamesHold, NamesKeepTheirSlots
  <2> QED
    BY <2>2, <2>3, <2>4, <2>5 DEF TableInv
<1>3. CASE i # NoSlot
  <2>1. /\ slot' = [slot EXCEPT ![i].owner = FALSE, ![i].name = name]
        /\ held' = held \cup {f}
        /\ handlers' = handlers \cup {name}
        /\ active' = active \cup {name}
        /\ UNCHANGED <<client, data, registry, objRefs, call, srv, opened,
                       history, ub>>
    BY <1>3 DEF Register, RegisterCallback
  <2>2. /\ i \in Slots /\ ~slot[i].owner
        /\ \/ slot[i].name = name
           \/ slot[i].name = NoName /\ NamedSlots(name) = {}
    BY <1>3, SlotForNameCases
  <2> HIDE DEF i
  <2>3. /\ slot' \in [Slots -> JumpTableItem]
        /\ \A j \in Slots : /\ slot'[j].owner = slot[j].owner
                            /\ slot'[j].data = slot[j].data
                            /\ slot'[j].caller = slot[j].caller
                            /\ j # i => slot'[j].name = slot[j].name
        /\ slot'[i].name = name
    <3>1. slot[i] \in JumpTableItem /\ [slot[i] EXCEPT !.name = name] = slot'[i]
      BY <1>1, <2>1, <2>2 DEF TypeOK, JumpTableItem
    <3>2. slot' = [slot EXCEPT ![i] = [slot[i] EXCEPT !.name = name]]
      BY <1>1, <2>1, <2>2, <3>1 DEF TypeOK
    <3>3. [slot[i] EXCEPT !.name = name] \in JumpTableItem
      BY <3>1 DEF JumpTableItem
    <3> QED
      BY <1>1, <2>2, <3>1, <3>2, <3>3 DEF TypeOK, JumpTableItem
  <2>4. TypeOK'
    <3>1. f \in Function
      BY <2>2 DEF Function
    <3> QED
      BY <1>1, <2>1, <2>3, <3>1, NoDeliveryType
         DEF TypeOK, history, NotDelivered, Deliver
  <2>5. SlotsHold'
    <3>1. SlotsHold /\ data' = data /\ srv' = srv
      BY <2>1 DEF TableInv
    <3>2. \A j \in Slots :
             /\ slot'[j].data =< Len(data)
             /\ ~slot'[j].owner /\ slot'[j].data # Null =>
                   srv.at = "clearSlot" /\ srv.slot = j
             /\ slot'[j].owner => slot'[j].caller \in Callers
      BY <2>3, <3>1 DEF SlotsHold
    <3>3. \A j, k \in Slots :
             slot'[j].owner /\ slot'[k].owner /\ slot'[j].data = slot'[k].data
                => j = k \/ slot'[j].data = Null
      BY <2>3, <3>1 DEF SlotsHold
    <3> QED
      BY <3>1, <3>2, <3>3 DEF SlotsHold
  <2>6. TableIsConsistent'
    BY <1>1, <2>1, <2>2, <2>3 DEF TableInv, TableIsConsistent
  <2>7. CallHolds' /\ ServerHolds'
    BY <1>1, <2>1 DEF TableInv, CallHolds, ServerHolds, Open
  <2>8. NamesHold'
    BY <2>1, <2>2, <2>3 DEF TableInv, NamesHold
  <2>9. NamesKeepTheirSlots'
    <3> SUFFICES ASSUME NEW n \in handlers' \cup ToSet(Predefined)
                 PROVE  /\ \E j \in Slots : [slot |-> j, given |-> n] \in held'
                        /\ \A j \in Slots : slot'[j].name = n
                              <=> [slot |-> j, given |-> n] \in held'
      BY DEF NamesKeepTheirSlots
    <3>1. \A j \in Slots : [slot |-> j, given |-> n] \in held'
             <=> \/ [slot |-> j, given |-> n] \in held
                 \/ j = i /\ n = name
      BY <2>1
    <3>2. CASE n \in handlers \cup ToSet(Predefined)
      <4>1. /\ \E j \in Slots : [slot |-> j, given |-> n] \in held
            /\ \A j \in Slots : slot[j].name = n
                  <=> [slot |-> j, given |-> n] \in held
        BY <3>2 DEF TableInv, NamesKeepTheirSlots
      <4>2. CASE slot[i].name = name
        BY <2>2, <2>3, <3>1, <4>1, <4>2
      <4>3. CASE slot[i].name = NoName /\ NamedSlots(name) = {}
        <5>1. n # NoName
          BY <1>1, <3>2, PredefinedNames, NameAssumption DEF TypeOK
        <5>2. PICK j \in Slots : slot[j].name = n
          BY <4>1
        <5>3. ~slot[j].owner
          BY <5>1, <5>2 DEF TableInv, TableIsConsistent
        <5>4. n # name
          BY <4>3, <5>2, <5>3 DEF NamedSlots
        <5> QED
          BY <2>2, <2>3, <3>1, <4>1, <4>3, <5>1, <5>4
      <4> QED
        BY <2>2, <4>2, <4>3
    <3>3. CASE n \notin handlers \cup ToSet(Predefined)
      <4>1. n = name
        BY <2>1, <3>3
      <4>2. \A j \in Slots : slot[j].name # n
        BY <1>1, <3>3, <4>1 DEF TableInv, NamesHold
      <4>3. n \notin Data
        BY <4>1, NameAssumption DEF Data
      <4>4. \A j \in Slots : [slot |-> j, given |-> n] \notin held
        BY <3>3, <4>3 DEF TableInv, NamesHold
      <4> QED
        BY <2>2, <2>3, <3>1, <4>1, <4>2, <4>4
    <3> QED
      BY <3>2, <3>3
  <2> QED
    BY <2>4, <2>5, <2>6, <2>7, <2>8, <2>9 DEF TableInv
<1> QED
  BY <1>2, <1>3

\* What a write to slot i has to respect: it is the only slot with a new value.
LEMMA SlotUpdate ==
    ASSUME TypeOK, NEW i \in Slots, NEW item \in JumpTableItem,
           slot' = [slot EXCEPT ![i] = item]
    PROVE  /\ slot' \in [Slots -> JumpTableItem]
           /\ slot'[i] = item
           /\ \A j \in Slots : j # i => slot'[j] = slot[j]
  BY DEF TypeOK

\* The second write of registerFastCallback is still to come: the slot has
\* its owner, and leads to what it led to before.
LEMMA PushCallableInvariant ==
    ASSUME TableInv, NotDelivered, PushCallable
    PROVE  TableInv'
<1> DEFINE i == SlotForCaller(srv.caller)
           d == [cd |-> srv.cd, conn |-> client[srv.cd],
                 caller |-> srv.caller, freed |-> FALSE]
<1>1. /\ TypeOK /\ srv.at = "args" /\ srv.left > 0 /\ Len(data) < MaxData
      /\ srv.cd \in Clients /\ Open(srv.cd) /\ srv.caller \in Callers
      /\ data' = Append(data, d)
      /\ UNCHANGED <<client, registry, objRefs, active, handlers, held, call,
                     opened, history, ub>>
  BY DEF TableInv, PushCallable, ServerHolds
<1>2. d \in FunctionData
  <2>1. client[srv.cd] \in 1..MaxConnections
    BY <1>1, BoundAssumption DEF TypeOK, Open
  <2> QED
    BY <1>1, <2>1 DEF FunctionData
<1>3. /\ data' \in Seq(FunctionData) /\ Len(data') = Len(data) + 1
      /\ Len(data') =< MaxData /\ data'[Len(data')] = d
      /\ \A r \in DOMAIN data : data'[r] = data[r]
      /\ Len(data) \in Nat /\ DOMAIN data = 1..Len(data)
  <2> HIDE DEF d
  <2> QED
    BY <1>1, <1>2, DataType, AppendProperties, BoundAssumption DEF TypeOK
<1>4. /\ d.cd = srv.cd /\ d.conn = client[srv.cd] /\ d.caller = srv.caller
      /\ ~d.freed
  OBVIOUS
<1> HIDE DEF d
<1>5. srv.left - 1 \in 0..MaxCallables /\ srv.left \in Nat
  BY <1>1, BoundAssumption DEF TypeOK, ServerRecord
<1>6. CallHolds'
  BY <1>1, <1>3, CallFrame DEF TableInv
<1>7. \A j \in Slots : slot[j].data \in 0..Len(data)
  BY <1>1, <1>3 DEF TableInv, SlotsHold, TypeOK, JumpTableItem, Data, Null
<1>8. CASE i = NoSlot
  <2>1. srv' = [srv EXCEPT !.left = @ - 1] /\ slot' = slot
    BY <1>8 DEF PushCallable
  <2>2. srv' \in ServerRecord /\ srv'.at = "args" /\ srv'.slot = srv.slot
        /\ srv'.functions = srv.functions
        /\ srv'.cd = srv.cd /\ srv'.caller = srv.caller
    BY <1>1, <1>5, <2>1 DEF TypeOK, ServerRecord
  <2>3. TypeOK'
    BY <1>1, <1>3, <2>1, <2>2, NoDeliveryType
       DEF TypeOK, history, NotDelivered, Deliver
  <2>4. SlotsHold'
    BY <1>1, <1>3, <1>7, <2>1 DEF TableInv, SlotsHold
  <2>5. TableIsConsistent'
    BY <1>1, <1>3, <1>7, <2>1 DEF TableInv, TableIsConsistent, Null
  <2>6. NamesHold' /\ NamesKeepTheirSlots'
    BY <1>1, <2>1, NamesFrame DEF TableInv
  <2>7. ServerHolds'
    BY <1>1, <2>2 DEF TableInv, ServerHolds, Open
  <2> QED
    BY <1>6, <2>3, <2>4, <2>5, <2>6, <2>7 DEF TableInv
<1>9. CASE i # NoSlot
  <2>1. /\ slot' = [slot EXCEPT ![i].owner = TRUE, ![i].caller = srv.caller]
        /\ srv' = [srv EXCEPT !.at = "data", !.slot = i]
    BY <1>9 DEF PushCallable
  <2>2. /\ i \in Slots
        /\ \/ slot[i].owner /\ slot[i].caller = srv.caller
           \/ /\ ~slot[i].owner /\ slot[i].name = NoName
              /\ \A j \in Slots : slot[j].owner => slot[j].caller # srv.caller
    BY <1>9, SlotForCallerCases
  <2> HIDE DEF i
  <2> DEFINE item == [slot[i] EXCEPT !.owner = TRUE, !.caller = srv.caller]
  <2>3. item \in JumpTableItem /\ item.owner /\ item.caller = srv.caller
        /\ item.name = slot[i].name /\ item.data = slot[i].data
    BY <1>1, <2>2 DEF TypeOK, JumpTableItem
  <2>4. slot' = [slot EXCEPT ![i] = item]
    BY <1>1, <2>1, <2>2 DEF TypeOK
  <2> HIDE DEF item
  <2>5. /\ slot' \in [Slots -> JumpTableItem] /\ slot'[i] = item
        /\ \A j \in Slots : j # i => slot'[j] = slot[j]
    BY <1>1, <2>2, <2>3, <2>4, SlotUpdate
  <2>6. srv' \in ServerRecord /\ srv'.at = "data" /\ srv'.slot = i
        /\ srv'.functions = srv.functions /\ srv'.left = srv.left
        /\ srv'.cd = srv.cd /\ srv'.caller = srv.caller
    BY <1>1, <2>1, <2>2 DEF TypeOK, ServerRecord, ServerSteps
  <2>7. TypeOK'
    BY <1>1, <1>3, <2>5, <2>6, NoDeliveryType
       DEF TypeOK, history, NotDelivered, Deliver
  <2>8. item.name = NoName
    BY <2>2, <2>3 DEF TableInv, TableIsConsistent
  <2>9. \A j \in Slots : slot'[j].name = slot[j].name
        /\ slot'[j].data = slot[j].data
    BY <2>3, <2>5
  <2>10. SlotsHold'
    <3>1. \A j \in Slots : slot[j].owner \/ slot[j].data = Null
      BY <1>1 DEF TableInv, SlotsHold
    <3>2. \A j, k \in Slots : slot[j].data = slot[k].data
             => j = k \/ slot[j].data = Null
      BY <3>1 DEF TableInv, SlotsHold
    <3>3. \A j \in Slots : slot'[j].owner => slot'[j].caller \in Callers
      BY <1>1, <2>3, <2>5 DEF TableInv, SlotsHold
    <3>4. \A j \in Slots : slot[j].data =< Len(data')
      BY <1>3, <1>7
    <3>5. \A j \in Slots : slot'[j].owner \/ slot'[j].data = Null
      BY <2>3, <2>5, <3>1
    <3> QED
      BY <2>9, <3>2, <3>3, <3>4, <3>5 DEF SlotsHold
  <2>11. TableIsConsistent'
    <3>1. \A j \in Slots : slot'[j].owner => slot'[j].name = NoName
      BY <2>3, <2>5, <2>8 DEF TableInv, TableIsConsistent
    <3>2. \A j \in Slots : slot'[j].owner /\ slot'[j].data = Null => j = i
      BY <1>1, <2>5 DEF TableInv, TableIsConsistent
    <3>3. ASSUME NEW j \in Slots, slot'[j].owner, slot'[j].data # Null
          PROVE  ~data'[slot'[j].data].freed
      <4>1. slot[j].owner
        BY <1>1, <2>9, <3>3 DEF TableInv, SlotsHold
      <4>2. ~data[slot[j].data].freed
        BY <1>1, <2>9, <3>3, <4>1 DEF TableInv, TableIsConsistent
      <4>3. slot[j].data \in DOMAIN data
        BY <1>3, <1>7, <2>9, <3>3 DEF Null
      <4> QED
        BY <1>3, <2>9, <4>2, <4>3
    <3>4. ASSUME NEW j \in Slots, NEW k \in Slots, slot'[j].owner,
                 slot'[k].owner, slot'[j].caller = slot'[k].caller
          PROVE  j = k
      BY <2>2, <2>3, <2>5, <3>4 DEF TableInv, TableIsConsistent
    <3> QED
      BY <2>6, <3>1, <3>2, <3>3, <3>4 DEF TableIsConsistent
  <2>12. NamesHold' /\ NamesKeepTheirSlots'
    BY <1>1, <2>9 DEF TableInv, NamesHold, NamesKeepTheirSlots
  <2>13. ServerHolds'
    <3>1. \A j \in Slots : slot'[j].data # Len(data')
      BY <1>3, <1>7, <2>9
    <3> QED
      BY <1>1, <1>3, <1>4, <2>2, <2>3, <2>5, <2>6, <3>1
         DEF TableInv, ServerHolds, Open
  <2> QED
    BY <1>6, <2>7, <2>10, <2>11, <2>12, <2>13 DEF TableInv
<1> QED
  BY <1>8, <1>9

LEMMA SetCustomDataInvariant ==
    ASSUME TableInv, NotDelivered, SetCustomData
    PROVE  TableInv'
<1> DEFINE i == srv.slot
           item == [slot[i] EXCEPT !.data = Len(data)]
           f == [slot |-> i, given |-> Len(data)]
<1>1. /\ TypeOK /\ srv.at = "data" /\ i \in Slots /\ srv.left > 0
      /\ Len(data) > 0 /\ ~data[Len(data)].freed
      /\ \A j \in Slots : slot[j].data # Len(data)
      /\ srv.cd \in Clients /\ Open(srv.cd) /\ srv.caller \in Callers
      /\ slot' = [slot EXCEPT ![i] = item]
      /\ srv' = [srv EXCEPT !.at = "args", !.left = @ - 1, !.slot = NoSlot,
                            !.functions = @ \cup {f}]
      /\ UNCHANGED <<client, data, registry, objRefs, active, handlers,
                     held, call, opened, history, ub>>
  BY DEF TableInv, SetCustomData, ServerHolds
<1>2. Len(data) \in Data /\ Len(data) # Null
  BY <1>1, DataType, BoundAssumption DEF TypeOK, Data, Null
<1>3. /\ item \in JumpTableItem /\ item.data = Len(data)
      /\ item.owner = slot[i].owner /\ item.name = slot[i].name
      /\ item.caller = slot[i].caller
  BY <1>1, <1>2 DEF TypeOK, JumpTableItem
<1>4. /\ f \in Function /\ f.given \in Data
  BY <1>1, <1>2 DEF Function
<1> HIDE DEF item, f
<1>5. /\ slot' \in [Slots -> JumpTableItem] /\ slot'[i] = item
      /\ \A j \in Slots : j # i => slot'[j] = slot[j]
  BY <1>1, <1>3, SlotUpdate
<1>6. /\ srv' \in ServerRecord /\ srv'.at = "args" /\ srv'.cd = srv.cd
      /\ srv'.caller = srv.caller /\ srv'.functions = srv.functions \cup {f}
  <2>1. srv.left - 1 \in 0..MaxCallables
    BY <1>1, BoundAssumption DEF TypeOK, ServerRecord
  <2> QED
    BY <1>1, <1>4, <2>1 DEF TypeOK, ServerRecord, ServerSteps
<1>7. TypeOK'
  BY <1>1, <1>5, <1>6, NoDeliveryType
     DEF TypeOK, history, NotDelivered, Deliver
<1>8. \A j \in Slots : /\ slot'[j].owner = slot[j].owner
                       /\ slot'[j].name = slot[j].name
                       /\ slot'[j].caller = slot[j].caller
                       /\ slot'[j].data = IF j = i THEN Len(data)
                                          ELSE slot[j].data
  BY <1>3, <1>5
<1>9. SlotsHold'
  <2>1. slot[i].owner
    BY <1>1 DEF TableInv, ServerHolds
  <2>2. data' = data /\ Len(data) \in Nat
    BY <1>1, DataType
  <2>3. \A j \in Slots : slot'[j].data =< Len(data)
    BY <1>8, <2>2 DEF TableInv, SlotsHold
  <2>4. \A j \in Slots : /\ slot'[j].owner \/ slot'[j].data = Null
                         /\ slot'[j].owner => slot'[j].caller \in Callers
    BY <1>1, <1>8, <2>1 DEF TableInv, SlotsHold
  <2>5. \A j, k \in Slots :
           slot'[j].owner /\ slot'[k].owner /\ slot'[j].data = slot'[k].data
              => j = k \/ slot'[j].data = Null
    BY <1>1, <1>8 DEF TableInv, SlotsHold
  <2> QED
    BY <2>2, <2>3, <2>4, <2>5 DEF SlotsHold
<1>10. TableIsConsistent'
  <2>1. \A j \in Slots : slot'[j].owner =>
           /\ slot'[j].name = NoName
           /\ slot'[j].data # Null
           /\ ~data[slot'[j].data].freed
    BY <1>1, <1>2, <1>8 DEF TableInv, TableIsConsistent
  <2>2. \A j, k \in Slots :
           slot'[j].owner /\ slot'[k].owner
           /\ slot'[j].caller = slot'[k].caller => j = k
    BY <1>8 DEF TableInv, TableIsConsistent
  <2>3. data' = data
    BY <1>1
  <2> QED
    BY <2>1, <2>2, <2>3 DEF TableIsConsistent
<1>11. NamesHold' /\ NamesKeepTheirSlots'
  BY <1>1, <1>8 DEF TableInv, NamesHold, NamesKeepTheirSlots
<1>12. CallHolds'
  BY <1>1, CallFrame, DataType DEF TableInv
<1>13. ServerHolds'
  BY <1>1, <1>4, <1>6 DEF TableInv, ServerHolds, Open
<1> QED
  BY <1>7, <1>9, <1>10, <1>11, <1>12, <1>13 DEF TableInv

\* clearFastCallbackData.  No other slot leads to the same data.
LEMMA ReleaseDataInvariant ==
    ASSUME TableInv, NotDelivered, ReleaseData
    PROVE  TableInv'
<1> DEFINE i == Lowest(ObjectSlots(srv.object))
           r == slot[i].data
           d == [data[r] EXCEPT !.freed = TRUE]
<1>1. /\ TypeOK /\ srv.at = "release" /\ srv.object \in Objects
      /\ srv.cd \in Clients /\ i \in Slots /\ slot[i].owner /\ r # Null
      /\ data' = [data EXCEPT ![r] = d]
      /\ srv' = [srv EXCEPT !.at = "clearOwner", !.slot = i]
      /\ UNCHANGED <<client, slot, registry, objRefs, active, handlers,
                     held, call, opened, history, ub>>
  BY ObjectSlotsCases DEF TableInv, ReleaseData, ServerHolds
<1> HIDE DEF i
<1>2. r \in 1..Len(data) /\ Len(data) \in Nat /\ DOMAIN data = 1..Len(data)
  <2>1. r \in Data \cup {Null} /\ r =< Len(data)
    BY <1>1 DEF TableInv, SlotsHold, TypeOK, JumpTableItem
  <2> QED
    BY <1>1, <2>1, DataType DEF Data, Null
<1>3. d \in FunctionData
  BY <1>1, <1>2, DataType DEF FunctionData
<1> HIDE DEF d
<1>4. /\ data' \in Seq(FunctionData) /\ Len(data') = Len(data)
      /\ \A q \in 1..Len(data) : q # r => data'[q] = data[q]
  BY <1>1, <1>2, <1>3, ExceptSeq DEF TypeOK
<1>5. srv' \in ServerRecord /\ srv'.at = "clearOwner" /\ srv'.slot = i
      /\ srv'.functions = srv.functions /\ srv'.cd = srv.cd
      /\ srv'.object = srv.object
  BY <1>1 DEF TypeOK, ServerRecord, ServerSteps
<1>6. TypeOK'
  BY <1>1, <1>4, <1>5, NoDeliveryType
     DEF TypeOK, history, NotDelivered, Deliver
<1>7. SlotsHold'
  BY <1>1, <1>4, <1>5 DEF TableInv, SlotsHold
<1>8. TableIsConsistent'
  <2>1. ASSUME NEW j \in Slots, slot[j].owner, j # i
        PROVE  slot[j].data # Null /\ ~data'[slot[j].data].freed
    <3>1. slot[j].data # Null /\ ~data[slot[j].data].freed
      BY <1>1, <2>1 DEF TableInv, TableIsConsistent
    <3>2. slot[j].data # r
      BY <1>1, <2>1, <3>1 DEF TableInv, SlotsHold
    <3>3. slot[j].data \in 1..Len(data)
      BY <1>2, <3>1 DEF TableInv, SlotsHold, TypeOK, JumpTableItem, Data, Null
    <3> QED
      BY <1>4, <3>1, <3>2, <3>3
  <2> QED
    BY <1>1, <1>5, <2>1 DEF TableInv, TableIsConsistent
<1>9. NamesHold' /\ NamesKeepTheirSlots'
  BY <1>1, NamesFrame DEF TableInv
<1>10. CallHolds'
  BY <1>1, <1>2, <1>4, CallFrame DEF TableInv
<1>11. ServerHolds'
  BY <1>1, <1>5 DEF TableInv, ServerHolds
<1> QED
  BY <1>6, <1>7, <1>8, <1>9, <1>10, <1>11 DEF TableInv

LEMMA ClearOwnerInvariant ==
    ASSUME TableInv, NotDelivered, ClearOwner
    PROVE  TableInv'
<1> DEFINE i == srv.slot
           item == [slot[i] EXCEPT !.owner = FALSE]
<1>1. /\ TypeOK /\ srv.at = "clearOwner" /\ i \in Slots /\ slot[i].owner
      /\ srv.object \in Objects /\ srv.cd \in Clients
      /\ slot' = [slot EXCEPT ![i] = item]
      /\ srv' = [srv EXCEPT !.at = "clearSlot"]
      /\ UNCHANGED <<client, data, registry, objRefs, active, handlers,
                     held, call, opened, history, ub>>
  BY DEF TableInv, ClearOwner, ServerHolds
<1>2. item \in JumpTableItem /\ ~item.owner /\ item.name = slot[i].name
      /\ item.data = slot[i].data
  BY <1>1 DEF TypeOK, JumpTableItem
<1> HIDE DEF item
<1>3. /\ slot' \in [Slots -> JumpTableItem] /\ slot'[i] = item
      /\ \A j \in Slots : j # i => slot'[j] = slot[j]
  BY <1>1, <1>2, SlotUpdate
<1>4. srv' \in ServerRecord /\ srv'.at = "clearSlot" /\ srv'.slot = i
      /\ srv'.functions = srv.functions /\ srv'.cd = srv.cd
      /\ srv'.object = srv.object
  BY <1>1 DEF TypeOK, ServerRecord, ServerSteps
<1>5. TypeOK'
  BY <1>1, <1>3, <1>4, NoDeliveryType
     DEF TypeOK, history, NotDelivered, Deliver
<1>6. \A j \in Slots : /\ slot'[j].name = slot[j].name
                       /\ slot'[j].data = slot[j].data
                       /\ slot'[j].owner => j # i /\ slot'[j] = slot[j]
  BY <1>2, <1>3
<1>7. data' = data
  BY <1>1
<1>8. SlotsHold'
  <2>1. \A j \in Slots :
           /\ slot'[j].data =< Len(data)
           /\ ~slot'[j].owner /\ slot'[j].data # Null => j = i
           /\ slot'[j].owner => slot'[j].caller \in Callers
    BY <1>1, <1>3, <1>6 DEF TableInv, SlotsHold
  <2>2. \A j, k \in Slots :
           slot'[j].owner /\ slot'[k].owner /\ slot'[j].data = slot'[k].data
              => j = k \/ slot'[j].data = Null
    BY <1>6 DEF TableInv, SlotsHold
  <2> QED
    BY <1>4, <1>7, <2>1, <2>2 DEF SlotsHold
<1>9. TableIsConsistent'
  BY <1>1, <1>6, <1>7 DEF TableInv, TableIsConsistent
<1>10. NamesHold' /\ NamesKeepTheirSlots'
  BY <1>1, <1>6 DEF TableInv, NamesHold, NamesKeepTheirSlots
<1>11. CallHolds'
  BY <1>1, CallFrame, DataType DEF TableInv
<1>12. ServerHolds'
  <2>1. slot[i].name = NoName
    BY <1>1 DEF TableInv, TableIsConsistent
  <2> QED
    BY <1>1, <1>2, <1>3, <1>4, <2>1 DEF TableInv, ServerHolds
<1> QED
  BY <1>5, <1>8, <1>9, <1>10, <1>11, <1>12 DEF TableInv

LEMMA ClearSlotInvariant ==
    ASSUME TableInv, NotDelivered, ClearSlot
    PROVE  TableInv'
<1> DEFINE i == srv.slot
<1>1. /\ TypeOK /\ srv.at = "clearSlot" /\ i \in Slots
      /\ slot[i].name = NoName /\ ~slot[i].owner
      /\ srv.object \in Objects /\ srv.cd \in Clients
      /\ slot' = [slot EXCEPT ![i] = FreeItem]
      /\ srv' = [srv EXCEPT !.at = "release", !.slot = NoSlot]
      /\ UNCHANGED <<client, data, registry, objRefs, active, handlers,
                     held, call, opened, history, ub>>
  BY DEF TableInv, ClearSlot, ServerHolds
<1>2. FreeItem \in JumpTableItem /\ ~FreeItem.owner /\ FreeItem.name = NoName
      /\ FreeItem.data = Null
  BY DEF FreeItem, JumpTableItem
<1>3. /\ slot' \in [Slots -> JumpTableItem] /\ slot'[i] = FreeItem
      /\ \A j \in Slots : j # i => slot'[j] = slot[j]
  BY <1>1, <1>2, SlotUpdate
<1>4. srv' \in ServerRecord /\ srv'.at = "release"
      /\ srv'.functions = srv.functions /\ srv'.cd = srv.cd
      /\ srv'.object = srv.object
  BY <1>1 DEF TypeOK, ServerRecord, ServerSteps
<1>5. TypeOK'
  BY <1>1, <1>3, <1>4, NoDeliveryType
     DEF TypeOK, history, NotDelivered, Deliver
<1>6. \A j \in Slots : /\ slot'[j].name = slot[j].name
                       /\ slot'[j].data = Null \/ slot'[j] = slot[j]
                       /\ slot'[j].owner => j # i /\ slot'[j] = slot[j]
  BY <1>1, <1>2, <1>3
<1>7. data' = data /\ Len(data) \in Nat
  BY <1>1, DataType
<1>8. SlotsHold'
  <2>1. \A j \in Slots :
           /\ slot'[j].data =< Len(data)
           /\ slot'[j].owner \/ slot'[j].data = Null
           /\ slot'[j].owner => slot'[j].caller \in Callers
    BY <1>1, <1>2, <1>3, <1>7 DEF TableInv, SlotsHold, Null
  <2>2. \A j, k \in Slots :
           slot'[j].owner /\ slot'[k].owner /\ slot'[j].data = slot'[k].data
              => j = k \/ slot'[j].data = Null
    BY <1>6 DEF TableInv, SlotsHold
  <2> QED
    BY <1>7, <2>1, <2>2 DEF SlotsHold
<1>9. TableIsConsistent'
  BY <1>1, <1>6, <1>7 DEF TableInv, TableIsConsistent
<1>10. NamesHold' /\ NamesKeepTheirSlots'
  BY <1>1, <1>6 DEF TableInv, NamesHold, NamesKeepTheirSlots
<1>11. CallHolds'
  BY <1>1, CallFrame, DataType DEF TableInv
<1>12. ServerHolds'
  BY <1>1, <1>4 DEF TableInv, ServerHolds
<1> QED
  BY <1>5, <1>8, <1>9, <1>10, <1>11, <1>12 DEF TableInv

-----------------------------------------------------------------------------
(* A thread of QUIK.                                                       *)

\* What a step of a call may leave behind.
CallStepType ==
    /\ call' \in [Threads -> CallRecord] /\ CallHolds'
    /\ reached' \in Delivery
    /\ ub' \in {"none", "nullOwner", "nullData", "freedData", "luaError",
                "badUnref"}

LEMMA CallUpdate ==
    ASSUME TypeOK, CallHolds, UNCHANGED data, NEW t \in Threads,
           NEW r \in CallRecord, call' = [call EXCEPT ![t] = r],
           r.at # "idle" => r.slot \in Slots, r.data =< Len(data),
           r.at = "use" => r.data # Null
    PROVE  call' \in [Threads -> CallRecord] /\ CallHolds'
  BY DEF TypeOK, CallHolds

LEMMA GotoKeepsType ==
    ASSUME TypeOK, CallHolds, UNCHANGED data, NEW t \in Threads,
           NEW at \in CallSteps, Goto(t, at), call[t].at # "idle",
           at = "use" => call[t].data # Null
    PROVE  call' \in [Threads -> CallRecord] /\ CallHolds'
<1> DEFINE r == [call[t] EXCEPT !.at = at]
<1>1. r \in CallRecord /\ r.at = at /\ r.slot = call[t].slot
      /\ r.data = call[t].data
  BY DEF TypeOK, CallRecord
<1>2. call' = [call EXCEPT ![t] = r]
  BY DEF Goto, TypeOK
<1>3. call[t].slot \in Slots /\ call[t].data =< Len(data)
  BY DEF CallHolds
<1> HIDE DEF r
<1> QED
  BY <1>1, <1>2, <1>3, CallUpdate

LEMMA ReturnKeepsType ==
    ASSUME TypeOK, CallHolds, UNCHANGED data, NEW t \in Threads, Return(t)
    PROVE  call' \in [Threads -> CallRecord] /\ CallHolds'
<1>1. NoCall \in CallRecord /\ NoCall.at = "idle" /\ NoCall.data = 0
  BY DEF NoCall, CallRecord, CallSteps, Null
<1>2. NoCall.data <= Len(data)
  BY <1>1, DataType
<1>3. call' = [call EXCEPT ![t] = NoCall]
  BY DEF Return
<1> QED
  BY <1>1, <1>2, <1>3, CallUpdate

LEMMA CallFunctionType ==
    ASSUME TableInv, UNCHANGED data, NEW t \in Threads, NEW f \in held,
           CallFunction(t, f)
    PROVE  CallStepType
<1> DEFINE r == [at |-> "name", slot |-> f.slot, given |-> f.given,
                 data |-> Null]
<1>1. r \in CallRecord /\ r.slot \in Slots
  BY DEF TableInv, TypeOK, Function, CallRecord, CallSteps
<1>2. r.at = "name" /\ r.data = 0 /\ Len(data) \in Nat
  BY DataType DEF TableInv, Null
<1>3. call' = [call EXCEPT ![t] = r]
  BY DEF CallFunction
<1> HIDE DEF r
<1>4. call' \in [Threads -> CallRecord] /\ CallHolds'
  <2>1. TypeOK /\ CallHolds
    BY DEF TableInv
  <2>2. r.data <= Len(data) /\ (r.at = "use" => r.data # Null)
    BY <1>2
  <2> QED
    BY <1>1, <1>3, <2>1, <2>2, CallUpdate
<1> QED
  BY <1>4, NoDeliveryType
     DEF CallFunction, CallStepType, NotDelivered, Deliver, TableInv, TypeOK

LEMMA ReadNameType ==
    ASSUME TableInv, UNCHANGED data, NEW t \in Threads, ReadName(t)
    PROVE  CallStepType
<1> DEFINE name == slot[call[t].slot].name
<1>1. TypeOK /\ CallHolds /\ call[t].at = "name" /\ UNCHANGED ub
  BY DEF TableInv, ReadName
<1>2. CASE Goto(t, "owner") /\ NotDelivered
  BY <1>1, <1>2, GotoKeepsType, NoDeliveryType
     DEF CallStepType, CallSteps, NotDelivered, Deliver, TypeOK
<1>3. CASE Return(t) /\ NotDelivered
  BY <1>1, <1>3, ReturnKeepsType, NoDeliveryType
     DEF CallStepType, NotDelivered, Deliver, TypeOK
<1>4. CASE /\ Return(t) /\ name \in handlers \cap active
           /\ Deliver([given |-> call[t].given, by |-> name, conn |-> 0])
  <2>1. call[t].given \in Data \cup {Null} \cup Names /\ name \in Names
    BY <1>1, <1>4 DEF TypeOK, CallRecord
  <2>2. [given |-> call[t].given, by |-> name, conn |-> 0] \in Delivery
    BY <2>1, BoundAssumption DEF Delivery
  <2> QED
    BY <1>1, <1>4, <2>2, ReturnKeepsType DEF CallStepType, Deliver, TypeOK
<1> QED
  BY <1>2, <1>3, <1>4 DEF ReadName

LEMMA TestOwnerType ==
    ASSUME TableInv, UNCHANGED data, NEW t \in Threads, TestOwner(t)
    PROVE  CallStepType
<1>1. TypeOK /\ CallHolds /\ call[t].at = "owner" /\ UNCHANGED ub
      /\ reached' \in Delivery
  BY NoDeliveryType DEF TableInv, TestOwner, NotDelivered, Deliver
<1>2. CASE Goto(t, "load")
  BY <1>1, <1>2, GotoKeepsType DEF CallStepType, CallSteps, TypeOK
<1>3. CASE Return(t)
  BY <1>1, <1>3, ReturnKeepsType DEF CallStepType, TypeOK
<1> QED
  BY <1>2, <1>3 DEF TestOwner

LEMMA LoadDataType ==
    ASSUME TableInv, UNCHANGED data, NEW t \in Threads, LoadData(t)
    PROVE  CallStepType
<1> DEFINE i == call[t].slot
           r == [call[t] EXCEPT !.at = "connection", !.data = slot[i].data]
<1>1. /\ TypeOK /\ CallHolds /\ call[t].at = "load" /\ i \in Slots
      /\ reached' \in Delivery
  BY NoDeliveryType DEF TableInv, LoadData, CallHolds, NotDelivered, Deliver
<1>2. CASE Crash("nullOwner")
  BY <1>1, <1>2 DEF Crash, CallStepType, CallHolds, TypeOK
<1>3. CASE call' = [call EXCEPT ![t].at = "connection",
                                ![t].data = slot[i].data] /\ UNCHANGED ub
  <2>1. slot[i].data \in Data \cup {Null} /\ slot[i].data =< Len(data)
    BY <1>1 DEF TypeOK, JumpTableItem, TableInv, SlotsHold
  <2>2. r \in CallRecord /\ r.at = "connection" /\ r.slot \in Slots
        /\ r.data = slot[i].data
    BY <1>1, <2>1 DEF TypeOK, CallRecord, CallSteps
  <2>3. call' = [call EXCEPT ![t] = r]
    BY <1>1, <1>3 DEF TypeOK
  <2> HIDE DEF r
  <2>4. call' \in [Threads -> CallRecord] /\ CallHolds'
    BY <1>1, <2>1, <2>2, <2>3, CallUpdate
  <2> QED
    BY <1>1, <1>3, <2>4 DEF CallStepType, TypeOK
<1> QED
  BY <1>2, <1>3 DEF LoadData

LEMMA ReadConnectionType ==
    ASSUME TableInv, UNCHANGED data, NEW t \in Threads, ReadConnection(t)
    PROVE  CallStepType
<1>1. TypeOK /\ CallHolds /\ call[t].at = "connection"
      /\ reached' \in Delivery
  BY NoDeliveryType DEF TableInv, ReadConnection, NotDelivered, Deliver
<1>2. CASE Crash("nullData") \/ Crash("freedData")
  BY <1>1, <1>2 DEF Crash, CallStepType, CallHolds, TypeOK
<1>3. CASE Return(t) /\ UNCHANGED ub
  BY <1>1, <1>3, ReturnKeepsType DEF CallStepType, TypeOK
<1>4. CASE Goto(t, "use") /\ UNCHANGED ub /\ call[t].data # Null
  BY <1>1, <1>4, GotoKeepsType DEF CallStepType, CallSteps, TypeOK
<1> QED
  BY <1>2, <1>3, <1>4 DEF ReadConnection

LEMMA UseDataType ==
    ASSUME TableInv, UNCHANGED data, NEW t \in Threads, UseData(t)
    PROVE  CallStepType
<1> DEFINE r == call[t].data
           d == [given |-> call[t].given, by |-> r,
                 conn |-> client[data[r].cd]]
<1>1. TypeOK /\ CallHolds /\ call[t].at = "use"
  BY DEF TableInv, UseData
<1>2. CASE Crash("freedData") /\ NotDelivered
  BY <1>1, <1>2, NoDeliveryType
     DEF Crash, CallStepType, CallHolds, TypeOK, NotDelivered, Deliver
<1>3. CASE Return(t) /\ NotDelivered /\ UNCHANGED ub
  BY <1>1, <1>3, ReturnKeepsType, NoDeliveryType
     DEF CallStepType, TypeOK, NotDelivered, Deliver
<1>4. CASE Return(t) /\ Deliver(d) /\ UNCHANGED ub
  <2>1. r \in Data /\ r =< Len(data)
    BY <1>1 DEF CallHolds, TypeOK, CallRecord
  <2>2. r \in DOMAIN data
    BY <1>1, <2>1, DataType DEF Data
  <2>3. client[data[r].cd] \in 0..MaxConnections
    <3>1. data[r].cd \in Clients
      BY <1>1, <2>2, DataType DEF FunctionData
    <3> QED
      BY <1>1, <3>1 DEF TypeOK
  <2>4. d \in Delivery
    BY <1>1, <2>1, <2>3 DEF TypeOK, CallRecord, Delivery
  <2> QED
    BY <1>1, <1>4, <2>4, ReturnKeepsType DEF CallStepType, TypeOK, Deliver
<1> QED
  BY <1>2, <1>3, <1>4 DEF UseData

LEMMA QuikStepInvariant ==
    ASSUME TableInv, NEW t \in Threads, QuikStep(t)
    PROVE  TableInv'
<1>1. UNCHANGED <<client, slot, data, registry, objRefs, active, handlers,
                  held, srv, opened, dropped, lost, foreign>>
  BY DEF QuikStep
<1>2. CallStepType
  BY <1>1, CallFunctionType, ReadNameType, TestOwnerType, LoadDataType,
     ReadConnectionType, UseDataType DEF QuikStep
<1>3. TypeOK'
  BY <1>1, <1>2 DEF TableInv, TypeOK, CallStepType
<1>4. SlotsHold' /\ TableIsConsistent'
  BY <1>1, TableFrame DEF TableInv
<1>5. NamesHold' /\ NamesKeepTheirSlots'
  BY <1>1, NamesFrame DEF TableInv
<1>6. ServerHolds'
  BY <1>1 DEF TableInv, ServerHolds, Open
<1> QED
  BY <1>2, <1>3, <1>4, <1>5, <1>6 DEF TableInv, CallStepType

-----------------------------------------------------------------------------
(* The invariant.                                                          *)

LEMMA InitTable == Init => TableInv
<1> SUFFICES ASSUME Init PROVE TableInv
  OBVIOUS
<1> DEFINE n == Len(Predefined)
<1>1. /\ n \in Nat /\ n =< TableSize /\ DOMAIN Predefined = 1..n
      /\ ToSet(Predefined) = {Predefined[i] : i \in 1..n}
      /\ \A i \in 1..n : Predefined[i] \in Names
      /\ \A i, j \in 1..n : Predefined[i] = Predefined[j] => i = j
      /\ NoName \notin Names /\ Special \subseteq ToSet(Predefined)
  BY NameAssumption, LenProperties, ElementOfSeq DEF ToSet
<1> HIDE DEF n
<1>2. FreeItem \in JumpTableItem /\ ~FreeItem.owner /\ FreeItem.data = Null
      /\ FreeItem.name = NoName
  BY DEF FreeItem, JumpTableItem
<1>3. /\ slot \in [Slots -> JumpTableItem]
      /\ \A i \in Slots : /\ ~slot[i].owner /\ slot[i].data = Null
                          /\ slot[i].name = IF i < n THEN Predefined[i + 1]
                                            ELSE NoName
  <2>1. ASSUME NEW i \in Slots
        PROVE  /\ slot[i] \in JumpTableItem
               /\ ~slot[i].owner /\ slot[i].data = Null
               /\ slot[i].name = IF i < n THEN Predefined[i + 1] ELSE NoName
    <3>1. slot[i] = IF i < n THEN [FreeItem EXCEPT !.name = Predefined[i + 1]]
                    ELSE FreeItem
      BY DEF Init, n
    <3>2. i < n => Predefined[i + 1] \in Names
      BY <1>1, TableAssumption DEF Slots
    <3> QED
      BY <1>2, <3>1, <3>2 DEF JumpTableItem
  <2>2. slot = [i \in Slots |-> slot[i]]
    BY DEF Init
  <2> QED
    BY <2>1, <2>2
<1>4. /\ held \subseteq Function
      /\ \A f \in held : f.given \in ToSet(Predefined)
      /\ \A i \in Slots, name \in ToSet(Predefined) :
            [slot |-> i, given |-> name] \in held
               <=> i < n /\ Predefined[i + 1] = name
  <2>1. held = {[slot |-> i - 1, given |-> Predefined[i]] : i \in 1..n}
    BY <1>1 DEF Init
  <2>2. \A i \in 1..n : i - 1 \in Slots
    BY <1>1, TableAssumption DEF Slots
  <2>3. held \subseteq Function /\ \A f \in held : f.given \in ToSet(Predefined)
    BY <1>1, <2>1, <2>2 DEF Function
  <2>4. ASSUME NEW i \in Slots, NEW name \in ToSet(Predefined)
        PROVE  [slot |-> i, given |-> name] \in held
                  <=> i < n /\ Predefined[i + 1] = name
    <3>1. i \in Nat
      BY TableAssumption DEF Slots
    <3>2. ASSUME [slot |-> i, given |-> name] \in held
          PROVE  i < n /\ Predefined[i + 1] = name
      <4>1. PICK k \in 1..n : [slot |-> i, given |-> name]
                                 = [slot |-> k - 1, given |-> Predefined[k]]
        BY <2>1, <3>2
      <4>2. i = k - 1 /\ name = Predefined[k]
        BY <4>1
      <4> QED
        BY <1>1, <3>1, <4>2
    <3>3. ASSUME i < n, Predefined[i + 1] = name
          PROVE  [slot |-> i, given |-> name] \in held
      <4>1. i + 1 \in 1..n /\ (i + 1) - 1 = i
        BY <1>1, <3>1, <3>3
      <4> QED
        BY <2>1, <3>3, <4>1
    <3> QED
      BY <3>2, <3>3
  <2> QED
    BY <2>3, <2>4
<1>5. data = <<>> /\ data \in Seq(FunctionData) /\ Len(data) = 0
  BY EmptySeq DEF Init
<1>6. TypeOK
  <2>1. NoCall \in CallRecord
    BY DEF NoCall, CallRecord, CallSteps
  <2>2. Special \subseteq Names
    BY <1>1, PredefinedNames
  <2>3. /\ client \in [Clients -> 0..MaxConnections]
        /\ objRefs \in [Clients -> [Objects -> 0..MaxRefs]]
        /\ opened \in 0..MaxConnections
    BY BoundAssumption DEF Init
  <2>4. data \in Seq(FunctionData) /\ Len(data) <= MaxData
    BY <1>5, BoundAssumption
  <2>5. call \in [Threads -> CallRecord]
    BY <2>1 DEF Init
  <2>6. srv \in ServerRecord /\ reached \in Delivery
    BY ServerIdleType, NoDeliveryType DEF Init
  <2>7. /\ registry \subseteq Objects /\ active \subseteq Names
        /\ handlers \subseteq Names /\ dropped \subseteq Data
        /\ lost \subseteq Objects /\ foreign \in BOOLEAN /\ ub = "none"
    BY <2>2 DEF Init
  <2> QED
    BY <1>3, <1>4, <2>3, <2>4, <2>5, <2>6, <2>7 DEF TypeOK
<1>7. ServerHolds /\ CallHolds
  BY <1>5 DEF Init, ServerHolds, CallHolds, SrvIdle, NoCall, Null
<1>8. SlotsHold
  BY <1>3, <1>5 DEF SlotsHold, Null
<1>9. TableIsConsistent
  BY <1>3 DEF TableIsConsistent
<1>10. NamesHold
  <2>1. \A i \in Slots : i < n => Predefined[i + 1] \in ToSet(Predefined)
    BY <1>1, TableAssumption DEF Slots
  <2> QED
    BY <1>3, <1>4, <2>1 DEF Init, NamesHold
<1>11. NamesKeepTheirSlots
  <2> SUFFICES ASSUME NEW name \in ToSet(Predefined)
               PROVE  /\ \E i \in Slots : [slot |-> i, given |-> name] \in held
                      /\ \A i \in Slots : slot[i].name = name
                            <=> [slot |-> i, given |-> name] \in held
    BY <1>1 DEF Init, NamesKeepTheirSlots
  <2>1. PICK k \in 1..n : Predefined[k] = name
    BY <1>1
  <2>2. k - 1 \in Slots /\ k - 1 < n /\ (k - 1) + 1 = k
    BY <1>1, TableAssumption DEF Slots
  <2>3. name # NoName
    BY <1>1, <2>1
  <2> QED
    BY <1>3, <1>4, <2>1, <2>2, <2>3
<1> QED
  BY <1>6, <1>7, <1>8, <1>9, <1>10, <1>11 DEF TableInv

\* The table keeps its invariant in every step of either side.
LEMMA StepTable == TableInv /\ [Next]_vars => TableInv'
<1> SUFFICES ASSUME TableInv, [Next]_vars PROVE TableInv'
  OBVIOUS
<1>1. CASE UNCHANGED vars
  <2>1. TypeOK' /\ CallHolds' /\ ServerHolds'
    BY <1>1 DEF vars, history, TableInv, TypeOK, CallHolds, ServerHolds, Open
  <2>2. SlotsHold' /\ TableIsConsistent' /\ NamesHold' /\ NamesKeepTheirSlots'
    BY <1>1, TableFrame, NamesFrame DEF vars, TableInv
  <2> QED
    BY <2>1, <2>2 DEF TableInv
<1>2. CASE ServerStep /\ NotDelivered
  BY <1>2, ConnectInvariant, CloseInvariant, RegisterInvariant,
     InvokeInvariant, DeleteInvariant, PushCallableInvariant,
     SetCustomDataInvariant, FinishInvokeInvariant, TakeLastInvariant,
     ReleaseDataInvariant, ClearOwnerInvariant, ClearSlotInvariant,
     UnrefInvariant DEF ServerStep
<1>3. CASE \E t \in Threads : QuikStep(t)
  BY <1>3, QuikStepInvariant
<1> QED
  BY <1>1, <1>2, <1>3 DEF Next

THEOREM TableInvariant == Spec => []TableInv
  BY InitTable, StepTable, PTL DEF Spec

\* Every variable keeps its type.
THEOREM TypeCorrect == Spec => []TypeOK
<1>1. TableInv => TypeOK
  BY DEF TableInv
<1> QED
  BY <1>1, TableInvariant, PTL

\* However many slots there are and whoever registers: a slot serves a name
\* or a client, a caller has one slot, and a slot in use leads to data that
\* exists.
THEOREM TableStaysConsistent == Spec => []TableIsConsistent
<1>1. TableInv => TableIsConsistent
  BY DEF TableInv
<1> QED
  BY <1>1, TableInvariant, PTL

\* No fast callback ever takes the slot of a name that QUIK can call.
THEOREM NamesStayReachable == Spec => []NamesKeepTheirSlots
<1>1. TableInv => NamesKeepTheirSlots
  BY DEF TableInv
<1> QED
  BY <1>1, TableInvariant, PTL

-----------------------------------------------------------------------------
(* The references.                                                         *)

\* The server thread is between the two ends of a deleteQuikObject.
Releasing == srv.at \in {"release", "clearOwner", "clearSlot"}

\* The connection that d was made for is there, or in its destructor.
Serves(d) == client[d.cd] = d.conn \/ (srv.closing /\ srv.cd = d.cd)

\* An idle server thread holds nothing, and it has an object only while it
\* releases it.
ServerIsOrderly ==
    /\ srv.at = "idle" => srv = SrvIdle
    /\ ~Releasing => srv.object = Global
    /\ srv.at = "takeLast" => srv.closing
    /\ srv.closing => (srv.at = "takeLast" \/ Releasing) /\ ~Open(srv.cd)

\* The object whose method a request calls is allocated and its client's own;
\* the object being released is in the list of the client that deletes it,
\* and in no list if a destructor has taken it out of one.
ServerHasObject ==
    /\ srv.at \in {"args", "data"} =>
          srv.caller[1] \in registry \cup {Global}
    /\ ~foreign =>
          /\ srv.at \in {"args", "data"} =>
                srv.caller[1] \in Refs(srv.cd) \cup {Global}
          /\ Releasing => \A c \in Clients :
                srv.object \in Refs(c) <=> ~srv.closing /\ c = srv.cd

\* The Lua registry is damaged only by a client that uses an object it does
\* not hold.
RegistryCauses == ub \in {"luaError", "badUnref"} => foreign

\* A slot in use leads to data of its own caller, and one that is being
\* released to data that is freed.
DataFollowSlots ==
    /\ \A i \in Slots : slot[i].owner /\ slot[i].data # Null =>
          data[slot[i].data].caller = slot[i].caller
    /\ srv.at = "clearOwner" => slot[srv.slot].caller[1] = srv.object
    /\ srv.at \in {"clearOwner", "clearSlot"} =>
          slot[srv.slot].data # Null /\ data[slot[srv.slot].data].freed

RefInv == /\ ServerIsOrderly /\ ServerHasObject /\ RegistryCauses
          /\ DataFollowSlots
          /\ ReferencesHaveOneHolder /\ SlotsFollowTheirObject

LEMMA IdleServer ==
    /\ SrvIdle.at = "idle" /\ SrvIdle.object = Global /\ ~SrvIdle.closing
    /\ SrvIdle.functions = {}
  BY DEF SrvIdle

\* What a slot leads to is data that exists.
LEMMA SlotData ==
    ASSUME TableInv, NEW i \in Slots, slot[i].data # Null
    PROVE  /\ slot[i].data \in DOMAIN data
           /\ data[slot[i].data] \in FunctionData
<1>1. slot[i].data \in Data /\ slot[i].data =< Len(data)
  BY DEF TableInv, TypeOK, JumpTableItem, SlotsHold
<1>2. slot[i].data \in DOMAIN data
  BY <1>1, DataType DEF TableInv, Data
<1> QED
  BY <1>2, DataType DEF TableInv

\* One reference of one list changes.
LEMMA RefsChange ==
    ASSUME NEW c \in Clients, NEW o \in Objects, NEW n \in Nat,
           \A d \in Clients, p \in Objects : objRefs'[d][p] =
                 IF d = c /\ p = o THEN n ELSE objRefs[d][p]
    PROVE  \A d \in Clients : \A p : p \in Refs(d)'
              <=> IF d = c /\ p = o THEN n > 0 ELSE p \in Refs(d)
  BY DEF Refs

\* Outside the requests that end or begin a reference, the lists are as they
\* were.
LEMMA ReferencesFrame ==
    ASSUME ReferencesHaveOneHolder,
           UNCHANGED <<client, registry, objRefs, lost, foreign>>,
           srv'.object = srv.object, srv'.closing = srv.closing,
           srv'.cd = srv.cd
    PROVE  ReferencesHaveOneHolder'
  BY DEF ReferencesHaveOneHolder, Refs, Open, BeingReleased

LEMMA DataFollowFrame ==
    ASSUME DataFollowSlots, UNCHANGED <<slot, data>>,
           srv' = srv \/ srv'.at \notin {"clearOwner", "clearSlot"}
    PROVE  DataFollowSlots'
  BY DEF DataFollowSlots

LEMMA ConnectRefs ==
    ASSUME TableInv, RefInv, NEW c \in Clients, Connect(c)
    PROVE  RefInv'
<1>1. /\ UNCHANGED <<slot, data, registry, objRefs, srv, foreign, lost, ub>>
      /\ srv.at = "idle" /\ srv = SrvIdle /\ client[c] = 0
      /\ client' = [client EXCEPT ![c] = opened + 1]
      /\ client \in [Clients -> 0..MaxConnections] /\ opened + 1 # 0
  BY DEF Connect, RefInv, ServerIsOrderly, Open, history, TableInv, TypeOK
<1>2. ServerIsOrderly' /\ ServerHasObject' /\ RegistryCauses'
  BY <1>1, IdleServer DEF RefInv, ServerIsOrderly, ServerHasObject,
     RegistryCauses, Releasing, Refs, Open
<1>3. DataFollowSlots'
  BY <1>1, DataFollowFrame DEF RefInv
<1>4. ReferencesHaveOneHolder'
  BY <1>1 DEF RefInv, ReferencesHaveOneHolder, Refs, Open, BeingReleased
<1>5. SlotsFollowTheirObject'
  <2>1. ASSUME NEW i \in Slots, slot[i].data # Null,
               client[data[slot[i].data].cd] = data[slot[i].data].conn
        PROVE  client'[data[slot[i].data].cd] = data[slot[i].data].conn
    <3>1. data[slot[i].data].cd \in Clients /\ data[slot[i].data].conn # 0
      BY <2>1, SlotData, BoundAssumption DEF FunctionData
    <3> QED
      BY <1>1, <2>1, <3>1
  <2> QED
    BY <1>1, <2>1, IdleServer
       DEF RefInv, SlotsFollowTheirObject, BeingReleased, Refs
<1> QED
  BY <1>2, <1>3, <1>4, <1>5 DEF RefInv

LEMMA CloseRefs ==
    ASSUME TableInv, RefInv, NEW c \in Clients, Close(c)
    PROVE  RefInv'
<1>1. /\ UNCHANGED <<slot, data, registry, objRefs, foreign, lost, ub>>
      /\ srv.at = "idle" /\ srv = SrvIdle
      /\ client' = [client EXCEPT ![c] = 0]
      /\ client \in [Clients -> 0..MaxConnections]
      /\ srv' = [SrvIdle EXCEPT !.at = "takeLast", !.cd = c, !.closing = TRUE]
  BY DEF Close, RefInv, ServerIsOrderly, history, TableInv, TypeOK
<1>2. srv'.at = "takeLast" /\ srv'.cd = c /\ srv'.closing
      /\ srv'.object = Global
  BY <1>1 DEF SrvIdle
<1>3. ServerIsOrderly' /\ ServerHasObject' /\ RegistryCauses'
  BY <1>1, <1>2 DEF RefInv, ServerIsOrderly, ServerHasObject,
     RegistryCauses, Releasing, Open
<1>4. DataFollowSlots'
  BY <1>1, <1>2, DataFollowFrame DEF RefInv
<1>5. ReferencesHaveOneHolder'
  BY <1>1, <1>2, IdleServer
     DEF RefInv, ReferencesHaveOneHolder, Refs, Open, BeingReleased
<1>6. SlotsFollowTheirObject'
  <2>1. ASSUME NEW i \in Slots, slot[i].data # Null,
               client[data[slot[i].data].cd] = data[slot[i].data].conn
        PROVE  \/ client'[data[slot[i].data].cd] = data[slot[i].data].conn
               \/ data[slot[i].data].cd = c
    <3>1. data[slot[i].data].cd \in Clients
      BY <2>1, SlotData DEF FunctionData
    <3> QED
      BY <1>1, <2>1, <3>1
  <2> QED
    BY <1>1, <1>2, <2>1, IdleServer
       DEF RefInv, SlotsFollowTheirObject, BeingReleased, Refs
<1> QED
  BY <1>3, <1>4, <1>5, <1>6 DEF RefInv

\* The request register does not touch the slots that serve clients.
LEMMA RegisterSlots ==
    ASSUME TableInv, NEW c \in Clients, NEW name \in Names, Register(c, name)
    PROVE  \A j \in Slots : /\ slot'[j].owner = slot[j].owner
                            /\ slot'[j].data = slot[j].data
                            /\ slot'[j].caller = slot[j].caller
<1> DEFINE i == SlotForName(name)
<1>1. i = NoSlot \/ (i \in Slots /\ ~slot[i].owner)
  BY SlotForNameCases
<1>2. slot \in [Slots -> JumpTableItem]
  BY DEF TableInv, TypeOK
<1>3. CASE i = NoSlot
  BY <1>3 DEF Register, RegisterCallback
<1>4. CASE i # NoSlot
  <2>1. slot' = [slot EXCEPT ![i].owner = FALSE, ![i].name = name]
    BY <1>4 DEF Register, RegisterCallback
  <2> HIDE DEF i
  <2> QED
    BY <1>1, <1>2, <1>4, <2>1 DEF JumpTableItem
<1> QED
  BY <1>3, <1>4

LEMMA RegisterRefs ==
    ASSUME TableInv, RefInv, NEW c \in Clients, NEW name \in Names,
           Register(c, name)
    PROVE  RefInv'
<1>1. /\ UNCHANGED <<client, data, registry, objRefs, srv, foreign, lost, ub>>
      /\ srv.at = "idle"
  BY DEF Register, history
<1>2. ServerIsOrderly' /\ ServerHasObject' /\ RegistryCauses'
  BY <1>1 DEF RefInv, ServerIsOrderly, ServerHasObject, RegistryCauses,
     Releasing, Refs, Open
<1>3. DataFollowSlots'
  BY <1>1, RegisterSlots DEF RefInv, DataFollowSlots
<1>4. ReferencesHaveOneHolder'
  BY <1>1, ReferencesFrame DEF RefInv
<1>5. SlotsFollowTheirObject'
  BY <1>1, RegisterSlots
     DEF RefInv, SlotsFollowTheirObject, BeingReleased, Refs
<1> QED
  BY <1>2, <1>3, <1>4, <1>5 DEF RefInv

LEMMA InvokeRefs ==
    ASSUME TableInv, RefInv, NEW c \in Clients, NEW caller \in Callers,
           NEW n \in 0..MaxCallables, Invoke(c, caller, n)
    PROVE  RefInv'
<1>1. /\ UNCHANGED <<client, slot, data, registry, objRefs, lost>>
      /\ srv.at = "idle" /\ srv = SrvIdle /\ Open(c)
      /\ foreign => foreign'
      /\ foreign' \/ caller[1] = Global \/ caller[1] \in Refs(c)
  BY DEF Invoke, RefInv, ServerIsOrderly, UseObject
<1>2. CASE /\ caller[1] = Global \/ caller[1] \in registry
           /\ srv' = [SrvIdle EXCEPT !.at = "args", !.cd = c,
                                     !.caller = caller, !.left = n]
           /\ UNCHANGED ub
  <2>1. /\ srv'.at = "args" /\ srv'.cd = c /\ srv'.caller = caller
        /\ srv'.object = Global /\ ~srv'.closing
    BY <1>2 DEF SrvIdle
  <2>2. ServerIsOrderly' /\ ServerHasObject' /\ RegistryCauses'
    BY <1>1, <1>2, <2>1 DEF RefInv, ServerIsOrderly, ServerHasObject,
       RegistryCauses, Releasing, Refs
  <2>3. DataFollowSlots'
    BY <1>1, <2>1, DataFollowFrame DEF RefInv
  <2>4. ReferencesHaveOneHolder'
    BY <1>1, <2>1, IdleServer
       DEF RefInv, ReferencesHaveOneHolder, Refs, Open, BeingReleased
  <2>5. SlotsFollowTheirObject'
    BY <1>1, <2>1, IdleServer
       DEF RefInv, SlotsFollowTheirObject, BeingReleased, Refs
  <2> QED
    BY <2>2, <2>3, <2>4, <2>5 DEF RefInv
<1>3. CASE caller[1] # Global /\ caller[1] \notin registry
           /\ ub' = "luaError" /\ UNCHANGED srv
  <2>1. foreign'
    BY <1>1, <1>3 DEF RefInv, ReferencesHaveOneHolder
  <2>2. ServerIsOrderly' /\ ServerHasObject' /\ RegistryCauses'
    BY <1>1, <1>3, <2>1 DEF RefInv, ServerIsOrderly, ServerHasObject,
       RegistryCauses, Releasing, Open
  <2>3. DataFollowSlots'
    BY <1>1, <1>3, DataFollowFrame DEF RefInv
  <2>4. ReferencesHaveOneHolder' /\ SlotsFollowTheirObject'
    BY <1>1, <2>1 DEF RefInv, ReferencesHaveOneHolder, SlotsFollowTheirObject
  <2> QED
    BY <2>2, <2>3, <2>4 DEF RefInv
<1> QED
  BY <1>2, <1>3 DEF Invoke

\* What the first half of registerFastCallback writes.
LEMMA PushCallableWrites ==
    ASSUME TableInv, PushCallable
    PROVE  /\ srv.at = "args" /\ srv.cd \in Clients /\ Open(srv.cd)
           /\ srv.caller \in Callers
           /\ UNCHANGED <<client, registry, objRefs, held, call, foreign,
                          lost, dropped, ub>>
           /\ Len(data) \in Nat /\ Len(data') = Len(data) + 1
           /\ DOMAIN data = 1..Len(data) /\ DOMAIN data' = 1..Len(data')
           /\ \A r \in DOMAIN data : data'[r] = data[r]
           /\ data'[Len(data')] = [cd |-> srv.cd, conn |-> client[srv.cd],
                                   caller |-> srv.caller, freed |-> FALSE]
           /\ srv'.at \in {"args", "data"}
           /\ srv'.cd = srv.cd /\ srv'.caller = srv.caller
           /\ srv'.object = srv.object /\ srv'.closing = srv.closing
           /\ srv'.functions = srv.functions
           /\ \A j \in Slots :
                 /\ slot[j].owner \/ slot[j].data = Null
                 /\ slot'[j].data = slot[j].data
                 /\ slot[j].owner => slot'[j].owner
                                     /\ slot'[j].caller = slot[j].caller
                 /\ slot'[j].owner => slot[j].owner
                                      \/ slot'[j].caller = srv.caller
<1> DEFINE i == SlotForCaller(srv.caller)
           d == [cd |-> srv.cd, conn |-> client[srv.cd],
                 caller |-> srv.caller, freed |-> FALSE]
<1>1. /\ TypeOK /\ srv.at = "args"
      /\ srv.cd \in Clients /\ Open(srv.cd) /\ srv.caller \in Callers
      /\ data' = Append(data, d)
      /\ UNCHANGED <<client, registry, objRefs, held, call, foreign,
                     lost, dropped, ub>>
  BY DEF TableInv, PushCallable, ServerHolds, history
<1>2. d \in FunctionData
  <2>1. client[srv.cd] \in 1..MaxConnections
    BY <1>1, BoundAssumption DEF TypeOK, Open
  <2> QED
    BY <1>1, <2>1 DEF FunctionData
<1>3. /\ Len(data') = Len(data) + 1 /\ Len(data) \in Nat
      /\ DOMAIN data = 1..Len(data) /\ DOMAIN data' = 1..Len(data')
      /\ \A r \in DOMAIN data : data'[r] = data[r]
      /\ data'[Len(data')] = d
  <2> HIDE DEF d
  <2>1. data' \in Seq(FunctionData)
    BY <1>1, <1>2, AppendProperties DEF TypeOK
  <2> QED
    BY <1>1, <1>2, <2>1, DataType, AppendProperties, LenProperties DEF TypeOK
<1>4. \A j \in Slots : slot[j].owner \/ slot[j].data = Null
  BY <1>1 DEF TableInv, SlotsHold
<1>5. CASE i = NoSlot
  <2>1. srv' = [srv EXCEPT !.left = @ - 1] /\ slot' = slot
    BY <1>5 DEF PushCallable
  <2>2. /\ srv'.at = srv.at
        /\ srv'.cd = srv.cd /\ srv'.caller = srv.caller
        /\ srv'.object = srv.object /\ srv'.closing = srv.closing
        /\ srv'.functions = srv.functions
    BY <1>1, <2>1 DEF TypeOK, ServerRecord
  <2> QED
    BY <1>1, <1>3, <1>4, <2>1, <2>2
<1>6. CASE i # NoSlot
  <2>1. /\ slot' = [slot EXCEPT ![i].owner = TRUE, ![i].caller = srv.caller]
        /\ srv' = [srv EXCEPT !.at = "data", !.slot = i]
    BY <1>6 DEF PushCallable
  <2>2. /\ i \in Slots
        /\ ~slot[i].owner \/ slot[i].caller = srv.caller
    BY <1>6, SlotForCallerCases
  <2> HIDE DEF i
  <2>3. /\ srv'.at = "data"
        /\ srv'.cd = srv.cd /\ srv'.caller = srv.caller
        /\ srv'.object = srv.object /\ srv'.closing = srv.closing
        /\ srv'.functions = srv.functions
    BY <1>1, <2>1 DEF TypeOK, ServerRecord
  <2>4. /\ slot'[i].owner /\ slot'[i].caller = srv.caller
        /\ slot'[i].data = slot[i].data
        /\ \A j \in Slots : j # i => slot'[j] = slot[j]
    BY <1>1, <2>1, <2>2 DEF TypeOK, JumpTableItem
  <2>5. \A j \in Slots :
           /\ slot'[j].data = slot[j].data
           /\ slot[j].owner => slot'[j].owner /\ slot'[j].caller = slot[j].caller
           /\ slot'[j].owner => slot[j].owner \/ slot'[j].caller = srv.caller
    BY <2>2, <2>4
  <2> QED
    BY <1>1, <1>3, <1>4, <2>3, <2>5
<1> QED
  BY <1>5, <1>6

\* What the second half writes.
LEMMA SetCustomDataWrites ==
    ASSUME TableInv, SetCustomData
    PROVE  /\ srv.at = "data" /\ srv.slot \in Slots /\ srv.cd \in Clients
           /\ Open(srv.cd) /\ slot[srv.slot].owner
           /\ slot[srv.slot].caller = srv.caller
           /\ Len(data) \in DOMAIN data /\ ~data[Len(data)].freed
           /\ data[Len(data)].caller = srv.caller
           /\ data[Len(data)].cd = srv.cd
           /\ data[Len(data)].conn = client[srv.cd]
           /\ UNCHANGED <<client, data, registry, objRefs, held, call,
                          foreign, lost, dropped, ub>>
           /\ srv'.at = "args" /\ srv'.cd = srv.cd /\ srv'.caller = srv.caller
           /\ srv'.object = srv.object /\ srv'.closing = srv.closing
           /\ srv'.functions = srv.functions
                 \cup {[slot |-> srv.slot, given |-> Len(data)]}
           /\ \A j \in Slots :
                 /\ slot'[j].owner = slot[j].owner
                 /\ slot'[j].caller = slot[j].caller
                 /\ slot'[j].data = IF j = srv.slot THEN Len(data)
                                    ELSE slot[j].data
<1>1. /\ TypeOK /\ srv.at = "data" /\ srv.slot \in Slots
      /\ srv.cd \in Clients /\ Open(srv.cd) /\ slot[srv.slot].owner
      /\ slot[srv.slot].caller = srv.caller
      /\ Len(data) > 0 /\ ~data[Len(data)].freed
      /\ data[Len(data)].caller = srv.caller
      /\ data[Len(data)].cd = srv.cd
      /\ data[Len(data)].conn = client[srv.cd]
      /\ slot' = [slot EXCEPT ![srv.slot].data = Len(data)]
      /\ srv' = [srv EXCEPT !.at = "args", !.left = @ - 1, !.slot = NoSlot,
                   !.functions = @ \cup {[slot |-> srv.slot,
                                          given |-> Len(data)]}]
      /\ UNCHANGED <<client, data, registry, objRefs, held, call,
                     foreign, lost, dropped, ub>>
  BY DEF TableInv, SetCustomData, ServerHolds, history
<1>2. Len(data) \in DOMAIN data
  BY <1>1, DataType
<1>3. /\ srv'.at = "args" /\ srv'.cd = srv.cd /\ srv'.caller = srv.caller
      /\ srv'.object = srv.object /\ srv'.closing = srv.closing
      /\ srv'.functions = srv.functions
            \cup {[slot |-> srv.slot, given |-> Len(data)]}
  BY <1>1 DEF TypeOK, ServerRecord
<1>4. \A j \in Slots :
         /\ slot'[j].owner = slot[j].owner
         /\ slot'[j].caller = slot[j].caller
         /\ slot'[j].data = IF j = srv.slot THEN Len(data) ELSE slot[j].data
  BY <1>1 DEF TypeOK, JumpTableItem
<1> QED
  BY <1>1, <1>2, <1>3, <1>4

LEMMA PushCallableRefs ==
    ASSUME TableInv, RefInv, PushCallable
    PROVE  RefInv'
<1>0. /\ UNCHANGED <<client, registry, objRefs, foreign, lost, ub>>
      /\ srv'.cd = srv.cd /\ srv'.object = srv.object
      /\ srv'.closing = srv.closing /\ srv'.caller = srv.caller
  BY PushCallableWrites
<1>1. ServerIsOrderly' /\ ServerHasObject' /\ RegistryCauses'
  BY <1>0, PushCallableWrites DEF RefInv, ServerIsOrderly, ServerHasObject, RegistryCauses, Releasing,
     Refs, Open
<1>2. \A j \in Slots : slot'[j].owner /\ slot'[j].data # Null =>
         /\ slot[j].owner /\ slot[j].data # Null
         /\ slot'[j].caller = slot[j].caller
         /\ data'[slot'[j].data] = data[slot[j].data]
  BY SlotData, PushCallableWrites
<1>3. DataFollowSlots'
  BY <1>2, PushCallableWrites DEF RefInv, DataFollowSlots
<1>4. ReferencesHaveOneHolder'
  BY <1>0, ReferencesFrame DEF RefInv
<1>5. SlotsFollowTheirObject'
  <2>1. SUFFICES ASSUME NEW i \in Slots, slot'[i].owner,
                        slot'[i].caller[1] # Global
                 PROVE  LET o == slot'[i].caller[1]
                            d == data'[slot'[i].data]
                        IN /\ o \in registry
                           /\ foreign \/ slot'[i].data = Null
                              \/ /\ o \in Refs(d.cd) \cup BeingReleased
                                 /\ client[d.cd] = d.conn
                                    \/ (srv.closing /\ srv.cd = d.cd)
    BY <1>0 DEF SlotsFollowTheirObject, Refs, BeingReleased
  <2>2. CASE slot[i].owner
    BY <1>2, <2>1, <2>2, PushCallableWrites DEF RefInv, SlotsFollowTheirObject
  <2>3. CASE ~slot[i].owner
    BY <2>1, <2>3, PushCallableWrites DEF RefInv, ServerHasObject
  <2> QED
    BY <2>2, <2>3
<1> QED
  BY <1>1, <1>3, <1>4, <1>5 DEF RefInv

LEMMA SetCustomDataRefs ==
    ASSUME TableInv, RefInv, SetCustomData
    PROVE  RefInv'
<1>0. /\ UNCHANGED <<client, registry, objRefs, foreign, lost, ub>>
      /\ srv'.cd = srv.cd /\ srv'.object = srv.object
      /\ srv'.closing = srv.closing /\ srv'.caller = srv.caller
  BY SetCustomDataWrites
<1>1. ServerIsOrderly' /\ ServerHasObject' /\ RegistryCauses'
  BY <1>0, SetCustomDataWrites DEF RefInv, ServerIsOrderly, ServerHasObject, RegistryCauses, Releasing,
     Refs, Open
<1>2. DataFollowSlots'
  BY SetCustomDataWrites DEF RefInv, DataFollowSlots
<1>3. ReferencesHaveOneHolder'
  BY <1>0, ReferencesFrame DEF RefInv
<1>4. SlotsFollowTheirObject'
  <2>2. SUFFICES ASSUME NEW i \in Slots, slot'[i].owner,
                        slot'[i].caller[1] # Global
                 PROVE  LET o == slot'[i].caller[1]
                            d == data'[slot'[i].data]
                        IN /\ o \in registry
                           /\ foreign \/ slot'[i].data = Null
                              \/ /\ o \in Refs(d.cd) \cup BeingReleased
                                 /\ client[d.cd] = d.conn
                                    \/ (srv.closing /\ srv.cd = d.cd)
    BY <1>0 DEF SlotsFollowTheirObject, Refs, BeingReleased
  <2>3. CASE i = srv.slot
    BY <2>2, <2>3, SetCustomDataWrites DEF RefInv, ServerHasObject
  <2>4. CASE i # srv.slot
    BY <2>2, <2>4, SetCustomDataWrites DEF RefInv, SlotsFollowTheirObject
  <2> QED
    BY <2>3, <2>4
<1> QED
  BY <1>1, <1>2, <1>3, <1>4 DEF RefInv

\* Elsewhere the references only gain holders.
LEMMA SlotsFollowFrame ==
    ASSUME TableInv, SlotsFollowTheirObject, UNCHANGED <<client, slot, data>>,
           registry \subseteq registry', foreign => foreign',
           \A c \in Clients : Refs(c) \cup BeingReleased
                                 \subseteq Refs(c)' \cup BeingReleased',
           srv.closing => srv'.closing /\ srv'.cd = srv.cd
    PROVE  SlotsFollowTheirObject'
<1> SUFFICES ASSUME NEW i \in Slots, slot[i].owner,
                    slot[i].caller[1] # Global
             PROVE  LET o == slot[i].caller[1]
                        d == data[slot[i].data]
                    IN /\ o \in registry'
                       /\ foreign' \/ slot[i].data = Null
                          \/ /\ o \in (Refs(d.cd) \cup BeingReleased)'
                             /\ client[d.cd] = d.conn
                                \/ (srv'.closing /\ srv'.cd = d.cd)
  BY DEF SlotsFollowTheirObject
<1>1. slot[i].data # Null => data[slot[i].data].cd \in Clients
  BY SlotData DEF FunctionData
<1>2. data' = data /\ slot' = slot
  OBVIOUS
<1>3. \A c \in Clients : Refs(c)' = {o \in Objects : objRefs'[c][o] > 0}
  BY DEF Refs
<1>4. Refs(data[slot[i].data].cd)'
         = {o \in Objects : objRefs'[data[slot[i].data].cd][o] > 0}
  BY <1>2 DEF Refs
<1> QED
  BY <1>1, <1>3, <1>4 DEF SlotsFollowTheirObject

LEMMA FinishInvokeRefs ==
    ASSUME TableInv, RefInv, FinishInvoke
    PROVE  RefInv'
<1>1. /\ UNCHANGED <<client, slot, data, foreign, ub>>
      /\ srv.at = "args" /\ srv' = SrvIdle /\ srv.cd \in Clients
      /\ Open(srv.cd) /\ srv.object = Global /\ ~srv.closing
  BY DEF FinishInvoke, RefInv, ServerIsOrderly, Releasing, TableInv,
     ServerHolds
<1>2. srv'.object = Global /\ ~srv'.closing /\ srv'.at = "idle"
  BY <1>1, IdleServer
<1>3. ServerIsOrderly' /\ ServerHasObject' /\ RegistryCauses'
  BY <1>1, <1>2 DEF RefInv, ServerIsOrderly, ServerHasObject, RegistryCauses,
     Releasing
<1>4. DataFollowSlots'
  BY <1>1, <1>2, DataFollowFrame DEF RefInv
<1>5. BeingReleased = {} /\ BeingReleased' = {}
  BY <1>1, <1>2 DEF BeingReleased
<1>6. CASE UNCHANGED <<registry, objRefs, lost>>
  <2>1. \A c \in Clients : Refs(c)' = Refs(c)
    BY <1>6 DEF Refs
  <2>2. ReferencesHaveOneHolder'
    BY <1>1, <1>2, <1>6, ReferencesFrame
       DEF RefInv, ReferencesHaveOneHolder, Refs, BeingReleased, Open
  <2>3. SlotsFollowTheirObject'
    BY <1>1, <1>5, <1>6, <2>1, SlotsFollowFrame DEF RefInv
  <2> QED
    BY <1>3, <1>4, <2>2, <2>3 DEF RefInv
<1>7. ASSUME NEW o \in Objects, o \notin registry,
             registry' = registry \cup {o},
             objRefs' = [objRefs EXCEPT ![srv.cd] = AppendRef(@, o)],
             lost' = lost \ {o}
      PROVE  RefInv'
  <2> PICK c \in Clients : c = srv.cd
    BY <1>1
  <2>1. objRefs[c][o] \in Nat /\ objRefs[c][o] + 1 \in Nat /\ TypeOK
    BY BoundAssumption DEF TableInv, TypeOK
  <2> PICK n \in Nat : n = objRefs[c][o] + 1
    BY <2>1
  <2>2. objRefs' = [objRefs EXCEPT ![c] = [objRefs[c] EXCEPT ![o] = n]]
        /\ n > 0
    BY <1>7, <2>1 DEF AppendRef
  <2>3. /\ \A d \in Clients, p \in Objects : objRefs'[d][p] =
              IF d = c /\ p = o THEN n ELSE objRefs[d][p]
        /\ \A d \in Clients : d # c => Refs(d)' = Refs(d)
        /\ Refs(c)' = Refs(c) \cup {o}
    <3>1. objRefs \in [Clients -> [Objects -> 0..MaxRefs]]
      BY <2>1 DEF TypeOK
    <3>2. \A d \in Clients, p \in Objects : objRefs'[d][p] =
             IF d = c /\ p = o THEN n ELSE objRefs[d][p]
      BY <2>2, <3>1
    <3>3. \A d \in Clients : \A p : p \in Refs(d)'
             <=> IF d = c /\ p = o THEN n > 0 ELSE p \in Refs(d)
      BY <3>2, RefsChange
    <3> QED
      BY <2>2, <3>2, <3>3
  <2>4. ReferencesHaveOneHolder'
    <3> SUFFICES ASSUME ~foreign
                 PROVE  /\ \A d \in Clients, p \in Objects :
                              objRefs'[d][p] <= 1
                        /\ \A d, e \in Clients : d # e =>
                              Refs(d)' \cap Refs(e)' = {}
                        /\ registry' = lost' \cup BeingReleased'
                              \cup UNION {Refs(d)' : d \in Clients}
                        /\ \A d \in Clients : Refs(d)' # {} => Open(d)
      BY <1>1 DEF ReferencesHaveOneHolder, Open, Refs
    <3>1. /\ \A d \in Clients, p \in Objects : objRefs[d][p] <= 1
          /\ \A d, e \in Clients : d # e => Refs(d) \cap Refs(e) = {}
          /\ registry = lost \cup UNION {Refs(d) : d \in Clients}
          /\ \A d \in Clients : Refs(d) # {} => Open(d)
      BY <1>1, <1>5 DEF RefInv, ReferencesHaveOneHolder
    <3>2. \A d \in Clients : o \notin Refs(d)
      BY <1>7, <3>1
    <3>3. n = 1
      BY <2>1, <3>2 DEF Refs
    <3>4. \A p : p \in UNION {Refs(d)' : d \in Clients}
             <=> p \in UNION {Refs(d) : d \in Clients} \/ p = o
      BY <2>3
    <3>5. registry' = lost' \cup BeingReleased'
                      \cup UNION {Refs(d)' : d \in Clients}
      BY <1>5, <1>7, <3>1, <3>4
    <3> QED
      BY <1>1, <2>3, <3>1, <3>2, <3>3, <3>5
  <2>5. SlotsFollowTheirObject'
    <3>1. \A d \in Clients : Refs(d) \subseteq Refs(d)'
      BY <2>3
    <3> QED
      BY <1>1, <1>5, <1>7, <3>1, SlotsFollowFrame DEF RefInv
  <2> QED
    BY <1>3, <1>4, <2>4, <2>5 DEF RefInv
<1>8. ASSUME NEW o \in Objects, o \notin registry,
             registry' = registry \cup {o}, lost' = lost \cup {o},
             UNCHANGED objRefs
      PROVE  RefInv'
  <2>1. \A c \in Clients : Refs(c)' = Refs(c)
    BY <1>8 DEF Refs
  <2>2. ReferencesHaveOneHolder'
    BY <1>1, <1>2, <1>5, <1>8
       DEF RefInv, ReferencesHaveOneHolder, Refs, Open
  <2>3. SlotsFollowTheirObject'
    BY <1>1, <1>5, <1>8, <2>1, SlotsFollowFrame DEF RefInv
  <2> QED
    BY <1>3, <1>4, <2>2, <2>3 DEF RefInv
<1> QED
  BY <1>6, <1>7, <1>8 DEF FinishInvoke

LEMMA BeginReleaseWrites ==
    ASSUME NEW c \in Clients, NEW o \in Objects, NEW b \in BOOLEAN,
           BeginRelease(c, o, b)
    PROVE  /\ srv'.at = "release" /\ srv'.cd = c /\ srv'.object = o
           /\ srv'.closing = b /\ srv'.functions = {}
           /\ BeingReleased' = {o} /\ Releasing'
           /\ dropped' = dropped
                 \cup {r \in DOMAIN data : data[r].caller[1] = o}
<1>1. o # Global
  BY ObjectAssumption DEF Global
<1>2. /\ srv'.at = "release" /\ srv'.cd = c /\ srv'.object = o
      /\ srv'.closing = b /\ srv'.functions = {}
  BY DEF BeginRelease, SrvIdle
<1> QED
  BY <1>1, <1>2 DEF BeginRelease, BeingReleased, Releasing

LEMMA DeleteRefs ==
    ASSUME TableInv, RefInv, NEW c \in Clients, NEW o \in Objects,
           Delete(c, o)
    PROVE  RefInv'
<1>1. /\ UNCHANGED <<client, slot, data, registry, objRefs, lost, ub>>
      /\ srv = SrvIdle /\ Open(c)
      /\ foreign => foreign'
      /\ foreign' \/ o \in Refs(c)
      /\ o # Global
  BY ObjectAssumption
     DEF Delete, RefInv, ServerIsOrderly, UseObject, Global
<1>2. /\ srv'.at = "release" /\ srv'.cd = c /\ srv'.object = o
      /\ ~srv'.closing /\ BeingReleased' = {o} /\ Releasing'
  BY BeginReleaseWrites DEF Delete
<1>3. \A d \in Clients : Refs(d)' = Refs(d)
  BY <1>1 DEF Refs
<1>4. ServerIsOrderly' /\ RegistryCauses'
  BY <1>1, <1>2 DEF RefInv, ServerIsOrderly, RegistryCauses
<1>5. ServerHasObject'
  <2>1. ~foreign' => \A d \in Clients : o \in Refs(d) <=> d = c
    BY <1>1 DEF RefInv, ReferencesHaveOneHolder
  <2> QED
    BY <1>1, <1>2, <1>3, <2>1 DEF ServerHasObject
<1>6. DataFollowSlots'
  BY <1>1, <1>2, DataFollowFrame DEF RefInv
<1>7. BeingReleased = {} /\ ~srv.closing
  BY <1>1, IdleServer DEF BeingReleased
<1>8. ReferencesHaveOneHolder'
  <2>1. ~foreign' => o \in UNION {Refs(d) : d \in Clients}
    BY <1>1
  <2> QED
    BY <1>1, <1>2, <1>3, <1>7, <2>1
       DEF RefInv, ReferencesHaveOneHolder, Refs, Open
<1>9. SlotsFollowTheirObject'
  BY <1>1, <1>3, <1>7, SlotsFollowFrame DEF RefInv
<1> QED
  BY <1>4, <1>5, <1>6, <1>8, <1>9 DEF RefInv

\* A destructor takes a reference out of its list, in which it was once.
LEMMA TakeLastRefs ==
    ASSUME TableInv, RefInv, TakeLast
    PROVE  RefInv'
<1> PICK c \in Clients : c = srv.cd
  BY DEF TakeLast, TableInv, ServerHolds
<1>1. /\ UNCHANGED <<client, slot, data, registry, lost, foreign, ub>>
      /\ srv.at = "takeLast" /\ srv.closing /\ srv.object = Global
      /\ BeingReleased = {} /\ ~Open(c)
  BY DEF TakeLast, RefInv, ServerIsOrderly, Releasing, BeingReleased
<1>2. CASE Refs(c) = {} /\ srv' = SrvIdle /\ UNCHANGED objRefs
  <2>1. srv'.object = Global /\ ~srv'.closing /\ srv'.at = "idle"
        /\ BeingReleased' = {}
    BY <1>2, IdleServer DEF BeingReleased
  <2>2. \A d \in Clients : Refs(d)' = Refs(d)
    BY <1>2 DEF Refs
  <2>3. ServerIsOrderly' /\ ServerHasObject' /\ RegistryCauses'
    BY <1>1, <1>2, <2>1 DEF RefInv, ServerIsOrderly, ServerHasObject,
       RegistryCauses, Releasing
  <2>4. DataFollowSlots'
    BY <1>1, <2>1, DataFollowFrame DEF RefInv
  <2>5. ReferencesHaveOneHolder'
    BY <1>1, <1>2, <2>1, <2>2
       DEF RefInv, ReferencesHaveOneHolder, Refs, Open
  <2>6. SlotsFollowTheirObject'
    <3> SUFFICES ASSUME NEW i \in Slots, slot[i].owner,
                        slot[i].caller[1] # Global
                 PROVE  LET o == slot[i].caller[1]
                            d == data[slot[i].data]
                        IN /\ o \in registry
                           /\ foreign \/ slot[i].data = Null
                              \/ /\ o \in Refs(d.cd)
                                 /\ client[d.cd] = d.conn
      BY <1>1, <1>2, <2>1 DEF SlotsFollowTheirObject, Refs
    <3> QED
      BY <1>1, <1>2 DEF RefInv, SlotsFollowTheirObject
  <2> QED
    BY <2>3, <2>4, <2>5, <2>6 DEF RefInv
<1>3. ASSUME NEW o \in Objects, o \in Refs(c),
             objRefs' = [objRefs EXCEPT ![c] = TakeRef(@, o)],
             BeginRelease(c, o, TRUE)
      PROVE  RefInv'
  <2>1. /\ srv'.at = "release" /\ srv'.cd = c /\ srv'.object = o
        /\ srv'.closing /\ BeingReleased' = {o} /\ Releasing'
    BY <1>3, BeginReleaseWrites
  <2>2. objRefs \in [Clients -> [Objects -> 0..MaxRefs]]
    BY DEF TableInv, TypeOK
  <2>3. objRefs[c][o] \in Nat /\ objRefs[c][o] > 0
    BY <1>3, <2>2, BoundAssumption DEF Refs
  <2>4. objRefs[c][o] - 1 \in Nat
    BY <2>3
  <2> PICK n \in Nat : n = objRefs[c][o] - 1
    BY <2>4
  <2>5. \A d \in Clients, p \in Objects : objRefs'[d][p] =
           IF d = c /\ p = o THEN n ELSE objRefs[d][p]
    BY <1>3, <2>2 DEF TakeRef
  <2>6. \A d \in Clients : \A p : p \in Refs(d)'
           <=> IF d = c /\ p = o THEN n > 0 ELSE p \in Refs(d)
    BY <2>5, RefsChange
  <2>7. ~foreign => /\ n = 0
                    /\ \A d \in Clients : o \in Refs(d) => d = c
    <3>1. ~foreign => objRefs[c][o] <= 1
      BY DEF RefInv, ReferencesHaveOneHolder
    <3>2. ~foreign => \A d \in Clients : d # c => Refs(c) \cap Refs(d) = {}
      BY DEF RefInv, ReferencesHaveOneHolder
    <3> QED
      BY <1>3, <2>3, <3>1, <3>2
  <2>8. ServerIsOrderly' /\ RegistryCauses'
    BY <1>1, <2>1 DEF RefInv, ServerIsOrderly, RegistryCauses, Open
  <2>9. ServerHasObject'
    <3>1. ~foreign => \A d \in Clients : o \notin Refs(d)'
      BY <2>6, <2>7
    <3> QED
      BY <1>1, <2>1, <3>1 DEF ServerHasObject
  <2>10. DataFollowSlots'
    BY <1>1, <2>1, DataFollowFrame DEF RefInv
  <2>11. ReferencesHaveOneHolder'
    <3> SUFFICES ASSUME ~foreign
                 PROVE  /\ \A d \in Clients, p \in Objects :
                              objRefs'[d][p] <= 1
                        /\ \A d, e \in Clients : d # e =>
                              Refs(d)' \cap Refs(e)' = {}
                        /\ registry = lost \cup {o}
                              \cup UNION {Refs(d)' : d \in Clients}
                        /\ \A d \in Clients : Refs(d)' # {} =>
                              Open(d) \/ d = c
      BY <1>1, <2>1 DEF ReferencesHaveOneHolder, Open, Refs
    <3>1. /\ \A d \in Clients, p \in Objects : objRefs[d][p] <= 1
          /\ \A d, e \in Clients : d # e => Refs(d) \cap Refs(e) = {}
          /\ registry = lost \cup UNION {Refs(d) : d \in Clients}
          /\ \A d \in Clients : Refs(d) # {} => Open(d) \/ d = c
      BY <1>1 DEF RefInv, ReferencesHaveOneHolder
    <3>2. \A p : p \in UNION {Refs(d) : d \in Clients}
                    <=> p \in UNION {Refs(d)' : d \in Clients} \/ p = o
      BY <1>3, <2>6, <2>7
    <3>3. registry = lost \cup {o} \cup UNION {Refs(d)' : d \in Clients}
      BY <3>1, <3>2
    <3> QED
      BY <2>5, <2>6, <2>7, <3>1, <3>3
  <2>12. SlotsFollowTheirObject'
    <3>1. \A d \in Clients : Refs(d) \cup BeingReleased
                                \subseteq Refs(d)' \cup BeingReleased'
      BY <1>1, <2>1, <2>6
    <3> QED
      BY <1>1, <2>1, <3>1, SlotsFollowFrame DEF RefInv
  <2> QED
    BY <2>8, <2>9, <2>10, <2>11, <2>12 DEF RefInv
<1>4. Refs(c) \subseteq Objects
  BY DEF Refs
<1> QED
  BY <1>2, <1>3, <1>4 DEF TakeLast

\* While an object is released the server thread keeps to it.
LEMMA ReleaseStepWrites ==
    ASSUME TableInv, ReleaseData \/ ClearOwner \/ ClearSlot
    PROVE  /\ srv'.at \in {"clearOwner", "clearSlot", "release"}
           /\ srv'.cd = srv.cd /\ srv'.object = srv.object
           /\ srv'.closing = srv.closing /\ srv'.functions = srv.functions
           /\ Releasing /\ Releasing'
           /\ UNCHANGED <<client, registry, objRefs, held, call, foreign,
                          lost, dropped, ub>>
<1>1. /\ srv'.at \in {"clearOwner", "clearSlot", "release"}
      /\ srv'.cd = srv.cd /\ srv'.object = srv.object
      /\ srv'.closing = srv.closing /\ srv'.functions = srv.functions
  BY DEF ReleaseData, ClearOwner, ClearSlot, TableInv, TypeOK, ServerRecord
<1> QED
  BY <1>1 DEF ReleaseData, ClearOwner, ClearSlot, Releasing, history

LEMMA ReleaseDataWrites ==
    ASSUME TableInv, ReleaseData
    PROVE  \E i \in Slots :
              /\ slot[i].owner /\ slot[i].data \in DOMAIN data
              /\ slot[i].caller[1] = srv.object
              /\ srv'.at = "clearOwner" /\ srv'.slot = i
              /\ slot' = slot /\ DOMAIN data' = DOMAIN data
              /\ Len(data') = Len(data)
              /\ data'[slot[i].data].freed
              /\ \A r \in DOMAIN data :
                    /\ data'[r].caller = data[r].caller
                    /\ data'[r].cd = data[r].cd
                    /\ data'[r].conn = data[r].conn
                    /\ r # slot[i].data => data'[r] = data[r]
<1> PICK i \in Slots : i = Lowest(ObjectSlots(srv.object))
  BY ObjectSlotsCases DEF ReleaseData
<1>1. slot[i].owner /\ slot[i].data # Null /\ slot[i].caller[1] = srv.object
  <2>1. ObjectSlots(srv.object) # {} /\ ObjectSlots(srv.object) \subseteq Slots
    BY DEF ReleaseData, ObjectSlots
  <2>2. i \in ObjectSlots(srv.object)
    BY <2>1, LowestCases
  <2> QED
    BY <2>2 DEF ObjectSlots
<1>2. slot[i].data \in DOMAIN data /\ data[slot[i].data] \in FunctionData
  BY <1>1, SlotData
<1>3. /\ data' = [data EXCEPT ![slot[i].data].freed = TRUE]
      /\ slot' = slot /\ srv'.at = "clearOwner" /\ srv'.slot = i
  BY DEF ReleaseData, TableInv, TypeOK, ServerRecord
<1>4. /\ \A r \in DOMAIN data : data[r] \in FunctionData
      /\ DOMAIN data = 1..Len(data) /\ Len(data) \in Nat
      /\ data \in Seq(FunctionData)
  BY DataType DEF TableInv, TypeOK
<1>5. /\ DOMAIN data' = DOMAIN data
      /\ data'[slot[i].data].freed
      /\ \A r \in DOMAIN data :
            /\ data'[r].caller = data[r].caller
            /\ data'[r].cd = data[r].cd
            /\ data'[r].conn = data[r].conn
            /\ r # slot[i].data => data'[r] = data[r]
  BY <1>2, <1>3, <1>4 DEF FunctionData
<1>6. Len(data') = Len(data)
  <2> PICK r \in 1..Len(data) : r = slot[i].data
    BY <1>2, <1>4
  <2> PICK d \in FunctionData : d = [data[r] EXCEPT !.freed = TRUE]
    BY <1>2 DEF FunctionData
  <2>1. data' = [data EXCEPT ![r] = d]
    BY <1>3
  <2> QED
    BY <1>4, <2>1, ExceptSeq
<1> QED
  BY <1>1, <1>2, <1>3, <1>5, <1>6

LEMMA ClearOwnerWrites ==
    ASSUME TableInv, ClearOwner
    PROVE  /\ srv.at = "clearOwner" /\ srv.slot \in Slots
           /\ srv'.at = "clearSlot" /\ srv'.slot = srv.slot /\ data' = data
           /\ \A j \in Slots : /\ slot'[j].data = slot[j].data
                               /\ slot'[j].caller = slot[j].caller
                               /\ slot'[j].owner <=> slot[j].owner
                                                     /\ j # srv.slot
  BY DEF ClearOwner, TableInv, TypeOK, ServerHolds, ServerRecord, JumpTableItem

LEMMA ClearSlotWrites ==
    ASSUME TableInv, ClearSlot
    PROVE  /\ srv.at = "clearSlot" /\ srv.slot \in Slots
           /\ ~slot[srv.slot].owner
           /\ srv'.at = "release" /\ data' = data
           /\ ~slot'[srv.slot].owner
           /\ \A j \in Slots : j # srv.slot => slot'[j] = slot[j]
  BY DEF ClearSlot, TableInv, TypeOK, ServerHolds, ServerRecord, FreeItem

LEMMA ReleaseDataRefs ==
    ASSUME TableInv, RefInv, ReleaseData
    PROVE  RefInv'
<1>1. PICK i \in Slots :
              /\ slot[i].owner /\ slot[i].data \in DOMAIN data
              /\ slot[i].caller[1] = srv.object
              /\ srv'.at = "clearOwner" /\ srv'.slot = i
              /\ slot' = slot
              /\ data'[slot[i].data].freed
              /\ \A r \in DOMAIN data :
                    /\ data'[r].caller = data[r].caller
                    /\ data'[r].cd = data[r].cd
                    /\ data'[r].conn = data[r].conn
  BY ReleaseDataWrites
<1>2. /\ srv'.cd = srv.cd /\ srv'.object = srv.object
      /\ srv'.closing = srv.closing /\ Releasing /\ Releasing'
      /\ UNCHANGED <<client, registry, objRefs, foreign, lost, ub>>
  BY ReleaseStepWrites
<1>3. ServerIsOrderly' /\ ServerHasObject' /\ RegistryCauses'
  BY <1>1, <1>2 DEF RefInv, ServerIsOrderly, ServerHasObject, RegistryCauses,
     Refs, Open
<1>4. slot[i].data # Null
  BY <1>1, DataType DEF TableInv, Null
<1>5. DataFollowSlots'
  <2>1. \A j \in Slots : slot[j].owner /\ slot[j].data # Null =>
           data'[slot[j].data].caller = slot[j].caller
    BY <1>1, SlotData DEF RefInv, DataFollowSlots
  <2>2. slot'[srv'.slot] = slot[i] /\ data'[slot'[srv'.slot].data].freed
    BY <1>1
  <2> QED
    BY <1>1, <1>2, <1>4, <2>1, <2>2 DEF DataFollowSlots
<1>6. ReferencesHaveOneHolder'
  BY <1>2, ReferencesFrame DEF RefInv
<1>7. SlotsFollowTheirObject'
  <2> SUFFICES ASSUME NEW j \in Slots, slot[j].owner,
                      slot[j].caller[1] # Global
               PROVE  LET o == slot[j].caller[1]
                          d == data'[slot[j].data]
                      IN /\ o \in registry
                         /\ foreign \/ slot[j].data = Null
                            \/ /\ o \in Refs(d.cd) \cup BeingReleased
                               /\ client[d.cd] = d.conn
                                  \/ (srv.closing /\ srv.cd = d.cd)
    BY <1>1, <1>2 DEF SlotsFollowTheirObject, Refs, BeingReleased
  <2> QED
    BY <1>1, SlotData DEF RefInv, SlotsFollowTheirObject
<1> QED
  BY <1>3, <1>5, <1>6, <1>7 DEF RefInv

LEMMA ClearOwnerRefs ==
    ASSUME TableInv, RefInv, ClearOwner
    PROVE  RefInv'
<1>1. /\ srv'.cd = srv.cd /\ srv'.object = srv.object
      /\ srv'.closing = srv.closing /\ Releasing /\ Releasing'
      /\ UNCHANGED <<client, registry, objRefs, foreign, lost, ub>>
  BY ReleaseStepWrites
<1>2. ServerIsOrderly' /\ ServerHasObject' /\ RegistryCauses'
  BY <1>1, ClearOwnerWrites DEF RefInv, ServerIsOrderly, ServerHasObject,
     RegistryCauses, Refs, Open
<1>3. DataFollowSlots'
  BY ClearOwnerWrites DEF RefInv, DataFollowSlots
<1>4. ReferencesHaveOneHolder'
  BY <1>1, ReferencesFrame DEF RefInv
<1>5. SlotsFollowTheirObject'
  BY <1>1, ClearOwnerWrites
     DEF RefInv, SlotsFollowTheirObject, Refs, BeingReleased
<1> QED
  BY <1>2, <1>3, <1>4, <1>5 DEF RefInv

LEMMA ClearSlotRefs ==
    ASSUME TableInv, RefInv, ClearSlot
    PROVE  RefInv'
<1>1. /\ srv'.cd = srv.cd /\ srv'.object = srv.object
      /\ srv'.closing = srv.closing /\ Releasing /\ Releasing'
      /\ UNCHANGED <<client, registry, objRefs, foreign, lost, ub>>
  BY ReleaseStepWrites
<1>2. ServerIsOrderly' /\ ServerHasObject' /\ RegistryCauses'
  BY <1>1, ClearSlotWrites DEF RefInv, ServerIsOrderly, ServerHasObject,
     RegistryCauses, Refs, Open
<1>3. \A j \in Slots : slot'[j].owner => slot'[j] = slot[j]
  BY ClearSlotWrites
<1>4. DataFollowSlots'
  BY <1>3, ClearSlotWrites DEF RefInv, DataFollowSlots
<1>5. ReferencesHaveOneHolder'
  BY <1>1, ReferencesFrame DEF RefInv
<1>6. SlotsFollowTheirObject'
  BY <1>1, <1>3, ClearSlotWrites
     DEF RefInv, SlotsFollowTheirObject, Refs, BeingReleased
<1> QED
  BY <1>2, <1>4, <1>5, <1>6 DEF RefInv

\* The end of deleteQuikObject: the object has no slot left, and no list has
\* the reference any more.
LEMMA UnrefRefs ==
    ASSUME TableInv, RefInv, Unref
    PROVE  RefInv'
<1> PICK c \in Clients, o \in Objects : c = srv.cd /\ o = srv.object
  BY DEF Unref, TableInv, ServerHolds
<1>1. /\ UNCHANGED <<client, slot, data, foreign>>
      /\ srv.at = "release" /\ Releasing /\ ObjectSlots(o) = {}
      /\ lost' = lost \ {o} /\ o # Global
      /\ BeingReleased = {o}
  BY ObjectAssumption DEF Unref, Releasing, BeingReleased, Global
<1>2. \/ /\ srv.closing /\ UNCHANGED objRefs
         /\ srv'.at = "takeLast" /\ srv'.closing /\ srv'.cd = c
         /\ srv'.object = Global
      \/ /\ ~srv.closing /\ srv' = SrvIdle
         /\ srv'.at = "idle" /\ ~srv'.closing /\ srv'.object = Global
         /\ objRefs' = [objRefs EXCEPT ![c] = RemoveAll(@, o)]
  BY IdleServer DEF Unref, TableInv, TypeOK, ServerRecord
<1>3. \A d \in Clients : \A p : p \in Refs(d)' <=>
         p \in Refs(d) /\ (srv.closing \/ d # c \/ p # o)
  <2>1. CASE srv.closing
    BY <1>2, <2>1 DEF Refs
  <2>2. CASE ~srv.closing
    <3>1. objRefs \in [Clients -> [Objects -> 0..MaxRefs]]
      BY DEF TableInv, TypeOK
    <3>2. \A d \in Clients, p \in Objects : objRefs'[d][p] =
             IF d = c /\ p = o THEN 0 ELSE objRefs[d][p]
      BY <1>2, <2>2, <3>1 DEF RemoveAll
    <3> QED
      BY <2>2, <3>2, RefsChange
  <2> QED
    BY <2>1, <2>2
<1>4. ~foreign => \A d \in Clients : o \in Refs(d) <=> ~srv.closing /\ d = c
  BY <1>1 DEF RefInv, ServerHasObject
<1>5. ~foreign => /\ o \in registry
                  /\ registry' = registry \ {o} /\ UNCHANGED ub
  <2>1. ~foreign => o \in registry
    BY <1>1 DEF RefInv, ReferencesHaveOneHolder
  <2> QED
    BY <2>1 DEF Unref
<1>6. registry \ {o} \subseteq registry'
  BY DEF Unref
<1>7. ServerIsOrderly' /\ ServerHasObject'
  BY <1>1, <1>2 DEF RefInv, ServerIsOrderly, ServerHasObject, Releasing, Open
<1>8. RegistryCauses'
  BY <1>1, <1>5 DEF RefInv, RegistryCauses
<1>9. DataFollowSlots'
  BY <1>1, <1>2, DataFollowFrame DEF RefInv
<1>10. ReferencesHaveOneHolder'
  <2> SUFFICES ASSUME ~foreign
               PROVE  /\ \A d \in Clients, p \in Objects :
                            objRefs'[d][p] <= 1
                      /\ \A d, e \in Clients : d # e =>
                            Refs(d)' \cap Refs(e)' = {}
                      /\ registry' = lost' \cup BeingReleased'
                            \cup UNION {Refs(d)' : d \in Clients}
                      /\ \A d \in Clients : Refs(d)' # {} =>
                            Open(d)' \/ (srv'.closing /\ srv'.cd = d)
    BY <1>1 DEF ReferencesHaveOneHolder
  <2>1. /\ \A d \in Clients, p \in Objects : objRefs[d][p] <= 1
        /\ \A d, e \in Clients : d # e => Refs(d) \cap Refs(e) = {}
        /\ registry = lost \cup {o} \cup UNION {Refs(d) : d \in Clients}
        /\ \A d \in Clients : Refs(d) # {} =>
              Open(d) \/ (srv.closing /\ d = c)
    BY <1>1 DEF RefInv, ReferencesHaveOneHolder
  <2>2. \A d \in Clients, p \in Objects : objRefs'[d][p] <= 1
    <3>1. objRefs \in [Clients -> [Objects -> 0..MaxRefs]]
      BY DEF TableInv, TypeOK
    <3>2. \A d \in Clients, p \in Objects :
             objRefs'[d][p] = objRefs[d][p] \/ objRefs'[d][p] = 0
      BY <1>2, <3>1 DEF RemoveAll
    <3> QED
      BY <2>1, <3>2
  <2>3. BeingReleased' = {}
    BY <1>2 DEF BeingReleased
  <2>4. \A p : p \in UNION {Refs(d)' : d \in Clients}
                  <=> p \in UNION {Refs(d) : d \in Clients} /\ p # o
    BY <1>3, <1>4
  <2>5. registry' = lost' \cup BeingReleased'
                    \cup UNION {Refs(d)' : d \in Clients}
    BY <1>1, <1>5, <2>1, <2>3, <2>4
  <2>6. \A d \in Clients : Refs(d)' # {} =>
           Open(d)' \/ (srv'.closing /\ srv'.cd = d)
    BY <1>1, <1>2, <1>3, <2>1 DEF Open
  <2> QED
    BY <1>3, <2>1, <2>2, <2>5, <2>6
<1>11. SlotsFollowTheirObject'
  <2>1. ASSUME NEW i \in Slots, slot[i].owner
        PROVE  slot[i].data # Null /\ slot[i].caller[1] # o
    <3>1. slot[i].data # Null
      BY <1>1, <2>1 DEF TableInv, TableIsConsistent
    <3> QED
      BY <1>1, <2>1, <3>1 DEF ObjectSlots
  <2>2. \A i \in Slots : slot[i].owner => data[slot[i].data].cd \in Clients
    BY <2>1, SlotData DEF FunctionData
  <2> SUFFICES ASSUME NEW i \in Slots, slot[i].owner,
                      slot[i].caller[1] # Global
               PROVE  LET p == slot[i].caller[1]
                          d == data[slot[i].data]
                      IN /\ p \in registry'
                         /\ foreign
                            \/ /\ p \in Refs(d.cd) /\ p # o
                               /\ client[d.cd] = d.conn
                                  \/ (srv'.closing /\ srv'.cd = d.cd)
    <3>1. \A d \in Clients : {p \in Objects : objRefs'[d][p] > 0}
                               = {p \in Refs(d) : srv.closing \/ d # c \/ p # o}
      BY <1>3 DEF Refs
    <3> QED
      BY <1>1, <2>2, <3>1 DEF SlotsFollowTheirObject, Refs
  <2> QED
    BY <1>1, <1>2, <1>6, <2>1 DEF RefInv, SlotsFollowTheirObject
<1> QED
  BY <1>7, <1>8, <1>9, <1>10, <1>11 DEF RefInv

LEMMA QuikStepRefs ==
    ASSUME TableInv, RefInv, NEW t \in Threads, QuikStep(t)
    PROVE  RefInv'
<1>1. /\ UNCHANGED <<client, slot, data, registry, objRefs, srv, lost,
                     foreign>>
      /\ ub' \in {ub, "nullOwner", "nullData", "freedData"}
  BY DEF QuikStep, CallFunction, ReadName, TestOwner, LoadData,
     ReadConnection, UseData, Crash
<1>2. ServerIsOrderly' /\ ServerHasObject' /\ RegistryCauses'
  BY <1>1 DEF RefInv, ServerIsOrderly, ServerHasObject, RegistryCauses,
     Releasing, Refs, Open
<1>3. DataFollowSlots'
  BY <1>1, DataFollowFrame DEF RefInv
<1>4. ReferencesHaveOneHolder'
  BY <1>1, ReferencesFrame DEF RefInv
<1>5. SlotsFollowTheirObject'
  BY <1>1 DEF RefInv, SlotsFollowTheirObject, Refs, BeingReleased
<1> QED
  BY <1>2, <1>3, <1>4, <1>5 DEF RefInv

LEMMA InitRefs == Init => RefInv
<1> SUFFICES ASSUME Init PROVE RefInv
  OBVIOUS
<1>1. /\ \A i \in Slots : ~slot[i].owner
      /\ srv = SrvIdle /\ registry = {} /\ lost = {} /\ ub = "none"
      /\ \A c \in Clients, o \in Objects : objRefs[c][o] = 0
  BY DEF Init, FreeItem
<1>2. ServerIsOrderly /\ ServerHasObject /\ RegistryCauses /\ DataFollowSlots
  BY <1>1, IdleServer DEF ServerIsOrderly, ServerHasObject, RegistryCauses,
     DataFollowSlots, Releasing
<1>3. \A c \in Clients : Refs(c) = {}
  BY <1>1 DEF Refs
<1>4. BeingReleased = {}
  BY <1>1, IdleServer DEF BeingReleased
<1>5. ReferencesHaveOneHolder
  BY <1>1, <1>3, <1>4 DEF ReferencesHaveOneHolder
<1>6. SlotsFollowTheirObject
  BY <1>1 DEF SlotsFollowTheirObject
<1> QED
  BY <1>2, <1>5, <1>6 DEF RefInv

LEMMA StepRefs == TableInv /\ RefInv /\ [Next]_vars => RefInv'
<1> SUFFICES ASSUME TableInv, RefInv, [Next]_vars PROVE RefInv'
  OBVIOUS
<1>1. CASE UNCHANGED vars
  <2>1. UNCHANGED <<client, slot, data, registry, objRefs, srv, lost, foreign,
                    ub>>
    BY <1>1 DEF vars, history
  <2>2. ServerIsOrderly' /\ ServerHasObject' /\ RegistryCauses'
    BY <2>1 DEF RefInv, ServerIsOrderly, ServerHasObject, RegistryCauses,
       Releasing, Refs, Open
  <2>3. DataFollowSlots' /\ ReferencesHaveOneHolder'
    BY <2>1, DataFollowFrame, ReferencesFrame DEF RefInv
  <2>4. SlotsFollowTheirObject'
    BY <2>1 DEF RefInv, SlotsFollowTheirObject, Refs, BeingReleased
  <2> QED
    BY <2>2, <2>3, <2>4 DEF RefInv
<1>2. CASE ServerStep /\ NotDelivered
  BY <1>2, ConnectRefs, CloseRefs, RegisterRefs, InvokeRefs, DeleteRefs,
     PushCallableRefs, SetCustomDataRefs, FinishInvokeRefs, TakeLastRefs,
     ReleaseDataRefs, ClearOwnerRefs, ClearSlotRefs, UnrefRefs
     DEF ServerStep
<1>3. CASE \E t \in Threads : QuikStep(t)
  BY <1>3, QuikStepRefs
<1> QED
  BY <1>1, <1>2, <1>3 DEF Next

LEMMA RefInvariant == Spec => []RefInv
  BY InitRefs, StepRefs, TableInvariant, PTL DEF Spec

\* Whatever clients ask for, as long as they use their own objects: no
\* reference of the Lua registry is held twice, forgotten while it is
\* allocated, or kept after it was given back.
THEOREM ReferencesAreHeldOnce == Spec => []ReferencesHaveOneHolder
<1>1. RefInv => ReferencesHaveOneHolder
  BY DEF RefInv
<1> QED
  BY <1>1, RefInvariant, PTL

\* No slot serves a method of an object that is gone, nor a connection that
\* does not hold the object.
THEOREM SlotsStayWithTheirObject == Spec => []SlotsFollowTheirObject
<1>1. RefInv => SlotsFollowTheirObject
  BY DEF RefInv
<1> QED
  BY <1>1, RefInvariant, PTL

-----------------------------------------------------------------------------
(* Where a call can end.                                                   *)

\* Data whose object was released: what is freed is among it, with it all
\* that was made for the object before; no slot leads to it but those that
\* are about to be released.
DroppedHold ==
    /\ dropped \subseteq DOMAIN data
    /\ \A r \in DOMAIN data : data[r].freed => r \in dropped
    /\ \A q, r \in DOMAIN data :
          q <= r /\ data[q].caller[1] = data[r].caller[1] /\ r \in dropped
             => q \in dropped
    /\ Releasing => \A r \in DOMAIN data :
          data[r].caller[1] = srv.object => r \in dropped
    /\ srv.at = "data" => Len(data) \notin dropped
    /\ \A i \in Slots : slot[i].owner /\ slot[i].data \in dropped =>
          Releasing /\ srv.object = slot[i].caller[1]

\* The other data of a method was made for a client that holds the object.
DataHaveHolder ==
    ~foreign =>
        \A r \in DOMAIN data :
            r \notin dropped /\ data[r].caller[1] # Global =>
                data[r].caller[1] \in Refs(data[r].cd) /\ Serves(data[r])

\* Data r is what g was made for, or was made later for the same caller.
GivenBefore(g, r) == g <= r /\ data[r].caller = data[g].caller

\* The slot of a function leads to what it was given for or to something
\* later, until the object is released.
KeepsItsSlot(f) ==
    f.given \in Data =>
        /\ f.given <= Len(data)
        /\ f.given \notin dropped =>
              /\ slot[f.slot].owner /\ slot[f.slot].data # Null
              /\ GivenBefore(f.given, slot[f.slot].data)
FunctionsKeepTheirSlots == \A f \in held \cup srv.functions : KeepsItsSlot(f)

\* The same of what a call has read from the slot.
FollowsFunction(k) ==
    k.at # "idle" =>
        /\ [slot |-> k.slot, given |-> k.given] \in held
        /\ k.at # "name" => k.given \in Data
        /\ k.at \in {"connection", "use"} /\ k.given \notin dropped
              => k.data # Null /\ GivenBefore(k.given, k.data)
CallsFollowFunctions == \A t \in Threads : FollowsFunction(call[t])

\* What a call has read and nobody has freed still has its slot, or has lost
\* it to a later registration.
IsCurrent(r) ==
    r # Null /\ ~data[r].freed =>
        \/ \E i \in Slots : slot[i].owner /\ slot[i].data = r
        \/ Replaced(r)
CallsUseCurrentData == \A t \in Threads : IsCurrent(call[t].data)

TableCauses ==
    ub \in {"nullOwner", "nullData", "freedData"} =>
        \E t \in Threads : call[t].at # "idle" /\ call[t].given \in dropped

DataInv == /\ DroppedHold /\ DataHaveHolder /\ FunctionsKeepTheirSlots
           /\ CallsFollowFunctions /\ CallsUseCurrentData /\ TableCauses
           /\ StrayCallsComeFromReleases /\ ClosedConnectionsAreForgotten

\* What a step of the server thread leaves to be shown.
LEMMA ServerStepCauses ==
    ASSUME ub = "none", ServerStep, NotDelivered
    PROVE  /\ TableCauses' /\ StrayCallsComeFromReleases'
           /\ ClosedConnectionsAreForgotten'
<1>1. ub' \in {"none", "luaError", "badUnref"}
  BY DEF ServerStep, Connect, Close, Register, Invoke, Delete, PushCallable,
     SetCustomData, FinishInvoke, TakeLast, ReleaseData, ClearOwner,
     ClearSlot, Unref
<1>2. TableCauses'
  BY <1>1 DEF TableCauses
<1>3. reached'.by = Null /\ reached'.given = Null /\ Null \notin Data
  BY DEF NotDelivered, Deliver, NoDelivery, Null, Data
<1> QED
  BY <1>2, <1>3
     DEF StrayCallsComeFromReleases, ClosedConnectionsAreForgotten

\* A function was given data that exists, and a call has read data that
\* exists.
LEMMA GivenExists ==
    ASSUME TableInv, NEW f, KeepsItsSlot(f), f.given \in Data
    PROVE  f.given \in DOMAIN data
  BY DataType DEF TableInv, KeepsItsSlot, Data

LEMMA CallDataExists ==
    ASSUME TableInv, NEW t \in Threads, call[t].data # Null
    PROVE  call[t].data \in DOMAIN data /\ call[t].data \in Data
<1>1. call[t].data \in Data /\ call[t].data <= Len(data)
  BY DEF TableInv, TypeOK, CallRecord, CallHolds
<1> QED
  BY <1>1, DataType DEF TableInv, Data

\* Calls follow their functions through everything the server thread does:
\* functions are kept, and data never gets another caller.
LEMMA CallsFollowFrame ==
    ASSUME TableInv, FunctionsKeepTheirSlots, CallsFollowFunctions,
           UNCHANGED call, held \subseteq held', dropped \subseteq dropped',
           \A r \in DOMAIN data : data'[r].caller = data[r].caller
    PROVE  CallsFollowFunctions'
<1> SUFFICES ASSUME NEW t \in Threads PROVE FollowsFunction(call[t])'
  BY DEF CallsFollowFunctions
<1> DEFINE k == call[t]
<1>1. FollowsFunction(k) /\ call' = call
  BY DEF CallsFollowFunctions
<1>2. CASE k.at # "idle"
  <2>1. [slot |-> k.slot, given |-> k.given] \in held
    BY <1>1, <1>2 DEF FollowsFunction
  <2>2. k.given \in Data => k.given \in DOMAIN data
    BY <2>1, GivenExists DEF FunctionsKeepTheirSlots, KeepsItsSlot, TableInv
  <2>3. k.data # Null => k.data \in DOMAIN data
    BY CallDataExists
  <2> QED
    BY <1>1, <1>2, <2>1, <2>2, <2>3 DEF FollowsFunction, GivenBefore
<1>3. CASE k.at = "idle"
  BY <1>1, <1>3 DEF FollowsFunction
<1> QED
  BY <1>2, <1>3

\* The slots that serve clients, the data and the calls stay.
KeepsSlots ==
    /\ data' = data /\ call' = call
    /\ \A j \in Slots : /\ slot'[j].owner = slot[j].owner
                        /\ slot'[j].data = slot[j].data
                        /\ slot'[j].caller = slot[j].caller

LEMMA CurrentFrame ==
    ASSUME CallsUseCurrentData, KeepsSlots
    PROVE  CallsUseCurrentData'
<1> SUFFICES ASSUME NEW t \in Threads PROVE IsCurrent(call[t].data)'
  BY DEF CallsUseCurrentData
<1>1. IsCurrent(call[t].data)
  BY DEF CallsUseCurrentData
<1> QED
  BY <1>1 DEF KeepsSlots, IsCurrent, Replaced

LEMMA FunctionsFrame ==
    ASSUME TableInv, FunctionsKeepTheirSlots, KeepsSlots,
           dropped \subseteq dropped',
           \A f \in held' \cup srv'.functions :
              f \in held \cup srv.functions \/ f.given \in Names
    PROVE  FunctionsKeepTheirSlots'
<1> SUFFICES ASSUME NEW f \in held' \cup srv'.functions, f.given \in Data
             PROVE  KeepsItsSlot(f)'
  BY DEF FunctionsKeepTheirSlots, KeepsItsSlot
<1>1. f.given \notin Names
  BY NameAssumption DEF Data
<1>2. KeepsItsSlot(f) /\ f.slot \in Slots
  BY <1>1 DEF FunctionsKeepTheirSlots, TableInv, TypeOK, ServerRecord, Function
<1> QED
  BY <1>2 DEF KeepsItsSlot, KeepsSlots, GivenBefore

LEMMA DroppedFrame ==
    ASSUME DroppedHold, KeepsSlots, dropped' = dropped,
           ~Releasing, ~Releasing', srv'.at # "data"
    PROVE  DroppedHold'
  BY DEF DroppedHold, KeepsSlots

\* A step of the server thread outside the two halves of
\* registerFastCallback and the release of a slot.
LEMMA QuietServerStep ==
    ASSUME TableInv, DataInv, ub = "none", ServerStep, NotDelivered,
           KeepsSlots, held \subseteq held', dropped \subseteq dropped',
           \A f \in held' \cup srv'.functions :
              f \in held \cup srv.functions \/ f.given \in Names,
           DroppedHold', DataHaveHolder'
    PROVE  DataInv'
<1>1. FunctionsKeepTheirSlots'
  BY FunctionsFrame DEF DataInv
<1>2. CallsFollowFunctions'
  BY CallsFollowFrame DEF DataInv, KeepsSlots
<1>3. CallsUseCurrentData'
  BY CurrentFrame DEF DataInv
<1>4. /\ TableCauses' /\ StrayCallsComeFromReleases'
      /\ ClosedConnectionsAreForgotten'
  BY ServerStepCauses
<1> QED
  BY <1>1, <1>2, <1>3, <1>4 DEF DataInv

\* deleteQuikObject begins: no slot leads to dropped data but those of the
\* object that is to be released.
LEMMA BeginReleaseDropped ==
    ASSUME TableInv, RefInv, DroppedHold, ~Releasing, UNCHANGED <<slot, data>>,
           NEW c \in Clients, NEW o \in Objects, NEW b \in BOOLEAN,
           BeginRelease(c, o, b)
    PROVE  DroppedHold' /\ dropped \subseteq dropped'
<1>1. /\ srv'.at = "release" /\ srv'.object = o /\ Releasing'
      /\ dropped' = dropped \cup {r \in DOMAIN data : data[r].caller[1] = o}
  BY BeginReleaseWrites
<1>2. dropped' \subseteq DOMAIN data'
  BY <1>1 DEF DroppedHold
<1>3. \A r \in DOMAIN data : data[r].freed => r \in dropped'
  BY <1>1 DEF DroppedHold
<1>4. \A q, r \in DOMAIN data :
         q <= r /\ data[q].caller[1] = data[r].caller[1] /\ r \in dropped'
            => q \in dropped'
  BY <1>1 DEF DroppedHold
<1>5. \A r \in DOMAIN data : data[r].caller[1] = o => r \in dropped'
  BY <1>1
<1>6. ASSUME NEW i \in Slots, slot[i].owner, slot[i].data \in dropped'
      PROVE  o = slot[i].caller[1]
  <2>1. slot[i].data \notin dropped
    BY <1>6 DEF DroppedHold
  <2>2. slot[i].data \in DOMAIN data /\ data[slot[i].data].caller[1] = o
    BY <1>1, <1>6, <2>1
  <2>3. slot[i].data # Null
    BY <2>2, DataType DEF TableInv, Null
  <2>4. data[slot[i].data].caller = slot[i].caller
    BY <1>6, <2>3 DEF RefInv, DataFollowSlots
  <2> QED
    BY <2>2, <2>4
<1>7. DroppedHold'
  BY <1>1, <1>2, <1>3, <1>4, <1>5, <1>6 DEF DroppedHold
<1> QED
  BY <1>1, <1>7

\* Data that keeps its holder.
LEMMA HolderFrame ==
    ASSUME TableInv, DataHaveHolder, data' = data, foreign => foreign',
           dropped \subseteq dropped',
           \A r \in DOMAIN data :
              /\ r \notin dropped' /\ data[r].caller[1] # Global
              /\ data[r].caller[1] \in Refs(data[r].cd) /\ Serves(data[r])
              /\ data[r].cd \in Clients /\ data[r].conn # 0
              => /\ objRefs'[data[r].cd][data[r].caller[1]] > 0
                 /\ \/ client'[data[r].cd] = data[r].conn
                    \/ srv'.closing /\ srv'.cd = data[r].cd
    PROVE  DataHaveHolder'
<1> SUFFICES ASSUME ~foreign', NEW r \in DOMAIN data, r \notin dropped',
                    data[r].caller[1] # Global
             PROVE  /\ data[r].caller[1] \in Objects
                    /\ objRefs'[data[r].cd][data[r].caller[1]] > 0
                    /\ \/ client'[data[r].cd] = data[r].conn
                       \/ srv'.closing /\ srv'.cd = data[r].cd
  BY DEF DataHaveHolder, Refs, Serves
<1>1. data[r] \in FunctionData
  BY DataType DEF TableInv
<1>2. data[r].cd \in Clients /\ data[r].conn # 0
  BY <1>1, BoundAssumption DEF FunctionData
<1>3. data[r].caller[1] \in Refs(data[r].cd) /\ Serves(data[r])
  BY DEF DataHaveHolder
<1> QED
  BY <1>2, <1>3 DEF Refs

LEMMA ConnectData ==
    ASSUME TableInv, RefInv, DataInv, NotDelivered, ub = "none",
           NEW c \in Clients, Connect(c)
    PROVE  DataInv'
<1>1. /\ UNCHANGED <<slot, data, objRefs, held, call, srv, dropped, foreign>>
      /\ srv = SrvIdle /\ client[c] = 0
      /\ client' = [client EXCEPT ![c] = opened + 1]
      /\ client \in [Clients -> 0..MaxConnections]
  BY DEF Connect, RefInv, ServerIsOrderly, Open, history, TableInv, TypeOK
<1>2. KeepsSlots /\ ServerStep
  BY <1>1 DEF KeepsSlots, ServerStep
<1>3. DroppedHold'
  BY <1>1, <1>2, IdleServer, DroppedFrame DEF DataInv, Releasing
<1>4. DataHaveHolder'
  BY <1>1, IdleServer, HolderFrame DEF DataInv, Refs, Serves
<1> QED
  BY <1>1, <1>2, <1>3, <1>4, QuietServerStep

LEMMA CloseData ==
    ASSUME TableInv, RefInv, DataInv, NotDelivered, ub = "none",
           NEW c \in Clients, Close(c)
    PROVE  DataInv'
<1>1. /\ UNCHANGED <<slot, data, objRefs, held, call, dropped, foreign>>
      /\ srv = SrvIdle
      /\ client' = [client EXCEPT ![c] = 0]
      /\ client \in [Clients -> 0..MaxConnections]
      /\ srv' = [SrvIdle EXCEPT !.at = "takeLast", !.cd = c, !.closing = TRUE]
  BY DEF Close, RefInv, ServerIsOrderly, history, TableInv, TypeOK
<1>2. /\ srv'.at = "takeLast" /\ srv'.closing /\ srv'.cd = c
      /\ srv'.functions = {}
  BY <1>1 DEF SrvIdle
<1>3. KeepsSlots /\ ServerStep
  BY <1>1 DEF KeepsSlots, ServerStep
<1>4. DroppedHold'
  BY <1>1, <1>2, <1>3, IdleServer, DroppedFrame DEF DataInv, Releasing
<1>5. DataHaveHolder'
  BY <1>1, <1>2, IdleServer, HolderFrame DEF DataInv, Refs, Serves
<1> QED
  BY <1>1, <1>2, <1>3, <1>4, <1>5, QuietServerStep

LEMMA RegisterData ==
    ASSUME TableInv, RefInv, DataInv, NotDelivered, ub = "none",
           NEW c \in Clients, NEW name \in Names, Register(c, name)
    PROVE  DataInv'
<1>1. /\ UNCHANGED <<client, data, objRefs, call, srv, dropped, foreign>>
      /\ srv = SrvIdle
  BY DEF Register, RefInv, ServerIsOrderly, history
<1>2. /\ held \subseteq held'
      /\ \A f \in held' : f \in held \/ f.given \in Names
  BY DEF Register, RegisterCallback
<1>3. KeepsSlots /\ ServerStep
  BY <1>1, RegisterSlots DEF KeepsSlots, ServerStep
<1>4. DroppedHold'
  BY <1>1, <1>3, IdleServer, DroppedFrame DEF DataInv, Releasing
<1>5. DataHaveHolder'
  BY <1>1, HolderFrame DEF DataInv, Refs, Serves
<1> QED
  BY <1>1, <1>2, <1>3, <1>4, <1>5, QuietServerStep

LEMMA InvokeData ==
    ASSUME TableInv, RefInv, DataInv, NotDelivered, ub = "none",
           NEW c \in Clients, NEW caller \in Callers,
           NEW n \in 0..MaxCallables, Invoke(c, caller, n)
    PROVE  DataInv'
<1>1. /\ UNCHANGED <<client, slot, data, objRefs, held, call, dropped>>
      /\ srv = SrvIdle
      /\ foreign => foreign'
  BY DEF Invoke, RefInv, ServerIsOrderly, UseObject
<1>2. ~srv'.closing /\ srv'.at \in {"idle", "args"} /\ srv'.functions = {}
  <2>1. \/ srv' = [SrvIdle EXCEPT !.at = "args", !.cd = c,
                                  !.caller = caller, !.left = n]
        \/ srv' = SrvIdle
    BY <1>1 DEF Invoke
  <2>2. CASE srv' = SrvIdle
    BY <2>2, IdleServer
  <2>3. CASE srv' = [SrvIdle EXCEPT !.at = "args", !.cd = c,
                                    !.caller = caller, !.left = n]
    BY <2>3 DEF SrvIdle
  <2> QED
    BY <2>1, <2>2, <2>3
<1>3. KeepsSlots /\ ServerStep
  BY <1>1 DEF KeepsSlots, ServerStep
<1>4. DroppedHold'
  BY <1>1, <1>2, <1>3, IdleServer, DroppedFrame DEF DataInv, Releasing
<1>5. DataHaveHolder'
  BY <1>1, <1>2, IdleServer, HolderFrame DEF DataInv, Refs, Serves
<1> QED
  BY <1>1, <1>2, <1>3, <1>4, <1>5, QuietServerStep

LEMMA FinishInvokeData ==
    ASSUME TableInv, RefInv, DataInv, NotDelivered, ub = "none", FinishInvoke
    PROVE  DataInv'
<1> PICK c \in Clients : c = srv.cd
  BY DEF FinishInvoke, TableInv, ServerHolds
<1>1. /\ UNCHANGED <<client, slot, data, call, dropped, foreign>>
      /\ srv.at = "args" /\ ~srv.closing /\ srv' = SrvIdle
      /\ held' \in {held, held \cup srv.functions}
      /\ \/ UNCHANGED objRefs
         \/ \E o \in Objects :
               objRefs' = [objRefs EXCEPT ![c] = AppendRef(@, o)]
  BY DEF FinishInvoke, RefInv, ServerIsOrderly, Releasing
<1>2. KeepsSlots /\ ServerStep
  BY <1>1 DEF KeepsSlots, ServerStep
<1>3. DroppedHold'
  BY <1>1, <1>2, IdleServer, DroppedFrame DEF DataInv, Releasing
<1>4. \A d \in Clients, p \in Objects :
         objRefs[d][p] > 0 => objRefs'[d][p] > 0
  <2>1. objRefs \in [Clients -> [Objects -> 0..MaxRefs]]
    BY DEF TableInv, TypeOK
  <2>2. ASSUME NEW o \in Objects,
               objRefs' = [objRefs EXCEPT ![c] = AppendRef(@, o)],
               NEW d \in Clients, NEW p \in Objects, objRefs[d][p] > 0
        PROVE  objRefs'[d][p] > 0
    <3>1. objRefs'[d][p] = IF d = c /\ p = o THEN objRefs[d][p] + 1
                           ELSE objRefs[d][p]
      BY <2>1, <2>2 DEF AppendRef
    <3>2. objRefs[d][p] \in Nat
      BY <2>1, BoundAssumption
    <3> QED
      BY <2>2, <3>1, <3>2
  <2> QED
    BY <1>1, <2>2
<1>5. DataHaveHolder'
  <2>1. \A r \in DOMAIN data :
           /\ data[r].caller[1] \in Refs(data[r].cd) /\ Serves(data[r])
           /\ data[r].cd \in Clients
           => /\ objRefs'[data[r].cd][data[r].caller[1]] > 0
              /\ client'[data[r].cd] = data[r].conn
    BY <1>1, <1>4 DEF Refs, Serves
  <2> QED
    BY <1>1, <2>1, HolderFrame DEF DataInv
<1> QED
  BY <1>1, <1>2, <1>3, <1>5, IdleServer, QuietServerStep

LEMMA DeleteData ==
    ASSUME TableInv, RefInv, DataInv, NotDelivered, ub = "none",
           NEW c \in Clients, NEW o \in Objects, Delete(c, o)
    PROVE  DataInv'
<1>1. /\ UNCHANGED <<client, slot, data, objRefs, held, call>>
      /\ srv = SrvIdle /\ BeginRelease(c, o, FALSE)
      /\ foreign => foreign'
  BY DEF Delete, RefInv, ServerIsOrderly, UseObject
<1>2. srv'.functions = {}
  BY <1>1, BeginReleaseWrites
<1>3. KeepsSlots /\ ServerStep
  BY <1>1 DEF KeepsSlots, ServerStep
<1>4. DroppedHold' /\ dropped \subseteq dropped'
  BY <1>1, IdleServer, BeginReleaseDropped DEF DataInv, Releasing
<1>5. DataHaveHolder'
  <2>1. \A r \in DOMAIN data :
           /\ data[r].caller[1] \in Refs(data[r].cd) /\ Serves(data[r])
           => /\ objRefs'[data[r].cd][data[r].caller[1]] > 0
              /\ client'[data[r].cd] = data[r].conn
    BY <1>1, IdleServer DEF Refs, Serves
  <2> QED
    BY <1>1, <1>4, <2>1, HolderFrame DEF DataInv
<1> QED
  BY <1>1, <1>2, <1>3, <1>4, <1>5, QuietServerStep

LEMMA TakeLastData ==
    ASSUME TableInv, RefInv, DataInv, NotDelivered, ub = "none", TakeLast
    PROVE  DataInv'
<1> PICK c \in Clients : c = srv.cd
  BY DEF TakeLast, TableInv, ServerHolds
<1>1. /\ UNCHANGED <<client, slot, data, held, call, foreign>>
      /\ srv.at = "takeLast" /\ ~Releasing
  BY DEF TakeLast, Releasing
<1>2. KeepsSlots /\ ServerStep
  BY <1>1 DEF KeepsSlots, ServerStep
<1>3. CASE Refs(c) = {} /\ srv' = SrvIdle /\ UNCHANGED <<objRefs, dropped>>
  <2>1. ~Releasing' /\ srv'.at # "data" /\ srv'.functions = {}
    BY <1>3, IdleServer DEF Releasing
  <2>2. DroppedHold'
    BY <1>1, <1>2, <1>3, <2>1, DroppedFrame DEF DataInv
  <2>3. \A r \in DOMAIN data :
           /\ data[r].caller[1] \in Refs(data[r].cd) /\ Serves(data[r])
           => /\ objRefs'[data[r].cd][data[r].caller[1]] > 0
              /\ client'[data[r].cd] = data[r].conn
    BY <1>1, <1>3 DEF Refs, Serves
  <2>4. DataHaveHolder'
    BY <1>1, <1>3, <2>3, HolderFrame DEF DataInv
  <2> QED
    BY <1>1, <1>2, <1>3, <2>1, <2>2, <2>4, QuietServerStep
<1>4. ASSUME NEW o \in Objects,
             objRefs' = [objRefs EXCEPT ![c] = TakeRef(@, o)],
             BeginRelease(c, o, TRUE)
      PROVE  DataInv'
  <2>1. /\ srv'.cd = c /\ srv'.closing /\ srv'.functions = {}
        /\ dropped' = dropped
              \cup {r \in DOMAIN data : data[r].caller[1] = o}
    BY <1>4, BeginReleaseWrites
  <2>2. DroppedHold' /\ dropped \subseteq dropped'
    BY <1>1, <1>4, BeginReleaseDropped DEF DataInv
  <2>3. objRefs \in [Clients -> [Objects -> 0..MaxRefs]]
    BY DEF TableInv, TypeOK
  <2>4. \A d \in Clients, p \in Objects : p # o =>
           objRefs'[d][p] = objRefs[d][p]
    BY <1>4, <2>3 DEF TakeRef
  <2>5. \A r \in DOMAIN data :
           /\ r \notin dropped'
           /\ data[r].caller[1] \in Refs(data[r].cd) /\ Serves(data[r])
           /\ data[r].cd \in Clients
           => /\ objRefs'[data[r].cd][data[r].caller[1]] > 0
              /\ \/ client'[data[r].cd] = data[r].conn
                 \/ srv'.closing /\ srv'.cd = data[r].cd
    BY <1>1, <2>1, <2>4 DEF Refs, Serves
  <2>6. DataHaveHolder'
    BY <1>1, <2>2, <2>5, HolderFrame DEF DataInv
  <2> QED
    BY <1>1, <1>2, <2>1, <2>2, <2>6, QuietServerStep
<1>5. Refs(c) \subseteq Objects
  BY DEF Refs
<1> QED
  BY <1>3, <1>4, <1>5 DEF TakeLast

LEMMA UnrefData ==
    ASSUME TableInv, RefInv, DataInv, NotDelivered, ub = "none", Unref
    PROVE  DataInv'
<1> PICK c \in Clients, o \in Objects : c = srv.cd /\ o = srv.object
  BY DEF Unref, TableInv, ServerHolds
<1>1. /\ UNCHANGED <<client, slot, data, held, call, dropped, foreign>>
      /\ srv.at = "release" /\ Releasing /\ ObjectSlots(o) = {}
  BY DEF Unref, Releasing
<1>2. \/ /\ srv.closing /\ UNCHANGED objRefs
         /\ srv'.at = "takeLast" /\ srv'.closing /\ srv'.cd = c
         /\ srv'.functions = srv.functions
      \/ /\ ~srv.closing /\ srv'.at = "idle" /\ srv'.functions = {}
         /\ objRefs' = [objRefs EXCEPT ![c] = RemoveAll(@, o)]
  BY IdleServer DEF Unref, TableInv, TypeOK, ServerRecord
<1>3. KeepsSlots /\ ServerStep
  BY <1>1 DEF KeepsSlots, ServerStep
<1>4. DroppedHold'
  <2>1. ASSUME NEW i \in Slots, slot[i].owner, slot[i].data \in dropped
        PROVE  FALSE
    <3>1. slot[i].caller[1] = o
      BY <2>1 DEF DataInv, DroppedHold
    <3>2. slot[i].data # Null
      BY <1>1, <2>1 DEF TableInv, TableIsConsistent
    <3> QED
      BY <1>1, <2>1, <3>1, <3>2 DEF ObjectSlots
  <2>2. ~Releasing' /\ srv'.at # "data"
    BY <1>2 DEF Releasing
  <2> QED
    BY <1>1, <2>1, <2>2 DEF DataInv, DroppedHold
<1>5. \A d \in Clients, p \in Objects : p # o =>
         objRefs'[d][p] = objRefs[d][p]
  <2>1. objRefs \in [Clients -> [Objects -> 0..MaxRefs]]
    BY DEF TableInv, TypeOK
  <2> QED
    BY <1>2, <2>1 DEF RemoveAll
<1>6. DataHaveHolder'
  <2>1. \A r \in DOMAIN data : r \notin dropped => data[r].caller[1] # o
    BY <1>1 DEF DataInv, DroppedHold
  <2>2. \A r \in DOMAIN data :
           /\ r \notin dropped'
           /\ data[r].caller[1] \in Refs(data[r].cd) /\ Serves(data[r])
           /\ data[r].cd \in Clients
           => /\ objRefs'[data[r].cd][data[r].caller[1]] > 0
              /\ \/ client'[data[r].cd] = data[r].conn
                 \/ srv'.closing /\ srv'.cd = data[r].cd
    BY <1>1, <1>2, <1>5, <2>1 DEF Refs, Serves
  <2> QED
    BY <1>1, <2>2, HolderFrame DEF DataInv
<1> QED
  BY <1>1, <1>2, <1>3, <1>4, <1>6, QuietServerStep

\* New data is nobody's yet; its slot, if it was free, has been nobody's.
LEMMA PushCallableData ==
    ASSUME TableInv, RefInv, DataInv, NotDelivered, ub = "none", PushCallable
    PROVE  DataInv'
<1> PICK c \in Clients : c = srv.cd
  BY PushCallableWrites
<1> DEFINE n == Len(data)
<1>1. /\ UNCHANGED <<client, objRefs, held, call, foreign, dropped>>
      /\ n \in Nat /\ Len(data') = n + 1
      /\ DOMAIN data = 1..n /\ DOMAIN data' = 1..(n + 1)
      /\ \A r \in DOMAIN data : data'[r] = data[r]
      /\ data'[n + 1].cd = c /\ data'[n + 1].conn = client[c]
      /\ data'[n + 1].caller = srv.caller /\ ~data'[n + 1].freed
      /\ srv.at = "args" /\ srv'.at \in {"args", "data"}
      /\ srv'.cd = c /\ srv'.closing = srv.closing
      /\ srv'.functions = srv.functions
  BY PushCallableWrites
<1>2. /\ ~Releasing /\ ~Releasing' /\ ServerStep
  BY <1>1 DEF Releasing, ServerStep
<1>3. /\ \A j \in Slots :
            /\ slot'[j].data = slot[j].data
            /\ slot[j].owner => slot'[j].owner
                                /\ slot'[j].caller = slot[j].caller
            /\ slot'[j].owner => slot[j].owner \/ slot[j].data = Null
      /\ \A j \in Slots : slot[j].data # Null => slot[j].data \in DOMAIN data
  BY PushCallableWrites, SlotData
<1>4. n + 1 \notin dropped /\ dropped \subseteq DOMAIN data /\ Null \notin dropped
  BY <1>1 DEF DataInv, DroppedHold, Null
<1> HIDE DEF n
<1>5. DroppedHold'
  <2>1. \A r \in DOMAIN data' : data'[r].freed => r \in dropped
    BY <1>1 DEF DataInv, DroppedHold
  <2>2. \A q, r \in DOMAIN data' :
           q <= r /\ data'[q].caller[1] = data'[r].caller[1] /\ r \in dropped
              => q \in dropped
    <3>1. \A q \in DOMAIN data', r \in dropped :
             q <= r => q \in DOMAIN data /\ r \in DOMAIN data
      BY <1>1, <1>4
    <3> QED
      BY <1>1, <1>4, <3>1 DEF DataInv, DroppedHold
  <2>3. \A j \in Slots : slot'[j].owner => slot'[j].data \notin dropped
    BY <1>2, <1>3, <1>4 DEF DataInv, DroppedHold
  <2> QED
    BY <1>1, <1>2, <1>4, <2>1, <2>2, <2>3 DEF DroppedHold
<1>6. DataHaveHolder'
  <2> SUFFICES ASSUME ~foreign, NEW r \in DOMAIN data', r \notin dropped,
                      data'[r].caller[1] # Global
               PROVE  /\ data'[r].caller[1] \in Refs(data'[r].cd)
                      /\ \/ client[data'[r].cd] = data'[r].conn
                         \/ srv.closing /\ c = data'[r].cd
    BY <1>1 DEF DataHaveHolder, Refs, Serves
  <2>1. CASE r \in DOMAIN data
    BY <1>1, <2>1 DEF DataInv, DataHaveHolder, Serves
  <2>2. CASE r = n + 1
    BY <1>1, <2>2 DEF RefInv, ServerHasObject
  <2> QED
    BY <1>1, <2>1, <2>2
<1>7. FunctionsKeepTheirSlots'
  <2> SUFFICES ASSUME NEW f \in held \cup srv.functions, f.given \in Data
               PROVE  KeepsItsSlot(f)'
    BY <1>1 DEF FunctionsKeepTheirSlots, KeepsItsSlot
  <2>1. KeepsItsSlot(f) /\ f.slot \in Slots
    BY DEF DataInv, FunctionsKeepTheirSlots, TableInv, TypeOK, ServerRecord,
       Function
  <2>2. f.given \in DOMAIN data /\ f.given <= n + 1
    BY <1>1, <2>1, GivenExists DEF n, KeepsItsSlot, Data
  <2> QED
    BY <1>1, <1>3, <2>1, <2>2 DEF KeepsItsSlot, GivenBefore
<1>8. CallsFollowFunctions'
  BY <1>1, CallsFollowFrame DEF DataInv
<1>9. CallsUseCurrentData'
  <2> SUFFICES ASSUME NEW t \in Threads, call[t].data # Null,
                      ~data'[call[t].data].freed
               PROVE  \/ \E i \in Slots : slot'[i].owner
                                          /\ slot'[i].data = call[t].data
                      \/ \E q \in DOMAIN data' :
                            q > call[t].data
                            /\ data'[q].caller = data'[call[t].data].caller
    BY <1>1 DEF CallsUseCurrentData, IsCurrent, Replaced
  <2>1. call[t].data \in DOMAIN data
    BY CallDataExists
  <2>2. IsCurrent(call[t].data)
    BY DEF DataInv, CallsUseCurrentData
  <2> QED
    BY <1>1, <1>3, <2>1, <2>2 DEF IsCurrent, Replaced
<1> QED
  BY <1>2, <1>5, <1>6, <1>7, <1>8, <1>9, ServerStepCauses DEF DataInv

\* What the slot led to before is of the same caller, and older.
LEMMA SetCustomDataData ==
    ASSUME TableInv, RefInv, DataInv, NotDelivered, ub = "none", SetCustomData
    PROVE  DataInv'
<1> PICK n \in DOMAIN data, i \in Slots : n = Len(data) /\ i = srv.slot
  BY SetCustomDataWrites
<1>1. /\ UNCHANGED <<client, data, objRefs, held, call, foreign, dropped>>
      /\ slot[i].owner /\ slot[i].caller = srv.caller
      /\ data[n].caller = srv.caller
      /\ srv.at = "data" /\ srv'.at = "args"
      /\ srv'.cd = srv.cd /\ srv'.closing = srv.closing
      /\ srv'.functions = srv.functions \cup {[slot |-> i, given |-> n]}
      /\ \A j \in Slots :
            /\ slot'[j].owner = slot[j].owner
            /\ slot'[j].caller = slot[j].caller
            /\ slot'[j].data = IF j = i THEN n ELSE slot[j].data
  BY SetCustomDataWrites
<1>2. /\ ~Releasing /\ ~Releasing' /\ ServerStep
  BY <1>1 DEF Releasing, ServerStep
<1>3. n \in Nat /\ n # Null /\ DOMAIN data = 1..n /\ n \in Data
  BY DataType DEF TableInv, Null
<1>4. n \notin dropped
  BY <1>1 DEF DataInv, DroppedHold
<1>5. DroppedHold'
  BY <1>1, <1>2, <1>4 DEF DataInv, DroppedHold
<1>6. DataHaveHolder'
  BY <1>1, HolderFrame DEF DataInv, Refs, Serves
<1>7. FunctionsKeepTheirSlots'
  <2> SUFFICES ASSUME NEW f \in held \cup srv.functions
                                  \cup {[slot |-> i, given |-> n]},
                      f.given \in Data
               PROVE  /\ f.given <= n
                      /\ f.given \notin dropped =>
                            /\ slot'[f.slot].owner /\ slot'[f.slot].data # Null
                            /\ f.given <= slot'[f.slot].data
                            /\ data[slot'[f.slot].data].caller
                                  = data[f.given].caller
    BY <1>1 DEF FunctionsKeepTheirSlots, KeepsItsSlot, GivenBefore
  <2>1. CASE f = [slot |-> i, given |-> n]
    BY <1>1, <1>3, <2>1
  <2>2. CASE f \in held \cup srv.functions
    <3>1. KeepsItsSlot(f) /\ f.slot \in Slots
      BY <2>2 DEF DataInv, FunctionsKeepTheirSlots, TableInv, TypeOK,
         ServerRecord, Function
    <3>2. f.given <= n
      BY <3>1 DEF KeepsItsSlot
    <3>3. CASE f.slot = i
      <4>1. f.given \notin dropped =>
               data[slot[i].data].caller = slot[i].caller
               /\ data[slot[i].data].caller = data[f.given].caller
        BY <1>1, <3>1, <3>3
           DEF RefInv, DataFollowSlots, KeepsItsSlot, GivenBefore
      <4> QED
        BY <1>1, <1>3, <3>2, <3>3, <4>1
    <3>4. CASE f.slot # i
      BY <1>1, <3>1, <3>2, <3>4 DEF KeepsItsSlot, GivenBefore
    <3> QED
      BY <3>3, <3>4
  <2> QED
    BY <2>1, <2>2
<1>8. CallsFollowFunctions'
  BY <1>1, CallsFollowFrame DEF DataInv
<1>9. CallsUseCurrentData'
  <2> SUFFICES ASSUME NEW t \in Threads, call[t].data # Null,
                      ~data[call[t].data].freed
               PROVE  \/ \E j \in Slots : slot'[j].owner
                                          /\ slot'[j].data = call[t].data
                      \/ \E q \in DOMAIN data :
                            q > call[t].data
                            /\ data[q].caller = data[call[t].data].caller
    BY <1>1 DEF CallsUseCurrentData, IsCurrent, Replaced
  <2>1. call[t].data \in DOMAIN data /\ call[t].data \in 1..n
    BY <1>3, CallDataExists
  <2>2. IsCurrent(call[t].data)
    BY DEF DataInv, CallsUseCurrentData
  <2>3. CASE slot[i].data = call[t].data
    <3>1. data[call[t].data].caller = data[n].caller
      BY <1>1, <2>3 DEF RefInv, DataFollowSlots
    <3>2. n # call[t].data
      BY <2>3 DEF TableInv, ServerHolds, SetCustomData
    <3> QED
      BY <1>3, <2>1, <3>1, <3>2
  <2>4. CASE slot[i].data # call[t].data
    BY <1>1, <2>1, <2>2, <2>4 DEF IsCurrent, Replaced
  <2> QED
    BY <2>3, <2>4
<1> QED
  BY <1>2, <1>5, <1>6, <1>7, <1>8, <1>9, ServerStepCauses DEF DataInv

\* What clearFastCallbackData frees is of the object that is released.
LEMMA ReleaseDataData ==
    ASSUME TableInv, RefInv, DataInv, NotDelivered, ub = "none", ReleaseData
    PROVE  DataInv'
<1>1. PICK i \in Slots :
              /\ slot[i].owner /\ slot[i].data \in DOMAIN data
              /\ slot[i].caller[1] = srv.object
              /\ srv'.at = "clearOwner" /\ slot' = slot
              /\ DOMAIN data' = DOMAIN data /\ Len(data') = Len(data)
              /\ data'[slot[i].data].freed
              /\ \A r \in DOMAIN data :
                    /\ data'[r].caller = data[r].caller
                    /\ data'[r].cd = data[r].cd
                    /\ data'[r].conn = data[r].conn
                    /\ r # slot[i].data => data'[r] = data[r]
  BY ReleaseDataWrites
<1>2. /\ srv'.cd = srv.cd /\ srv'.object = srv.object
      /\ srv'.closing = srv.closing /\ srv'.functions = srv.functions
      /\ Releasing /\ Releasing'
      /\ UNCHANGED <<client, objRefs, held, call, foreign, dropped>>
  BY ReleaseStepWrites
<1>3. slot[i].data # Null /\ data[slot[i].data].caller = slot[i].caller
  BY <1>1, DataType DEF TableInv, Null, RefInv, DataFollowSlots
<1>4. slot[i].data \in dropped
  BY <1>1, <1>2, <1>3 DEF DataInv, DroppedHold
<1>5. DroppedHold'
  <2>1. \A r \in DOMAIN data : data'[r].freed => r \in dropped
    BY <1>1, <1>4 DEF DataInv, DroppedHold
  <2>2. \A q, r \in DOMAIN data :
           q <= r /\ data'[q].caller[1] = data'[r].caller[1] /\ r \in dropped
              => q \in dropped
    BY <1>1 DEF DataInv, DroppedHold
  <2>3. \A r \in DOMAIN data :
           data'[r].caller[1] = srv.object => r \in dropped
    BY <1>1, <1>2 DEF DataInv, DroppedHold
  <2> QED
    BY <1>1, <1>2, <2>1, <2>2, <2>3 DEF DataInv, DroppedHold
<1>6. DataHaveHolder'
  <2> SUFFICES ASSUME ~foreign, NEW r \in DOMAIN data, r \notin dropped,
                      data[r].caller[1] # Global
               PROVE  /\ data[r].caller[1] \in Refs(data[r].cd)
                      /\ \/ client[data[r].cd] = data[r].conn
                         \/ srv.closing /\ srv.cd = data[r].cd
    BY <1>1, <1>2 DEF DataHaveHolder, Refs, Serves
  <2> QED
    BY DEF DataInv, DataHaveHolder, Serves
<1>7. FunctionsKeepTheirSlots'
  <2> SUFFICES ASSUME NEW f \in held \cup srv.functions, f.given \in Data
               PROVE  KeepsItsSlot(f)'
    BY <1>2 DEF FunctionsKeepTheirSlots, KeepsItsSlot
  <2>1. KeepsItsSlot(f) /\ f.slot \in Slots
    BY DEF DataInv, FunctionsKeepTheirSlots, TableInv, TypeOK, ServerRecord,
       Function
  <2>2. f.given \in DOMAIN data
    BY <2>1, GivenExists
  <2>3. slot[f.slot].data # Null => slot[f.slot].data \in DOMAIN data
    BY <2>1, SlotData
  <2> QED
    BY <1>1, <1>2, <2>1, <2>2, <2>3 DEF KeepsItsSlot, GivenBefore
<1>8. CallsFollowFunctions'
  BY <1>1, <1>2, CallsFollowFrame DEF DataInv
<1>9. CallsUseCurrentData'
  <2> SUFFICES ASSUME NEW t \in Threads, call[t].data # Null,
                      ~data'[call[t].data].freed
               PROVE  \/ \E j \in Slots : slot[j].owner
                                          /\ slot[j].data = call[t].data
                      \/ \E q \in DOMAIN data :
                            q > call[t].data
                            /\ data'[q].caller = data'[call[t].data].caller
    BY <1>1, <1>2 DEF CallsUseCurrentData, IsCurrent, Replaced
  <2>1. call[t].data \in DOMAIN data
    BY CallDataExists
  <2>2. IsCurrent(call[t].data)
    BY DEF DataInv, CallsUseCurrentData
  <2>3. ~data[call[t].data].freed
    BY <1>1, <2>1
  <2> QED
    BY <1>1, <2>1, <2>2, <2>3 DEF IsCurrent, Replaced
<1>10. ServerStep
  BY DEF ServerStep
<1> QED
  BY <1>5, <1>6, <1>7, <1>8, <1>9, <1>10, ServerStepCauses DEF DataInv

\* The slot of released data is given up in two writes.
LEMMA ClearData ==
    ASSUME TableInv, RefInv, DataInv, NotDelivered, ub = "none",
           ClearOwner \/ ClearSlot
    PROVE  DataInv'
<1> PICK i \in Slots : i = srv.slot
  BY DEF ClearOwner, ClearSlot, TableInv, ServerHolds
<1>1. /\ data' = data /\ srv'.at \in {"clearSlot", "release"}
      /\ srv.at \in {"clearOwner", "clearSlot"}
      /\ ~slot'[i].owner
      /\ \A j \in Slots : j # i => /\ slot'[j].owner = slot[j].owner
                                   /\ slot'[j].data = slot[j].data
                                   /\ slot'[j].caller = slot[j].caller
  <2>1. CASE ClearOwner
    <3>1. \A j \in Slots : slot[j].owner \in BOOLEAN /\ slot'[j].owner \in BOOLEAN
      BY <2>1, ClearOwnerInvariant DEF TableInv, TypeOK, JumpTableItem
    <3> QED
      BY <2>1, <3>1, ClearOwnerWrites
  <2>2. CASE ClearSlot
    BY <2>2, ClearSlotWrites
  <2> QED
    BY <2>1, <2>2
<1>2. /\ srv'.cd = srv.cd /\ srv'.object = srv.object
      /\ srv'.closing = srv.closing /\ srv'.functions = srv.functions
      /\ Releasing /\ Releasing'
      /\ UNCHANGED <<client, objRefs, held, call, foreign, dropped>>
  BY ReleaseStepWrites
<1>3. /\ slot[i].data # Null /\ data[slot[i].data].freed
      /\ slot[i].data \in DOMAIN data
  BY <1>1, SlotData DEF RefInv, DataFollowSlots
<1>4. DroppedHold'
  BY <1>1, <1>2 DEF DataInv, DroppedHold
<1>5. DataHaveHolder'
  BY <1>1, <1>2, HolderFrame DEF DataInv, Refs, Serves
<1>6. FunctionsKeepTheirSlots'
  <2> SUFFICES ASSUME NEW f \in held \cup srv.functions, f.given \in Data
               PROVE  KeepsItsSlot(f)'
    BY <1>2 DEF FunctionsKeepTheirSlots, KeepsItsSlot
  <2>1. KeepsItsSlot(f) /\ f.slot \in Slots
    BY DEF DataInv, FunctionsKeepTheirSlots, TableInv, TypeOK, ServerRecord,
       Function
  <2>2. f.slot = i => f.given \in dropped
    <3> SUFFICES ASSUME f.slot = i, f.given \notin dropped PROVE FALSE
      OBVIOUS
    <3>1. /\ slot[i].owner /\ GivenBefore(f.given, slot[i].data)
          /\ f.given \in DOMAIN data
      BY <2>1, GivenExists DEF KeepsItsSlot
    <3>2. slot[i].data \in dropped
      BY <1>3 DEF DataInv, DroppedHold
    <3> QED
      BY <1>3, <3>1, <3>2 DEF DataInv, DroppedHold, GivenBefore
  <2> QED
    BY <1>1, <1>2, <2>1, <2>2 DEF KeepsItsSlot, GivenBefore
<1>7. CallsFollowFunctions'
  BY <1>1, <1>2, CallsFollowFrame DEF DataInv
<1>8. CallsUseCurrentData'
  <2> SUFFICES ASSUME NEW t \in Threads, call[t].data # Null,
                      ~data[call[t].data].freed
               PROVE  \/ \E j \in Slots : slot'[j].owner
                                          /\ slot'[j].data = call[t].data
                      \/ \E q \in DOMAIN data :
                            q > call[t].data
                            /\ data[q].caller = data[call[t].data].caller
    BY <1>1, <1>2 DEF CallsUseCurrentData, IsCurrent, Replaced
  <2>1. IsCurrent(call[t].data)
    BY DEF DataInv, CallsUseCurrentData
  <2> QED
    BY <1>1, <1>3, <2>1 DEF IsCurrent, Replaced
<1>9. ServerStep
  BY DEF ServerStep
<1> QED
  BY <1>4, <1>5, <1>6, <1>7, <1>8, <1>9, ServerStepCauses DEF DataInv

\* What a step of a call leaves to be shown.
CallStepHolds ==
    /\ CallsFollowFunctions' /\ CallsUseCurrentData' /\ TableCauses'
    /\ StrayCallsComeFromReleases' /\ ClosedConnectionsAreForgotten'

CallStepFrame == UNCHANGED <<client, slot, data, registry, objRefs, active,
                             handlers, held, srv, opened, dropped, lost,
                             foreign>>

LEMMA CallUpdateData ==
    ASSUME TypeOK, DataInv, CallStepFrame, NEW t \in Threads,
           NEW k \in CallRecord, call' = [call EXCEPT ![t] = k],
           FollowsFunction(k), IsCurrent(k.data)
    PROVE  CallsFollowFunctions' /\ CallsUseCurrentData'
<1>1. call'[t] = k /\ \A u \in Threads : u # t => call'[u] = call[u]
  BY DEF TypeOK
<1>2. \A u \in Threads : FollowsFunction(call[u]) /\ IsCurrent(call[u].data)
  BY DEF DataInv, CallsFollowFunctions, CallsUseCurrentData
<1>3. ASSUME NEW u \in Threads
      PROVE  FollowsFunction(call[u])' /\ IsCurrent(call[u].data)'
  <2>1. PICK m \in CallRecord : m = call'[u]
    BY <1>1 DEF TypeOK
  <2>2. FollowsFunction(m) /\ IsCurrent(m.data)
    BY <1>1, <1>2, <2>1
  <2>3. FollowsFunction(m)' /\ IsCurrent(m.data)'
    BY <2>2 DEF FollowsFunction, IsCurrent, GivenBefore, Replaced,
       CallStepFrame
  <2> QED
    BY <2>1, <2>3 DEF FollowsFunction, IsCurrent, GivenBefore, Replaced
<1> QED
  BY <1>3 DEF CallsFollowFunctions, CallsUseCurrentData

LEMMA GotoHolds ==
    ASSUME TypeOK, DataInv, CallStepFrame, NEW t \in Threads,
           NEW at \in CallSteps, Goto(t, at), call[t].at # "idle",
           call[t].given \in Data,
           at \in {"connection", "use"} => call[t].at = "connection"
    PROVE  CallsFollowFunctions' /\ CallsUseCurrentData'
<1> PICK k \in CallRecord : k = [call[t] EXCEPT !.at = at]
  BY DEF TypeOK, CallRecord
<1>1. /\ k.at = at /\ k.slot = call[t].slot /\ k.given = call[t].given
      /\ k.data = call[t].data
  BY DEF TypeOK, CallRecord
<1>2. call' = [call EXCEPT ![t] = k]
  BY DEF Goto, TypeOK
<1>3. FollowsFunction(call[t]) /\ IsCurrent(call[t].data)
  BY DEF DataInv, CallsFollowFunctions, CallsUseCurrentData
<1>4. FollowsFunction(k) /\ IsCurrent(k.data)
  BY <1>1, <1>3 DEF FollowsFunction
<1> QED
  BY <1>2, <1>4, CallUpdateData

LEMMA ReturnHolds ==
    ASSUME TypeOK, DataInv, CallStepFrame, NEW t \in Threads, Return(t)
    PROVE  CallsFollowFunctions' /\ CallsUseCurrentData'
<1>1. NoCall \in CallRecord /\ NoCall.at = "idle" /\ NoCall.data = Null
  BY DEF NoCall, CallRecord, CallSteps
<1>2. FollowsFunction(NoCall) /\ IsCurrent(NoCall.data)
  BY <1>1 DEF FollowsFunction, IsCurrent
<1>3. call' = [call EXCEPT ![t] = NoCall]
  BY DEF Return
<1> QED
  BY <1>1, <1>2, <1>3, CallUpdateData

LEMMA NothingDelivered ==
    ASSUME NotDelivered
    PROVE  StrayCallsComeFromReleases' /\ ClosedConnectionsAreForgotten'
<1>1. reached'.by = Null /\ reached'.given = Null /\ Null \notin Data
  BY DEF NotDelivered, Deliver, NoDelivery, Null, Data
<1> QED
  BY <1>1 DEF StrayCallsComeFromReleases, ClosedConnectionsAreForgotten

LEMMA QuietCallStep ==
    ASSUME ub = "none", UNCHANGED ub, NotDelivered,
           CallsFollowFunctions' /\ CallsUseCurrentData'
    PROVE  CallStepHolds
  BY NothingDelivered DEF CallStepHolds, TableCauses

\* The program may crash in the call of a function whose object is released.
LEMMA CrashHolds ==
    ASSUME DataInv, CallStepFrame, NotDelivered, NEW t \in Threads,
           NEW kind, Crash(kind), call[t].at # "idle",
           call[t].given \in dropped
    PROVE  CallStepHolds
<1>1. UNCHANGED <<call, slot, data, held, dropped>>
  BY DEF Crash, CallStepFrame
<1>2. TableCauses'
  BY <1>1 DEF TableCauses
<1>3. CallsFollowFunctions'
  BY <1>1 DEF DataInv, CallsFollowFunctions, FollowsFunction, GivenBefore
<1>4. CallsUseCurrentData'
  BY <1>1 DEF DataInv, CallsUseCurrentData, IsCurrent, Replaced
<1> QED
  BY <1>2, <1>3, <1>4, NothingDelivered DEF CallStepHolds

\* A call is of a function Lua holds, with all that is known of those.
LEMMA CallOfFunction ==
    ASSUME TableInv, DataInv, NEW t \in Threads, call[t].at # "idle"
    PROVE  /\ call[t].slot \in Slots
           /\ [slot |-> call[t].slot, given |-> call[t].given] \in held
           /\ call[t].given \in Data => call[t].given \in DOMAIN data
           /\ call[t].given \in Data /\ call[t].given \notin dropped =>
                 /\ slot[call[t].slot].owner
                 /\ slot[call[t].slot].data # Null
                 /\ GivenBefore(call[t].given, slot[call[t].slot].data)
<1> DEFINE f == [slot |-> call[t].slot, given |-> call[t].given]
<1>1. call[t].slot \in Slots /\ f \in held
  BY DEF TableInv, CallHolds, DataInv, CallsFollowFunctions, FollowsFunction
<1>2. f.slot = call[t].slot /\ f.given = call[t].given
  OBVIOUS
<1> HIDE DEF f
<1>3. KeepsItsSlot(f)
  BY <1>1 DEF DataInv, FunctionsKeepTheirSlots
<1>4. f.given \in Data => f.given \in DOMAIN data
  BY <1>3, GivenExists
<1> QED
  BY <1>1, <1>2, <1>3, <1>4 DEF KeepsItsSlot, f

LEMMA CallFunctionHolds ==
    ASSUME TableInv, DataInv, ub = "none", CallStepFrame, NEW t \in Threads,
           NEW f \in held, CallFunction(t, f)
    PROVE  CallStepHolds
<1>1. f \in Function /\ f = [slot |-> f.slot, given |-> f.given]
  BY DEF TableInv, TypeOK, Function
<1> PICK k \in CallRecord : k = [at |-> "name", slot |-> f.slot,
                                 given |-> f.given, data |-> Null]
  BY <1>1 DEF Function, CallRecord, CallSteps
<1>2. FollowsFunction(k) /\ IsCurrent(k.data)
  BY <1>1 DEF FollowsFunction, IsCurrent
<1>3. call' = [call EXCEPT ![t] = k] /\ NotDelivered /\ UNCHANGED ub
  BY DEF CallFunction
<1> QED
  BY <1>2, <1>3, CallUpdateData, QuietCallStep DEF TableInv

\* A function of Lua that was not given for a client leads to its own name.
LEMMA ReadNameHolds ==
    ASSUME TableInv, DataInv, ub = "none", CallStepFrame, NEW t \in Threads,
           ReadName(t)
    PROVE  CallStepHolds
<1> DEFINE name == slot[call[t].slot].name
           given == call[t].given
<1>1. /\ TypeOK /\ call[t].at = "name" /\ UNCHANGED ub
      /\ call[t].slot \in Slots
      /\ [slot |-> call[t].slot, given |-> given] \in held
  BY CallOfFunction DEF ReadName, TableInv
<1>2. given \in Data \/ (given = name /\ name # NoName)
  <2>1. CASE given \in handlers \cup ToSet(Predefined)
    <3>1. given \in Names
      BY <2>1, PredefinedNames DEF TableInv, TypeOK
    <3> QED
      BY <1>1, <2>1, <3>1, NameAssumption DEF TableInv, NamesKeepTheirSlots
  <2>2. given \in handlers \cup ToSet(Predefined) \cup Data
    BY <1>1 DEF TableInv, NamesHold
  <2> QED
    BY <2>1, <2>2
<1>3. CASE name = NoName /\ Goto(t, "owner") /\ NotDelivered
  <2>1. CallsFollowFunctions' /\ CallsUseCurrentData'
    BY <1>1, <1>2, <1>3, GotoHolds DEF CallSteps
  <2> QED
    BY <1>1, <1>3, <2>1, QuietCallStep
<1>4. CASE Return(t) /\ NotDelivered
  BY <1>1, <1>4, ReturnHolds, QuietCallStep
<1>5. CASE /\ name # NoName /\ Return(t) /\ name \in handlers \cap active
           /\ Deliver([given |-> given, by |-> name, conn |-> 0])
  <2>1. CallsFollowFunctions' /\ CallsUseCurrentData'
    BY <1>1, <1>5, ReturnHolds
  <2>2. TableCauses'
    BY <1>1 DEF TableCauses
  <2>3. reached'.given = given /\ reached'.by = name
    BY <1>5 DEF Deliver
  <2>4. name \notin Data
    BY <1>5, NameAssumption DEF TableInv, TypeOK, Data
  <2>5. given # name => given \in dropped
    <3> SUFFICES ASSUME given # name, given \notin dropped PROVE FALSE
      OBVIOUS
    <3>1. slot[call[t].slot].owner
      BY <1>1, <1>2, CallOfFunction
    <3> QED
      BY <1>1, <1>5, <3>1 DEF TableInv, TableIsConsistent
  <2>6. StrayCallsComeFromReleases'
    BY <2>3, <2>5 DEF StrayCallsComeFromReleases, CallStepFrame
  <2>7. ClosedConnectionsAreForgotten'
    BY <2>3, <2>4 DEF ClosedConnectionsAreForgotten
  <2> QED
    BY <2>1, <2>2, <2>6, <2>7 DEF CallStepHolds
<1> QED
  BY <1>3, <1>4, <1>5 DEF ReadName

LEMMA TestOwnerHolds ==
    ASSUME TableInv, DataInv, ub = "none", CallStepFrame, NEW t \in Threads,
           TestOwner(t)
    PROVE  CallStepHolds
<1>1. /\ TypeOK /\ call[t].at = "owner" /\ UNCHANGED ub /\ NotDelivered
      /\ call[t].given \in Data
  BY DEF TestOwner, TableInv, DataInv, CallsFollowFunctions, FollowsFunction
<1>2. CASE Goto(t, "load")
  BY <1>1, <1>2, GotoHolds, QuietCallStep DEF CallSteps
<1>3. CASE Return(t)
  BY <1>1, <1>3, ReturnHolds, QuietCallStep
<1> QED
  BY <1>2, <1>3 DEF TestOwner

\* The data and its slot are read together or after each other: either way
\* it is what the function was given for or was made later.
LEMMA LoadDataHolds ==
    ASSUME TableInv, RefInv, DataInv, ub = "none", CallStepFrame, NEW t \in Threads,
           LoadData(t)
    PROVE  CallStepHolds
<1> PICK i \in Slots : i = call[t].slot
  BY CallOfFunction DEF LoadData
<1>1. /\ TypeOK /\ call[t].at = "load" /\ NotDelivered
      /\ call[t].given \in Data
      /\ [slot |-> i, given |-> call[t].given] \in held
      /\ call[t].given \notin dropped =>
            /\ slot[i].owner /\ slot[i].data # Null
            /\ GivenBefore(call[t].given, slot[i].data)
  <2>1. call[t].given \in Data
    BY DEF LoadData, DataInv, CallsFollowFunctions, FollowsFunction
  <2> QED
    BY <2>1, CallOfFunction DEF LoadData, TableInv
<1>2. CASE ~slot[i].owner /\ Crash("nullOwner")
  BY <1>1, <1>2, CrashHolds
<1>3. CASE call' = [call EXCEPT ![t].at = "connection",
                                ![t].data = slot[i].data] /\ UNCHANGED ub
  <2> PICK k \in CallRecord :
        k = [call[t] EXCEPT !.at = "connection", !.data = slot[i].data]
    <3>1. call[t] \in CallRecord /\ slot[i].data \in Data \cup {Null}
      BY <1>1 DEF TypeOK, JumpTableItem
    <3>2. [call[t] EXCEPT !.at = "connection", !.data = slot[i].data]
             \in CallRecord
      BY <3>1 DEF CallRecord, CallSteps
    <3> QED
      BY <3>2
  <2>1. /\ k.at = "connection" /\ k.data = slot[i].data
        /\ k.given = call[t].given /\ k.slot = i
    BY <1>1 DEF TypeOK, CallRecord
  <2>2. call' = [call EXCEPT ![t] = k]
    BY <1>1, <1>3 DEF TypeOK
  <2>3. FollowsFunction(k)
    BY <1>1, <2>1 DEF FollowsFunction
  <2>4. IsCurrent(k.data)
    <3>1. CASE slot[i].owner
      BY <2>1, <3>1 DEF IsCurrent
    <3>2. CASE ~slot[i].owner /\ slot[i].data # Null
      <4>1. srv.at = "clearSlot" /\ srv.slot = i
        BY <3>2 DEF TableInv, SlotsHold
      <4>2. data[slot[i].data].freed
        BY <4>1 DEF RefInv, DataFollowSlots
      <4> QED
        BY <2>1, <4>2 DEF IsCurrent
    <3> QED
      BY <2>1, <3>1, <3>2 DEF IsCurrent
  <2>5. CallsFollowFunctions' /\ CallsUseCurrentData'
    BY <1>1, <2>2, <2>3, <2>4, CallUpdateData
  <2> QED
    BY <1>1, <1>3, <2>5, QuietCallStep
<1> QED
  BY <1>2, <1>3 DEF LoadData

\* What a call uses is freed only if what it was given for is dropped.
LEMMA FreedIsDropped ==
    ASSUME TableInv, DataInv, NEW t \in Threads,
           call[t].at \in {"connection", "use"},
           call[t].data = Null \/ data[call[t].data].freed
    PROVE  call[t].given \in dropped
<1> DEFINE r == call[t].data
           g == call[t].given
<1> SUFFICES ASSUME g \notin dropped PROVE FALSE
  OBVIOUS
<1>1. r # Null /\ GivenBefore(g, r) /\ g \in Data
  BY DEF DataInv, CallsFollowFunctions, FollowsFunction
<1>2. r \in DOMAIN data /\ g \in DOMAIN data
  BY <1>1, CallDataExists, CallOfFunction
<1>3. r \in dropped
  BY <1>1, <1>2 DEF DataInv, DroppedHold
<1> QED
  BY <1>1, <1>2, <1>3 DEF DataInv, DroppedHold, GivenBefore

LEMMA ReadConnectionHolds ==
    ASSUME TableInv, DataInv, ub = "none", CallStepFrame, NEW t \in Threads,
           ReadConnection(t)
    PROVE  CallStepHolds
<1>1. /\ TypeOK /\ call[t].at = "connection" /\ NotDelivered
      /\ call[t].given \in Data
  BY DEF ReadConnection, TableInv, DataInv, CallsFollowFunctions,
     FollowsFunction
<1>2. ASSUME NEW kind, Crash(kind),
             call[t].data = Null \/ data[call[t].data].freed
      PROVE  CallStepHolds
  BY <1>1, <1>2, FreedIsDropped, CrashHolds
<1>3. CASE Goto(t, "use") /\ UNCHANGED ub
  BY <1>1, <1>3, GotoHolds, QuietCallStep DEF CallSteps
<1>4. CASE Return(t) /\ UNCHANGED ub
  BY <1>1, <1>4, ReturnHolds, QuietCallStep
<1> QED
  BY <1>2, <1>3, <1>4 DEF ReadConnection

\* The call reaches a client.
LEMMA UseDataHolds ==
    ASSUME TableInv, RefInv, DataInv, ub = "none", CallStepFrame,
           NEW t \in Threads, UseData(t)
    PROVE  CallStepHolds
<1> PICK r \in DOMAIN data : r = call[t].data /\ r \in Data
  BY CallDataExists DEF UseData, TableInv, CallHolds
<1> DEFINE g == call[t].given
<1>1. /\ TypeOK /\ call[t].at = "use" /\ g \in Data
      /\ g \notin dropped => GivenBefore(g, r)
      /\ r # Null
  BY DEF UseData, TableInv, DataInv, CallsFollowFunctions, FollowsFunction,
     CallHolds
<1>2. CASE data[r].freed /\ Crash("freedData") /\ NotDelivered
  BY <1>1, <1>2, FreedIsDropped, CrashHolds
<1>3. CASE Return(t) /\ NotDelivered /\ UNCHANGED ub
  BY <1>1, <1>3, ReturnHolds, QuietCallStep
<1>4. CASE /\ ~data[r].freed /\ Open(data[r].cd) /\ Return(t) /\ UNCHANGED ub
           /\ Deliver([given |-> g, by |-> r, conn |-> client[data[r].cd]])
  <2>1. CallsFollowFunctions' /\ CallsUseCurrentData'
    BY <1>1, <1>4, ReturnHolds
  <2>2. TableCauses'
    BY <1>4 DEF TableCauses
  <2>3. reached'.given = g /\ reached'.by = r
        /\ reached'.conn = client[data[r].cd]
    BY <1>4 DEF Deliver
  <2>4. UNCHANGED <<data, dropped, foreign>>
    BY DEF CallStepFrame
  <2>5. StrayCallsComeFromReleases'
    <3>1. g \in DOMAIN data
      BY <1>1, CallOfFunction
    <3>2. g \in Nat /\ r \in Nat
      BY <3>1, DataType DEF TableInv
    <3> QED
      BY <1>1, <2>3, <2>4, <3>2 DEF StrayCallsComeFromReleases, GivenBefore
  <2>6. \/ client[data[r].cd] = data[r].conn
        \/ data[r].caller[1] = Global
        \/ Replaced(r) /\ r \in dropped
        \/ foreign
    <3> SUFFICES ASSUME ~foreign, data[r].caller[1] # Global,
                        ~(Replaced(r) /\ r \in dropped)
                 PROVE  client[data[r].cd] = data[r].conn
      OBVIOUS
    <3>1. Serves(data[r]) => client[data[r].cd] = data[r].conn
      BY <1>4 DEF RefInv, ServerIsOrderly, Serves
    <3>2. CASE r \notin dropped
      BY <3>1, <3>2 DEF DataInv, DataHaveHolder
    <3>3. CASE ~Replaced(r)
      <4>1. IsCurrent(r)
        BY DEF DataInv, CallsUseCurrentData
      <4>2. PICK i \in Slots : slot[i].owner /\ slot[i].data = r
        BY <1>1, <1>4, <3>3, <4>1 DEF IsCurrent
      <4>3. data[r].caller = slot[i].caller
        BY <1>1, <4>2 DEF RefInv, DataFollowSlots
      <4>4. Serves(data[r])
        BY <1>1, <4>2, <4>3 DEF RefInv, SlotsFollowTheirObject, Serves
      <4> QED
        BY <3>1, <4>4
    <3> QED
      BY <3>2, <3>3
  <2>7. ClosedConnectionsAreForgotten'
    BY <2>3, <2>4, <2>6 DEF ClosedConnectionsAreForgotten, Replaced
  <2> QED
    BY <2>1, <2>2, <2>5, <2>7 DEF CallStepHolds
<1> QED
  BY <1>2, <1>3, <1>4 DEF UseData

LEMMA QuikStepData ==
    ASSUME TableInv, RefInv, DataInv, ub = "none", NEW t \in Threads,
           QuikStep(t)
    PROVE  DataInv'
<1>1. CallStepFrame
  BY DEF QuikStep, CallStepFrame
<1>2. CallStepHolds
  BY <1>1, CallFunctionHolds, ReadNameHolds, TestOwnerHolds, LoadDataHolds,
     ReadConnectionHolds, UseDataHolds DEF QuikStep
<1>3. DroppedHold'
  BY <1>1 DEF CallStepFrame, DataInv, DroppedHold, Releasing
<1>4. DataHaveHolder'
  BY <1>1, HolderFrame DEF CallStepFrame, DataInv, Refs, Serves
<1>5. FunctionsKeepTheirSlots'
  BY <1>1 DEF CallStepFrame, DataInv, FunctionsKeepTheirSlots, KeepsItsSlot,
     GivenBefore
<1> QED
  BY <1>2, <1>3, <1>4, <1>5 DEF DataInv, CallStepHolds

LEMMA InitData == Init => DataInv
<1> SUFFICES ASSUME Init PROVE DataInv
  OBVIOUS
<1>1. TableInv
  BY InitTable
<1>2. /\ data = <<>> /\ DOMAIN data = {} /\ dropped = {} /\ srv = SrvIdle
      /\ \A t \in Threads : call[t].at = "idle" /\ call[t].data = Null
      /\ \A i \in Slots : ~slot[i].owner
      /\ ub = "none" /\ reached = NoDelivery
  BY DEF Init, NoCall, FreeItem
<1>3. DroppedHold
  BY <1>2, IdleServer DEF DroppedHold, Releasing
<1>4. DataHaveHolder
  BY <1>2 DEF DataHaveHolder
<1>5. FunctionsKeepTheirSlots
  <2>1. \A f \in held : f.given \in ToSet(Predefined)
    BY LenProperties DEF Init, ToSet
  <2>2. \A f \in held : f.given \notin Data
    BY <2>1, PredefinedNames, NameAssumption DEF Data
  <2> QED
    BY <1>2, <2>2, IdleServer DEF FunctionsKeepTheirSlots, KeepsItsSlot
<1>6. CallsFollowFunctions /\ CallsUseCurrentData /\ TableCauses
  BY <1>2 DEF CallsFollowFunctions, FollowsFunction, CallsUseCurrentData,
     IsCurrent, TableCauses
<1>7. StrayCallsComeFromReleases /\ ClosedConnectionsAreForgotten
  BY <1>2 DEF StrayCallsComeFromReleases, ClosedConnectionsAreForgotten,
     NoDelivery, Data, Null
<1> QED
  BY <1>3, <1>4, <1>5, <1>6, <1>7 DEF DataInv

LEMMA StepData == TableInv /\ RefInv /\ DataInv /\ [Next]_vars => DataInv'
<1> SUFFICES ASSUME TableInv, RefInv, DataInv, [Next]_vars PROVE DataInv'
  OBVIOUS
<1>1. CASE UNCHANGED vars
  <2>1. UNCHANGED <<client, slot, data, objRefs, held, call, srv, dropped,
                    foreign, ub, reached>>
    BY <1>1 DEF vars, history
  <2>2. DroppedHold' /\ DataHaveHolder'
    BY <2>1 DEF DataInv, DroppedHold, Releasing, DataHaveHolder, Refs, Serves
  <2>3. FunctionsKeepTheirSlots' /\ CallsFollowFunctions'
    BY <2>1 DEF DataInv, FunctionsKeepTheirSlots, KeepsItsSlot, GivenBefore,
       CallsFollowFunctions, FollowsFunction
  <2>4. CallsUseCurrentData' /\ TableCauses'
    BY <2>1 DEF DataInv, CallsUseCurrentData, IsCurrent, Replaced, TableCauses
  <2>5. StrayCallsComeFromReleases' /\ ClosedConnectionsAreForgotten'
    BY <2>1 DEF DataInv, StrayCallsComeFromReleases,
       ClosedConnectionsAreForgotten, Replaced
  <2> QED
    BY <2>2, <2>3, <2>4, <2>5 DEF DataInv
<1>2. CASE ub = "none" /\ ServerStep /\ NotDelivered
  BY <1>2, ConnectData, CloseData, RegisterData, InvokeData, DeleteData,
     PushCallableData, SetCustomDataData, FinishInvokeData, TakeLastData,
     ReleaseDataData, ClearData, UnrefData DEF ServerStep
<1>3. CASE ub = "none" /\ \E t \in Threads : QuikStep(t)
  BY <1>3, QuikStepData
<1> QED
  BY <1>1, <1>2, <1>3 DEF Next

LEMMA DataInvariant == Spec => []DataInv
  BY InitData, StepData, TableInvariant, RefInvariant, PTL DEF Spec

\* Whatever order the unlocked reads and writes of the table come in: the
\* program goes wrong only in the call of a function whose object has been
\* released, or over a reference that a client used and did not hold.
THEOREM TableReadsAreSafe == Spec => []UndefinedBehaviourCauses
<1>1. RefInv /\ DataInv => UndefinedBehaviourCauses
  BY DEF RefInv, RegistryCauses, DataInv, TableCauses,
     UndefinedBehaviourCauses
<1> QED
  BY <1>1, RefInvariant, DataInvariant, PTL

\* However often slots change hands: a call reaches what its function was
\* given for, or what the same caller was given later, until the object is
\* released.
THEOREM CallsReachTheirFunction == Spec => []StrayCallsComeFromReleases
<1>1. DataInv => StrayCallsComeFromReleases
  BY DEF DataInv
<1> QED
  BY <1>1, DataInvariant, PTL

\* However often addresses of connections are used again: a call of a method
\* goes to the connection that made the data, but for the two exceptions the
\* property names.
THEOREM CallsReachTheirConnection == Spec => []ClosedConnectionsAreForgotten
<1>1. DataInv => ClosedConnectionsAreForgotten
  BY DEF DataInv
<1> QED
  BY <1>1, DataInvariant, PTL

=============================================================================
