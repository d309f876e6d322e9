------------------------- MODULE SubscriptionsProofs -------------------------
(* Proofs about Subscriptions for every set of connections, classes,       *)
(* securities, parameters, ids and values.                                 *)
EXTENDS SubscriptionsImpl, TLAPS

\* A tree with the shape TreeIsMinimal asks for.
Minimal(d) ==
    d \in Db /\ EveryNodeHasAParent(d) /\ NoNodeIsEmpty(d) /\ OneEntryEach(d)

\* A tree in the middle of delConsumer or delQuotesConsumer: the nodes of the
\* three sets may be empty.
MinimalExcept(d, ks, ss, clss) ==
    /\ d \in Db
    /\ EveryNodeHasAParent(d)
    /\ OneEntryEach(d)
    /\ \A k \in d.params \ ks : ~ParamIsEmpty(d, k)
    /\ \A s \in d.secs \ ss : ~SecIsEmpty(d, s)
    /\ \A cls \in d.classes \ clss : ~ClassIsEmpty(d, cls)

\* Every entry of the consumer maps is of a connection in the set.
EntriesIn(d, conns) ==
    /\ \A x \in d.consumers : x[2] \in conns
    /\ \A x \in d.quotes : x[2] \in conns

\* The tree e has lost entries, if any, and gained none.
EntriesFrom(e, d) == e.consumers \subseteq d.consumers /\ e.quotes \subseteq d.quotes

\* Only parameters in the tree have a value.
Clean(d) == \A k \in ParamKeys \ d.params : d.value[k] = NoValue

\* The parameters of e are in d too, with the same values.
ValuesFrom(e, d) ==
    /\ \A k \in e.params : k \in d.params /\ e.value[k] = d.value[k]
    /\ Clean(d) => Clean(e)

\* The tree e has the entries of d, on nodes that are left of those of d.
SameEntries(e, d) ==
    /\ e.consumers = d.consumers
    /\ e.quotes = d.quotes
    /\ ValuesFrom(e, d)

\* The invariant: the four parts depend on one another and are proved together.
IInv == TypeOK /\ TreeIsMinimal /\ ConsumersAreLive /\ LoopsAreSafe

-----------------------------------------------------------------------------
(* Paths and nodes.                                                        *)

\* The path of a parameter contains those of its security and its class.
LEMMA KeyParts ==
    ASSUME NEW k \in ParamKeys
    PROVE  /\ SecOf(k) \in SecKeys
           /\ SecOf(k)[1] = k[1]
           /\ k[1] \in Classes
           /\ k = <<k[1], k[2], k[3]>>
           /\ MarketKey(k) \in MarketKeys
  BY DEF ParamKeys, SecKeys, SecOf, MarketKeys

\* An entry consists of a path, a connection and an id.
LEMMA EntryParts ==
    /\ \A x \in ParamKeys \X Conns \X Ids :
          x[1] \in ParamKeys /\ x[2] \in Conns /\ x[3] \in Ids
          /\ x = <<x[1], x[2], x[3]>>
    /\ \A x \in SecKeys \X Conns \X Ids :
          x[1] \in SecKeys /\ x[2] \in Conns /\ x[3] \in Ids
          /\ x = <<x[1], x[2], x[3]>>
  OBVIOUS

\* The empty tree, with which the server starts.
LEMMA EmptyDbIsMinimal == Minimal(EmptyDb) /\ \A conns : EntriesIn(EmptyDb, conns)
  BY DEF Minimal, EmptyDb, Db, EveryNodeHasAParent, NoNodeIsEmpty, OneEntryEach,
     EntriesIn

-----------------------------------------------------------------------------
(* addConsumer and addQuotesConsumer.                                      *)

\* A subscription creates no node that is empty or without a parent.
LEMMA AddConsumerIsMinimal ==
    ASSUME NEW d, Minimal(d), NEW k \in ParamKeys, NEW c \in Conns, NEW id \in Ids
    PROVE  Minimal(AddConsumer(d, k, c, id))
<1> DEFINE e == AddConsumer(d, k, c, id)
<1> USE DEF Minimal
<1>1. /\ e.classes = d.classes \cup {k[1]}
      /\ e.secs = d.secs \cup {SecOf(k)}
      /\ e.params = d.params \cup {k}
      /\ e.quotes = d.quotes
      /\ e.consumers = IF HasConsumer(d, k, c) THEN d.consumers
                       ELSE d.consumers \cup {<<k, c, id>>}
  BY DEF AddConsumer, Db
<1>2. /\ d.consumers \subseteq e.consumers
      /\ e.consumers \subseteq d.consumers \cup {<<k, c, id>>}
      /\ HasConsumer(d, k, c) => e.consumers = d.consumers
      /\ \E i \in Ids : <<k, c, i>> \in e.consumers
  BY <1>1 DEF HasConsumer
<1> HIDE DEF e
<1>3. e \in Db
  <2>1. e.consumers \in SUBSET (ParamKeys \X Conns \X Ids)
    BY <1>2 DEF Db
  <2>2. e.value \in [ParamKeys -> Values \cup {NoValue}]
    <3>1. e.value = [d.value EXCEPT ![k] = IF k \in d.params THEN @ ELSE NoValue]
      BY DEF e, AddConsumer, Db
    <3> QED
      BY <3>1 DEF Db
  <2>3. e = [classes |-> e.classes, secs |-> e.secs, params |-> e.params,
             value |-> e.value, consumers |-> e.consumers, quotes |-> e.quotes]
    <3>1. e \in [classes : {e.classes}, secs : {e.secs}, params : {e.params},
                 value : {e.value}, consumers : {e.consumers}, quotes : {e.quotes}]
      BY DEF e, AddConsumer, Db
    <3> QED
      BY <3>1
  <2>4. e.classes \in SUBSET Classes /\ e.secs \in SUBSET SecKeys
        /\ e.params \in SUBSET ParamKeys /\ e.quotes \in SUBSET (SecKeys \X Conns \X Ids)
    BY <1>1, KeyParts DEF Db
  <2> QED
    BY <2>1, <2>2, <2>3, <2>4 DEF Db
<1>4. EveryNodeHasAParent(e)
  BY <1>1, <1>2, KeyParts DEF EveryNodeHasAParent
<1>5. NoNodeIsEmpty(e)
  <2>1. ~ParamIsEmpty(e, k)
    BY <1>2 DEF ParamIsEmpty
  <2> QED
    BY <1>1, <1>2, <2>1, KeyParts
       DEF NoNodeIsEmpty, ParamIsEmpty, SecIsEmpty, ClassIsEmpty
<1>6. OneEntryEach(e)
  <2>1. CASE HasConsumer(d, k, c)
    BY <1>1, <1>2, <2>1 DEF OneEntryEach
  <2>2. CASE ~HasConsumer(d, k, c)
    <3>1. \A x \in d.consumers : ~(x[1] = k /\ x[2] = c)
      BY <2>2, EntryParts DEF HasConsumer, Db
    <3> QED
      BY <1>1, <1>2, <3>1 DEF OneEntryEach
  <2> QED
    BY <2>1, <2>2
<1> QED
  BY <1>3, <1>4, <1>5, <1>6 DEF e

LEMMA AddQuotesConsumerIsMinimal ==
    ASSUME NEW d, Minimal(d), NEW s \in SecKeys, NEW c \in Conns, NEW id \in Ids
    PROVE  Minimal(AddQuotesConsumer(d, s, c, id))
<1> DEFINE e == AddQuotesConsumer(d, s, c, id)
<1> USE DEF Minimal
<1>1. /\ e.classes = d.classes \cup {s[1]}
      /\ e.secs = d.secs \cup {s}
      /\ e.params = d.params
      /\ e.consumers = d.consumers
      /\ e.quotes = IF HasQuotesConsumer(d, s, c) THEN d.quotes
                    ELSE d.quotes \cup {<<s, c, id>>}
  BY DEF AddQuotesConsumer, Db
<1>2. /\ d.quotes \subseteq e.quotes
      /\ e.quotes \subseteq d.quotes \cup {<<s, c, id>>}
      /\ HasQuotesConsumer(d, s, c) => e.quotes = d.quotes
      /\ \E i \in Ids : <<s, c, i>> \in e.quotes
  BY <1>1 DEF HasQuotesConsumer
<1> HIDE DEF e
<1>3. e \in Db
  <2>1. e.quotes \in SUBSET (SecKeys \X Conns \X Ids)
    BY <1>2 DEF Db
  <2>2. e = [classes |-> e.classes, secs |-> e.secs, params |-> e.params,
             value |-> d.value, consumers |-> e.consumers, quotes |-> e.quotes]
    <3>1. e \in [classes : {e.classes}, secs : {e.secs}, params : {e.params},
                 value : {d.value}, consumers : {e.consumers}, quotes : {e.quotes}]
      BY DEF e, AddQuotesConsumer, Db
    <3> QED
      BY <3>1
  <2>3. e.classes \in SUBSET Classes /\ e.secs \in SUBSET SecKeys
    BY <1>1 DEF Db, SecKeys
  <2> QED
    BY <1>1, <2>1, <2>2, <2>3 DEF Db
<1>4. EveryNodeHasAParent(e)
  BY <1>1, <1>2 DEF EveryNodeHasAParent
<1>5. NoNodeIsEmpty(e)
  <2>1. ~SecIsEmpty(e, s)
    BY <1>2 DEF SecIsEmpty
  <2> QED
    BY <1>1, <1>2, <2>1
       DEF NoNodeIsEmpty, ParamIsEmpty, SecIsEmpty, ClassIsEmpty
<1>6. OneEntryEach(e)
  <2>1. CASE HasQuotesConsumer(d, s, c)
    BY <1>1, <1>2, <2>1 DEF OneEntryEach
  <2>2. CASE ~HasQuotesConsumer(d, s, c)
    <3>1. \A x \in d.quotes : ~(x[1] = s /\ x[2] = c)
      BY <2>2, EntryParts DEF HasQuotesConsumer, Db
    <3> QED
      BY <1>1, <1>2, <3>1 DEF OneEntryEach
  <2> QED
    BY <2>1, <2>2
<1> QED
  BY <1>3, <1>4, <1>5, <1>6 DEF e

\* The only new entry is of the connection that subscribes.
LEMMA AddedEntries ==
    ASSUME NEW d \in Db, NEW conns, NEW c \in conns, NEW id, EntriesIn(d, conns)
    PROVE  /\ \A k \in ParamKeys : EntriesIn(AddConsumer(d, k, c, id), conns)
           /\ \A s \in SecKeys : EntriesIn(AddQuotesConsumer(d, s, c, id), conns)
  BY DEF EntriesIn, AddConsumer, AddQuotesConsumer, Db

-----------------------------------------------------------------------------
(* delConsumer, delQuotesConsumer and clearAllSubscriptions.               *)

\* Deleting the parameters that have become empty leaves at most their
\* security empty; the two lemmas that follow go up to the class.
LEMMA PruneParamIsMinimal ==
    ASSUME NEW d, NEW k \in ParamKeys, MinimalExcept(d, {k}, {}, {})
    PROVE  /\ MinimalExcept(PruneParam(d, k), {}, {SecOf(k)}, {})
           /\ SameEntries(PruneParam(d, k), d)
<1> USE DEF MinimalExcept
<1>1. CASE k \in d.params /\ ParamIsEmpty(d, k)
  <2> DEFINE e == DeleteParam(d, k)
  <2>1. e = PruneParam(d, k)
    BY <1>1 DEF PruneParam
  <2>2. /\ e.classes = d.classes /\ e.secs = d.secs
        /\ e.params = d.params \ {k} /\ e.quotes = d.quotes
        /\ \A j \in ParamKeys : e.value[j] = IF j = k THEN NoValue ELSE d.value[j]
        /\ e.consumers = {x \in d.consumers : x[1] # k}
    BY DEF DeleteParam, Db
  <2>3. e \in Db
    BY DEF DeleteParam, Db
  <2>4. e.consumers = d.consumers
    BY <1>1, <2>2 DEF ParamIsEmpty
  <2>5. EveryNodeHasAParent(e) /\ OneEntryEach(e)
    BY <2>2 DEF EveryNodeHasAParent, OneEntryEach
  <2>6. \A j \in e.params : ~ParamIsEmpty(e, j)
    BY <2>2, <2>4 DEF ParamIsEmpty
  <2>7. /\ \A s \in e.secs \ {SecOf(k)} : ~SecIsEmpty(e, s)
        /\ \A cls \in e.classes : ~ClassIsEmpty(e, cls)
    BY <2>2 DEF SecIsEmpty, ClassIsEmpty
  <2>8. ValuesFrom(e, d)
    BY <2>2, <2>3 DEF ValuesFrom, Clean, Db
  <2> QED
    BY <2>1, <2>2, <2>3, <2>4, <2>5, <2>6, <2>7, <2>8 DEF SameEntries
<1>2. CASE ~(k \in d.params /\ ParamIsEmpty(d, k))
  BY <1>2 DEF PruneParam, SameEntries, ValuesFrom
<1> QED
  BY <1>1, <1>2

LEMMA PruneSecIsMinimal ==
    ASSUME NEW d, NEW s \in SecKeys, MinimalExcept(d, {}, {s}, {})
    PROVE  /\ MinimalExcept(PruneSec(d, s), {}, {}, {s[1]})
           /\ SameEntries(PruneSec(d, s), d)
<1> USE DEF MinimalExcept
<1>1. CASE s \in d.secs /\ SecIsEmpty(d, s)
  <2> DEFINE e == DeleteSec(d, s)
  <2>1. e = PruneSec(d, s)
    BY <1>1 DEF PruneSec
  <2>2. /\ e.classes = d.classes /\ e.secs = d.secs \ {s}
        /\ e.value = d.value
        /\ e.params = {k \in d.params : SecOf(k) # s}
        /\ e.consumers = {x \in d.consumers : SecOf(x[1]) # s}
        /\ e.quotes = {x \in d.quotes : x[1] # s}
    BY DEF DeleteSec, Db
  <2>3. e \in Db
    BY DEF DeleteSec, Db
  <2>4. /\ e.params = d.params /\ e.consumers = d.consumers
        /\ e.quotes = d.quotes
    BY <1>1, <2>2 DEF SecIsEmpty, EveryNodeHasAParent
  <2>5. EveryNodeHasAParent(e) /\ OneEntryEach(e)
    BY <2>2 DEF EveryNodeHasAParent, OneEntryEach
  <2>6. /\ \A k \in e.params : ~ParamIsEmpty(e, k)
        /\ \A z \in e.secs : ~SecIsEmpty(e, z)
    BY <2>2, <2>4 DEF ParamIsEmpty, SecIsEmpty
  <2>7. \A cls \in e.classes \ {s[1]} : ~ClassIsEmpty(e, cls)
    BY <2>2 DEF ClassIsEmpty
  <2> QED
    BY <2>1, <2>2, <2>3, <2>4, <2>5, <2>6, <2>7 DEF SameEntries, ValuesFrom, Clean
<1>2. CASE ~(s \in d.secs /\ SecIsEmpty(d, s))
  BY <1>2 DEF PruneSec, SameEntries, ValuesFrom
<1> QED
  BY <1>1, <1>2

LEMMA PruneClassIsMinimal ==
    ASSUME NEW d, NEW cls \in Classes, MinimalExcept(d, {}, {}, {cls})
    PROVE  /\ Minimal(PruneClass(d, cls))
           /\ SameEntries(PruneClass(d, cls), d)
<1> USE DEF MinimalExcept
<1>1. CASE cls \in d.classes /\ ClassIsEmpty(d, cls)
  <2> DEFINE e == DeleteClass(d, cls)
  <2>1. e = PruneClass(d, cls)
    BY <1>1 DEF PruneClass
  <2>2. /\ e.classes = d.classes \ {cls}
        /\ e.value = d.value
        /\ e.secs = {s \in d.secs : s[1] # cls}
        /\ e.params = {k \in d.params : k[1] # cls}
        /\ e.consumers = {x \in d.consumers : x[1][1] # cls}
        /\ e.quotes = {x \in d.quotes : x[1][1] # cls}
    BY DEF DeleteClass, Db
  <2>3. e \in Db
    BY DEF DeleteClass, Db
  <2>4. /\ e.secs = d.secs /\ e.params = d.params
        /\ e.consumers = d.consumers /\ e.quotes = d.quotes
    BY <1>1, <2>2, KeyParts DEF ClassIsEmpty, EveryNodeHasAParent, Db
  <2>5. EveryNodeHasAParent(e) /\ OneEntryEach(e)
    BY <1>1, <2>2, <2>4 DEF EveryNodeHasAParent, OneEntryEach, ClassIsEmpty
  <2>6. NoNodeIsEmpty(e)
    BY <2>2, <2>4 DEF NoNodeIsEmpty, ParamIsEmpty, SecIsEmpty, ClassIsEmpty
  <2> QED
    BY <2>1, <2>2, <2>3, <2>4, <2>5, <2>6
       DEF SameEntries, ValuesFrom, Clean, Minimal
<1>2. CASE ~(cls \in d.classes /\ ClassIsEmpty(d, cls))
  BY <1>2 DEF PruneClass, SameEntries, ValuesFrom, Minimal, NoNodeIsEmpty
<1> QED
  BY <1>1, <1>2

\* An unsubscription deletes every node it has emptied and no other.
LEMMA DelConsumerIsMinimal ==
    ASSUME NEW d, Minimal(d), NEW k \in ParamKeys, NEW c
    PROVE  /\ Minimal(DelConsumer(d, k, c))
           /\ DelConsumer(d, k, c).consumers =
                 {x \in d.consumers : ~(x[1] = k /\ x[2] = c)}
           /\ DelConsumer(d, k, c).quotes = d.quotes
           /\ ValuesFrom(DelConsumer(d, k, c), d)
<1> DEFINE w == [d EXCEPT !.consumers = {x \in @ : ~(x[1] = k /\ x[2] = c)}]
           p == PruneParam(w, k)
           s == PruneSec(p, SecOf(k))
<1>1. /\ w.classes = d.classes /\ w.secs = d.secs /\ w.params = d.params
      /\ w.quotes = d.quotes /\ w \in Db /\ w.value = d.value
      /\ w.consumers = {x \in d.consumers : ~(x[1] = k /\ x[2] = c)}
  BY DEF Minimal, Db
<1>2. MinimalExcept(w, {k}, {}, {})
  BY <1>1 DEF Minimal, MinimalExcept, EveryNodeHasAParent, OneEntryEach,
     NoNodeIsEmpty, ParamIsEmpty, SecIsEmpty, ClassIsEmpty
<1>3. MinimalExcept(p, {}, {SecOf(k)}, {}) /\ SameEntries(p, w)
  BY <1>2, PruneParamIsMinimal
<1>4. MinimalExcept(s, {}, {}, {k[1]}) /\ SameEntries(s, p)
  BY <1>3, KeyParts, PruneSecIsMinimal
<1>5. Minimal(PruneClass(s, k[1])) /\ SameEntries(PruneClass(s, k[1]), s)
  BY <1>4, KeyParts, PruneClassIsMinimal
<1>6. DelConsumer(d, k, c) = PruneClass(s, k[1])
  BY DEF DelConsumer
<1>7. ValuesFrom(PruneClass(s, k[1]), d)
  <2>1. ValuesFrom(PruneClass(s, k[1]), w)
    BY <1>3, <1>4, <1>5 DEF SameEntries, ValuesFrom
  <2> QED
    BY <1>1, <2>1 DEF ValuesFrom, Clean
<1> HIDE DEF w, p, s
<1> QED
  BY <1>1, <1>3, <1>4, <1>5, <1>6, <1>7 DEF SameEntries

LEMMA DelQuotesConsumerIsMinimal ==
    ASSUME NEW d, Minimal(d), NEW s \in SecKeys, NEW c
    PROVE  /\ Minimal(DelQuotesConsumer(d, s, c))
           /\ DelQuotesConsumer(d, s, c).quotes =
                 {x \in d.quotes : ~(x[1] = s /\ x[2] = c)}
           /\ DelQuotesConsumer(d, s, c).consumers = d.consumers
           /\ ValuesFrom(DelQuotesConsumer(d, s, c), d)
<1> DEFINE w == [d EXCEPT !.quotes = {x \in @ : ~(x[1] = s /\ x[2] = c)}]
           p == PruneSec(w, s)
<1>1. /\ w.classes = d.classes /\ w.secs = d.secs /\ w.params = d.params
      /\ w.consumers = d.consumers /\ w \in Db /\ w.value = d.value
      /\ w.quotes = {x \in d.quotes : ~(x[1] = s /\ x[2] = c)}
  BY DEF Minimal, Db
<1>2. MinimalExcept(w, {}, {s}, {})
  BY <1>1 DEF Minimal, MinimalExcept, EveryNodeHasAParent, OneEntryEach,
     NoNodeIsEmpty, ParamIsEmpty, SecIsEmpty, ClassIsEmpty
<1>3. MinimalExcept(p, {}, {}, {s[1]}) /\ SameEntries(p, w)
  BY <1>2, PruneSecIsMinimal
<1>4. Minimal(PruneClass(p, s[1])) /\ SameEntries(PruneClass(p, s[1]), p)
  BY <1>3, PruneClassIsMinimal DEF SecKeys
<1>5. DelQuotesConsumer(d, s, c) = PruneClass(p, s[1])
  BY DEF DelQuotesConsumer
<1> QED
  BY <1>1, <1>3, <1>4, <1>5 DEF SameEntries, ValuesFrom, Clean

\* A disconnection removes every entry of the connection, no entry of any
\* other, and every node that this empties.
LEMMA ClearAllIsMinimal ==
    ASSUME NEW d, Minimal(d), NEW c
    PROVE  /\ Minimal(ClearAllSubscriptions(d, c))
           /\ EntriesFrom(ClearAllSubscriptions(d, c), d)
           /\ \A x \in d.consumers :
                 x \in ClearAllSubscriptions(d, c).consumers <=> x[2] # c
           /\ \A x \in d.quotes :
                 x \in ClearAllSubscriptions(d, c).quotes <=> x[2] # c
           /\ ValuesFrom(ClearAllSubscriptions(d, c), d)
<1> DEFINE e == ClearAllSubscriptions(d, c)
<1>1. /\ e.consumers = {x \in d.consumers : x[2] # c}
      /\ e.quotes = {x \in d.quotes : x[2] # c}
      /\ e.params = {k \in d.params : \E x \in e.consumers : x[1] = k}
      /\ e.secs = {s \in d.secs : \/ \E k \in e.params : SecOf(k) = s
                                  \/ \E x \in e.quotes : x[1] = s}
      /\ e.classes = {cls \in d.classes : \E s \in e.secs : s[1] = cls}
      /\ \A k \in ParamKeys :
            e.value[k] = IF k \in e.params THEN d.value[k] ELSE NoValue
  BY DEF ClearAllSubscriptions
<1>2. e \in Db
  BY DEF ClearAllSubscriptions, Minimal, Db
<1>3. EveryNodeHasAParent(e) /\ NoNodeIsEmpty(e) /\ OneEntryEach(e)
  <2> HIDE DEF e
  <2> QED
    BY <1>1 DEF Minimal, EveryNodeHasAParent, NoNodeIsEmpty, OneEntryEach,
       ParamIsEmpty, SecIsEmpty, ClassIsEmpty
<1>4. ValuesFrom(e, d)
  BY <1>1 DEF ValuesFrom, Clean, Minimal, Db
<1> QED
  BY <1>1, <1>2, <1>3, <1>4 DEF Minimal, EntriesFrom

-----------------------------------------------------------------------------
(* The parts of the invariant.                                             *)

\* What a handler does to the connections and the tree.
TreeInv ==
    /\ live \subseteq Conns
    /\ reset \subseteq live
    /\ Minimal(db)
    /\ EntriesIn(db, live)
    /\ told \in [Conns -> [ParamKeys -> Values \cup {NoValue}]]
    /\ orphaned \subseteq ParamKeys \cup SecKeys

\* What it does to everything else.
RestInv ==
    /\ requested \subseteq ParamKeys
    /\ level2 \subseteq SecKeys
    /\ market \in [MarketKeys -> Values]
    /\ posted \subseteq Events
    /\ pass \in Pass
    /\ refused \subseteq ParamKeys \cup SecKeys
    /\ ub \in {"none", "freedSecSubs"}

\* A pass for which LoopsAreSafe holds.
SafePass(p, d, conns) ==
    /\ p.kind = "params" => \A c \in p.to : HasConsumer(d, p.param, c)
    /\ p.kind = "quotes" =>
          \A c \in p.to : c \in conns /\ HasQuotesConsumer(d, p.sec, c)

\* An id is found exactly for a connection that has an entry.
LEMMA SubscriptionIdFound ==
    ASSUME NEW d, NEW k, NEW c
    PROVE  /\ SubscriptionId(d, k, c) >= 0 <=> HasConsumer(d, k, c)
           /\ QuotesSubscriptionId(d, k, c) >= 0 <=> HasQuotesConsumer(d, k, c)
<1>1. ASSUME HasConsumer(d, k, c) PROVE SubscriptionId(d, k, c) \in Nat
  BY <1>1, IdAssumption DEF SubscriptionId, HasConsumer
<1>2. ASSUME HasQuotesConsumer(d, k, c) PROVE QuotesSubscriptionId(d, k, c) \in Nat
  BY <1>2, IdAssumption DEF QuotesSubscriptionId, HasQuotesConsumer
<1>3. /\ ~HasConsumer(d, k, c) => SubscriptionId(d, k, c) = -1
      /\ ~HasQuotesConsumer(d, k, c) => QuotesSubscriptionId(d, k, c) = -1
  BY DEF SubscriptionId, QuotesSubscriptionId, NotSubscribed
<1> QED
  BY <1>1, <1>2, <1>3

LEMMA InvariantParts == IInv <=> TreeInv /\ RestInv /\ SafePass(pass, db, live)
<1>1. LoopsAreSafe <=> /\ ub \in {"none", "freedSecSubs"}
                       /\ SafePass(pass, db, live)
  BY SubscriptionIdFound DEF LoopsAreSafe, SafePass
<1>2. ConsumersAreLive <=> EntriesIn(db, live)
  BY DEF ConsumersAreLive, EntriesIn
<1>3. TypeOK /\ TreeIsMinimal <=> TypeOK /\ Minimal(db)
  BY DEF TypeOK, TreeIsMinimal, Minimal
<1> QED
  BY <1>1, <1>2, <1>3 DEF IInv, TypeOK, TreeInv, RestInv, Minimal

LEMMA InvariantPartsPrime ==
    TreeInv' /\ RestInv' /\ SafePass(pass, db, live)' => IInv'
<1>1. SafePass(pass, db, live)' /\ ub' \in {"none", "freedSecSubs"} => LoopsAreSafe'
  BY SubscriptionIdFound DEF LoopsAreSafe, SafePass
<1> QED
  BY <1>1 DEF IInv, TypeOK, TreeInv, RestInv, Minimal, TreeIsMinimal,
     ConsumersAreLive, EntriesIn

-----------------------------------------------------------------------------
(* Passes.                                                                 *)

\* The end of a turn yields a pass of the same kind with the same work left,
\* or none.
LEMMA ContinueCases ==
    ASSUME NEW p \in Pass
    PROVE  Continue(p) \in Pass /\ (Continue(p) = p \/ Continue(p).kind = "none")
  BY DEF Continue, NoPass, Pass

\* A pass over parameters starts with no connection to serve.
LEMMA ParamPassIsSafe ==
    ASSUME NEW d, NEW s \in SecKeys, NEW e, NEW conns
    PROVE  ParamPass(d, s) \in Pass /\ SafePass(ParamPass(d, s), e, conns)
<1> DEFINE p == [kind |-> "params", sec |-> s,
                 todo |-> {q \in Params : <<s[1], s[2], q>> \in d.params},
                 param |-> << >>, to |-> {}]
<1>1. p \in Pass
  BY DEF Pass
<1>2. NoPass \in Pass /\ NoPass.kind = "none"
  BY DEF NoPass, Pass
<1>3. ParamPass(d, s) \in {Continue(p), NoPass}
  BY DEF ParamPass
<1>4. Continue(p) \in Pass /\ (Continue(p) = p \/ Continue(p).kind = "none")
  BY <1>1, ContinueCases
<1>5. SafePass(p, e, conns)
  BY DEF SafePass
<1> QED
  BY <1>2, <1>3, <1>4, <1>5 DEF SafePass

\* A pass over quotes starts with the connections that have an entry.
LEMMA QuotesPassIsSafe ==
    ASSUME NEW d, NEW conns, EntriesIn(d, conns), NEW s \in SecKeys
    PROVE  QuotesPass(d, s) \in Pass /\ SafePass(QuotesPass(d, s), d, conns)
<1> DEFINE p == [kind |-> "quotes", sec |-> s, todo |-> {}, param |-> << >>,
                 to |-> QuotesConsumersList(d, s)]
<1>1. p \in Pass
  BY DEF Pass, QuotesConsumersList
<1>2. NoPass \in Pass /\ NoPass.kind = "none"
  BY DEF NoPass, Pass
<1>3. QuotesPass(d, s) \in {Continue(p), NoPass}
  BY DEF QuotesPass
<1>4. Continue(p) \in Pass /\ (Continue(p) = p \/ Continue(p).kind = "none")
  BY <1>1, ContinueCases
<1>5. SafePass(p, d, conns)
  BY DEF SafePass, QuotesConsumersList, EntriesIn, HasQuotesConsumer
<1> QED
  BY <1>2, <1>3, <1>4, <1>5 DEF SafePass

-----------------------------------------------------------------------------
(* Connections.                                                            *)

\* A send, whether it succeeds or deletes the connection, keeps the entries
\* of every other connection.
LEMMA SendKeepsTree ==
    ASSUME TreeInv, NEW c \in live, NEW d, Minimal(d), EntriesIn(d, live),
           NEW t \in [Conns -> [ParamKeys -> Values \cup {NoValue}]],
           NEW o \in SUBSET (ParamKeys \cup SecKeys),
           Send(c, d, t, o) \/ Drop(c, d, t, o)
    PROVE  /\ TreeInv'
           /\ live \ {c} \subseteq live'
           /\ \A x \in d.consumers : x[2] # c => x \in db'.consumers
           /\ \A x \in d.quotes : x[2] # c => x \in db'.quotes
<1>1. CASE Drop(c, d, t, o)
  <2> DEFINE left == ClearAllSubscriptions(d, c)
  <2>1. Minimal(left) /\ EntriesFrom(left, d)
        /\ (\A x \in d.consumers : x \in left.consumers <=> x[2] # c)
        /\ (\A x \in d.quotes : x \in left.quotes <=> x[2] # c)
    BY ClearAllIsMinimal
  <2>2. live' = live \ {c} /\ reset' = reset \ {c} /\ db' = left
        /\ told' = [t EXCEPT ![c] = Nothing]
    BY <1>1 DEF Drop
  <2>3. EntriesIn(left, live \ {c})
    BY <2>1 DEF EntriesIn, EntriesFrom
  <2>4. told' \in [Conns -> [ParamKeys -> Values \cup {NoValue}]]
    BY <2>2 DEF Nothing
  <2>5. orphaned' \subseteq ParamKeys \cup SecKeys
    BY <1>1 DEF Drop, Minimal, Db
  <2> HIDE DEF left
  <2> QED
    BY <2>1, <2>2, <2>3, <2>4, <2>5 DEF TreeInv
<1>2. CASE ~Drop(c, d, t, o)
  <2>1. db' = d /\ told' = t /\ orphaned' = o /\ live' = live /\ reset' = reset
    BY <1>2 DEF Send
  <2> QED
    BY <2>1 DEF TreeInv
<1> QED
  BY <1>1, <1>2

LEMMA ConnectInvariant ==
    ASSUME IInv, NEW c \in Conns, Connect(c)
    PROVE  IInv'
  BY InvariantParts, InvariantPartsPrime
     DEF Connect, quikVars, TreeInv, RestInv, EntriesIn, SafePass, Idle, NoPass

LEMMA PeerResetInvariant ==
    ASSUME IInv, NEW c \in Conns, PeerReset(c)
    PROVE  IInv'
  BY InvariantParts, InvariantPartsPrime
     DEF PeerReset, quikVars, TreeInv, RestInv, SafePass

\* While no pass is running a handler need only respect the tree.
LEMMA IdleIsSafe ==
    ASSUME Idle, UNCHANGED pass
    PROVE  SafePass(pass, db, live)'
  BY DEF Idle, NoPass, SafePass

LEMMA ConnectionLostInvariant ==
    ASSUME IInv, NEW c \in Conns, ConnectionLost(c)
    PROVE  IInv'
<1> USE DEF ConnectionLost
<1>1. TreeInv /\ RestInv
  BY InvariantParts
<1>2. TreeInv'
  BY <1>1, SendKeepsTree DEF TreeInv
<1>3. RestInv'
  BY <1>1 DEF RestInv, quikVars
<1> QED
  BY <1>2, <1>3, IdleIsSafe, InvariantPartsPrime

LEMMA RefuseRequestInvariant ==
    ASSUME IInv, NEW c \in Conns, RefuseRequest(c)
    PROVE  IInv'
<1> USE DEF RefuseRequest
<1>1. TreeInv /\ RestInv
  BY InvariantParts
<1>2. TreeInv'
  BY <1>1, SendKeepsTree DEF TreeInv
<1>3. RestInv'
  BY <1>1 DEF RestInv, quikVars
<1> QED
  BY <1>2, <1>3, IdleIsSafe, InvariantPartsPrime

-----------------------------------------------------------------------------
(* Requests.                                                               *)

LEMMA SubscribeParamInvariant ==
    ASSUME IInv, NEW c \in Conns, NEW k \in ParamKeys, NEW id \in Ids,
           NEW answer \in BOOLEAN, SubscribeParam(c, k, id, answer)
    PROVE  IInv'
<1>1. TreeInv /\ RestInv /\ Idle /\ c \in live
  BY InvariantParts DEF SubscribeParam
<1>2. CASE HasConsumer(db, k, c)
  <2>1. TreeInv'
    BY <1>1, <1>2, SendKeepsTree DEF SubscribeParam, TreeInv
  <2>2. RestInv' /\ UNCHANGED pass
    BY <1>1, <1>2 DEF SubscribeParam, RestInv, quikVars
  <2> QED
    BY <1>1, <2>1, <2>2, IdleIsSafe, InvariantPartsPrime
<1>3. CASE ~HasConsumer(db, k, c)
  <2> DEFINE d == AddConsumer(db, k, c, id)
             t == [told EXCEPT ![c][k] = NoValue]
  <2>1. Minimal(d) /\ EntriesIn(d, live)
    BY <1>1, AddConsumerIsMinimal, AddedEntries DEF TreeInv, Minimal
  <2> HIDE DEF d
  <2>2. t \in [Conns -> [ParamKeys -> Values \cup {NoValue}]]
    BY <1>1 DEF TreeInv
  <2> HIDE DEF t
  <2>3. orphaned \in SUBSET (ParamKeys \cup SecKeys)
        /\ orphaned \ {k} \in SUBSET (ParamKeys \cup SecKeys)
    BY <1>1 DEF TreeInv
  <2>4. Send(c, d, t, orphaned) \/ Send(c, d, t, orphaned \ {k})
    BY <1>3 DEF SubscribeParam, d, t
  <2>5. TreeInv'
    BY <1>1, <2>1, <2>2, <2>3, <2>4, SendKeepsTree
  <2>6. pass' = ParamPass(db', SecOf(k))
    BY <1>3 DEF SubscribeParam
  <2>7. pass' \in Pass /\ SafePass(pass, db, live)'
    BY <2>6, KeyParts, ParamPassIsSafe
  <2>8. RestInv'
    BY <1>1, <1>3, <2>7 DEF SubscribeParam, RestInv, quikVars
  <2> QED
    BY <2>5, <2>7, <2>8, InvariantPartsPrime
<1> QED
  BY <1>2, <1>3

LEMMA UnsubscribeParamInvariant ==
    ASSUME IInv, NEW c \in Conns, NEW k \in ParamKeys, NEW answer \in BOOLEAN,
           UnsubscribeParam(c, k, answer)
    PROVE  IInv'
<1>1. TreeInv /\ RestInv /\ Idle /\ c \in live /\ UNCHANGED pass
  BY InvariantParts DEF UnsubscribeParam
<1> DEFINE d == DelConsumer(db, k, c)
           t == [told EXCEPT ![c][k] = NoValue]
<1>2. Minimal(d) /\ EntriesIn(d, live)
  BY <1>1, DelConsumerIsMinimal DEF TreeInv, EntriesIn
<1>3. t \in [Conns -> [ParamKeys -> Values \cup {NoValue}]]
  BY <1>1 DEF TreeInv
<1>4. Send(c, d, t, orphaned)
  BY DEF UnsubscribeParam
<1>5. TreeInv'
  <2> HIDE DEF d, t
  <2> QED
    BY <1>1, <1>2, <1>3, <1>4, SendKeepsTree DEF TreeInv
<1>6. RestInv'
  BY <1>1 DEF UnsubscribeParam, RestInv, quikVars
<1> QED
  BY <1>1, <1>5, <1>6, IdleIsSafe, InvariantPartsPrime

LEMMA SubscribeQuotesInvariant ==
    ASSUME IInv, NEW c \in Conns, NEW s \in SecKeys, NEW id \in Ids,
           NEW answer \in BOOLEAN, SubscribeQuotes(c, s, id, answer)
    PROVE  IInv'
<1>1. TreeInv /\ RestInv /\ Idle /\ c \in live
  BY InvariantParts DEF SubscribeQuotes
<1>2. CASE HasQuotesConsumer(db, s, c)
  <2>1. TreeInv'
    BY <1>1, <1>2, SendKeepsTree DEF SubscribeQuotes, TreeInv
  <2>2. RestInv' /\ UNCHANGED pass
    BY <1>1, <1>2 DEF SubscribeQuotes, RestInv, quikVars
  <2> QED
    BY <1>1, <2>1, <2>2, IdleIsSafe, InvariantPartsPrime
<1>3. CASE ~HasQuotesConsumer(db, s, c)
  <2> DEFINE d == AddQuotesConsumer(db, s, c, id)
  <2>1. Minimal(d) /\ EntriesIn(d, live)
    BY <1>1, AddQuotesConsumerIsMinimal, AddedEntries DEF TreeInv, Minimal
  <2> HIDE DEF d
  <2>2. Send(c, d, told, orphaned \ {s})
    BY <1>3 DEF SubscribeQuotes, d
  <2>3. TreeInv'
    BY <1>1, <2>1, <2>2, SendKeepsTree DEF TreeInv
  <2>4. pass' = QuotesPass(db', s)
    BY <1>3 DEF SubscribeQuotes
  <2>5. pass' \in Pass /\ SafePass(pass, db, live)'
    BY <2>3, <2>4, QuotesPassIsSafe DEF TreeInv
  <2>6. RestInv'
    BY <1>1, <1>3, <2>5 DEF SubscribeQuotes, RestInv, quikVars
  <2> QED
    BY <2>3, <2>5, <2>6, InvariantPartsPrime
<1> QED
  BY <1>2, <1>3

LEMMA UnsubscribeQuotesInvariant ==
    ASSUME IInv, NEW c \in Conns, NEW s \in SecKeys, NEW answer \in BOOLEAN,
           UnsubscribeQuotes(c, s, answer)
    PROVE  IInv'
<1>1. TreeInv /\ RestInv /\ Idle /\ c \in live /\ UNCHANGED pass
  BY InvariantParts DEF UnsubscribeQuotes
<1> DEFINE d == DelQuotesConsumer(db, s, c)
<1>2. Minimal(d) /\ EntriesIn(d, live)
  BY <1>1, DelQuotesConsumerIsMinimal DEF TreeInv, EntriesIn
<1>3. Send(c, d, told, orphaned)
  BY DEF UnsubscribeQuotes
<1>4. TreeInv'
  <2> HIDE DEF d
  <2> QED
    BY <1>1, <1>2, <1>3, SendKeepsTree DEF TreeInv
<1>5. RestInv'
  BY <1>1 DEF UnsubscribeQuotes, RestInv, quikVars
<1> QED
  BY <1>1, <1>4, <1>5, IdleIsSafe, InvariantPartsPrime

-----------------------------------------------------------------------------
(* Updates.                                                                *)

LEMMA OnParamInvariant ==
    ASSUME IInv, NEW k \in MarketKeys, NEW v \in Values, OnParam(k, v)
    PROVE  IInv'
<1> USE DEF OnParam
<1>1. TreeInv /\ RestInv /\ SafePass(pass, db, live)
  BY InvariantParts
<1>2. k \in ParamKeys
  BY CanonAssumption DEF MarketKeys, MarketKey, ParamKeys
<1>3. RestInv'
  BY <1>1, <1>2, KeyParts DEF RestInv, quikVars, Events
<1> QED
  BY <1>1, <1>3, InvariantPartsPrime DEF TreeInv, SafePass

LEMMA OnQuoteInvariant ==
    ASSUME IInv, NEW s \in SecKeys, OnQuote(s)
    PROVE  IInv'
  BY InvariantParts, InvariantPartsPrime
     DEF OnQuote, quikVars, TreeInv, RestInv, SafePass, Events

LEMMA StartPassInvariant ==
    ASSUME IInv, NEW e \in Events, StartPass(e)
    PROVE  IInv'
<1> USE DEF StartPass
<1>1. TreeInv /\ RestInv
  BY InvariantParts
<1>2. e[2] \in SecKeys
  BY DEF Events
<1>3. pass' \in Pass /\ SafePass(pass', db, live)
  BY <1>1, <1>2, ParamPassIsSafe, QuotesPassIsSafe DEF TreeInv
<1>4. SafePass(pass, db, live)'
  BY <1>3
<1>5. TreeInv' /\ RestInv'
  BY <1>1, <1>3 DEF TreeInv, RestInv, quikVars
<1> QED
  BY <1>4, <1>5, InvariantPartsPrime

\* One parameter is compared and its new value stored.  The connections that
\* are served next are the consumers at this moment.
LEMMA CheckParamInvariant ==
    ASSUME IInv, NEW p \in Params, CheckParam(p)
    PROVE  IInv'
<1> DEFINE s == pass.sec
           k == <<s[1], s[2], p>>
           value == market[MarketKey(k)]
           rest == [pass EXCEPT !.todo = @ \ {p}]
<1>1. TreeInv /\ RestInv /\ SafePass(pass, db, live)
  BY InvariantParts
<1>2. UNCHANGED <<live, reset, requested, level2, refused, market, posted, told,
                  orphaned>>
  BY DEF CheckParam, quikVars
<1>3. rest \in Pass /\ rest.kind = "params" /\ rest.to = {}
  BY <1>1 DEF RestInv, CheckParam, Pass
<1>4. CASE s \notin db.secs
  <2>1. UNCHANGED <<db, pass>> /\ ub' = "freedSecSubs"
    BY <1>4 DEF CheckParam
  <2> QED
    BY <1>1, <1>2, <2>1, InvariantPartsPrime DEF TreeInv, RestInv, SafePass
<1>5. CASE s \in db.secs /\ (k \notin db.params \/ value = db.value[k])
  <2>1. UNCHANGED <<db, ub>> /\ pass' = Continue(rest)
    BY <1>5 DEF CheckParam
  <2>2. pass' \in Pass /\ SafePass(pass', db, live)
    <3> HIDE DEF rest
    <3> QED
      BY <1>3, <2>1, ContinueCases DEF SafePass
  <2>3. SafePass(pass, db, live)'
    BY <1>2, <2>1, <2>2
  <2> QED
    BY <1>1, <1>2, <2>1, <2>2, <2>3, InvariantPartsPrime DEF TreeInv, RestInv
<1>6. CASE s \in db.secs /\ k \in db.params /\ value # db.value[k]
  <2> DEFINE next == [rest EXCEPT !.param = k, !.to = ConsumersList(db, k)]
  <2>1. UNCHANGED ub /\ pass' = Continue(next)
        /\ db' = [db EXCEPT !.value[k] = value]
    BY <1>6 DEF CheckParam
  <2>2. k \in ParamKeys
    BY <1>1, <1>6 DEF TreeInv, Minimal, Db
  <2>3. value \in Values
    BY <1>1, <2>2, KeyParts DEF RestInv
  <2>4. /\ db'.classes = db.classes /\ db'.secs = db.secs
        /\ db'.params = db.params /\ db'.consumers = db.consumers
        /\ db'.quotes = db.quotes /\ db' \in Db
    <3> HIDE DEF value, k
    <3> QED
      BY <1>1, <2>1, <2>2, <2>3 DEF TreeInv, Minimal, Db
  <2>5. TreeInv'
    BY <1>1, <1>2, <2>4 DEF TreeInv, Minimal, EntriesIn, EveryNodeHasAParent,
       NoNodeIsEmpty, OneEntryEach, ParamIsEmpty, SecIsEmpty, ClassIsEmpty
  <2>6. next \in Pass /\ next.kind = "params" /\ next.param = k
        /\ next.to = ConsumersList(db, k)
    <3> HIDE DEF rest, k
    <3> QED
      BY <1>3, <2>2 DEF Pass, ConsumersList
  <2>7. pass' \in Pass /\ SafePass(pass', db', live')
    <3>1. \A c \in next.to : HasConsumer(db', k, c)
      BY <2>4, <2>6 DEF ConsumersList, HasConsumer
    <3> HIDE DEF next, k
    <3> QED
      BY <2>1, <2>6, <3>1, ContinueCases DEF SafePass
  <2>8. RestInv'
    BY <1>1, <1>2, <2>1, <2>7 DEF RestInv
  <2> QED
    BY <2>5, <2>7, <2>8, InvariantPartsPrime
<1> QED
  BY <1>4, <1>5, <1>6

\* One consumer is sent the value.  If the send deletes its connection the
\* other consumers keep their entries, and with them the ParamSubs.
LEMMA SendParamInvariant ==
    ASSUME IInv, NEW c \in Conns, SendParam(c)
    PROVE  IInv'
<1> DEFINE k == pass.param
           t == [told EXCEPT ![c][k] = db.value[k]]
           rest == [pass EXCEPT !.to = @ \ {c}]
<1>1. TreeInv /\ RestInv /\ SafePass(pass, db, live)
  BY InvariantParts
<1>2. HasConsumer(db, k, c)
  BY <1>1 DEF SafePass, SendParam
<1>3. k \in db.params /\ c \in live /\ SubscriptionId(db, k, c) >= 0
  BY <1>1, <1>2, SubscriptionIdFound
     DEF TreeInv, EntriesIn, Minimal, EveryNodeHasAParent, HasConsumer
<1>4. Send(c, db, t, orphaned) /\ UNCHANGED ub /\ pass' = Continue(rest)
  BY <1>3 DEF SendParam
<1>5. t \in [Conns -> [ParamKeys -> Values \cup {NoValue}]]
  BY <1>1, <1>3 DEF TreeInv, Minimal, Db
<1>6. TreeInv' /\ \A x \in db.consumers : x[2] # c => x \in db'.consumers
  <2> HIDE DEF t
  <2> QED
    BY <1>1, <1>3, <1>4, <1>5, SendKeepsTree DEF TreeInv
<1>7. rest \in Pass /\ rest.kind = "params" /\ rest.param = k
      /\ rest.to = pass.to \ {c}
  BY <1>1 DEF RestInv, Pass, SendParam
<1>8. pass' \in Pass /\ SafePass(pass', db', live')
  <2>1. \A a \in rest.to : HasConsumer(db', k, a)
    BY <1>1, <1>6, <1>7 DEF SafePass, HasConsumer, SendParam
  <2> HIDE DEF rest, k
  <2> QED
    BY <1>4, <1>7, <2>1, ContinueCases DEF SafePass
<1>9. RestInv'
  BY <1>1, <1>4, <1>8 DEF RestInv, SendParam, quikVars
<1> QED
  BY <1>6, <1>8, <1>9, InvariantPartsPrime

\* The same for quotes, where the loop also uses the connections it has still
\* to serve.
LEMMA SendQuotesInvariant ==
    ASSUME IInv, NEW c \in Conns, SendQuotes(c)
    PROVE  IInv'
<1> DEFINE s == pass.sec
           rest == [pass EXCEPT !.to = @ \ {c}]
<1>1. TreeInv /\ RestInv /\ SafePass(pass, db, live)
  BY InvariantParts
<1>2. HasQuotesConsumer(db, s, c) /\ c \in live
  BY <1>1 DEF SafePass, SendQuotes
<1>3. s \in db.secs
  BY <1>1, <1>2 DEF TreeInv, Minimal, EveryNodeHasAParent, HasQuotesConsumer
<1>4. Send(c, db, told, orphaned) /\ UNCHANGED ub /\ pass' = Continue(rest)
  BY <1>2, <1>3 DEF SendQuotes
<1>5. /\ TreeInv' /\ live \ {c} \subseteq live'
      /\ \A x \in db.quotes : x[2] # c => x \in db'.quotes
  BY <1>1, <1>2, <1>4, SendKeepsTree DEF TreeInv
<1>6. rest \in Pass /\ rest.kind = "quotes" /\ rest.sec = s
      /\ rest.to = pass.to \ {c}
  BY <1>1 DEF RestInv, Pass, SendQuotes
<1>7. pass' \in Pass /\ SafePass(pass', db', live')
  <2>1. \A a \in rest.to : a \in live' /\ HasQuotesConsumer(db', s, a)
    BY <1>1, <1>5, <1>6 DEF SafePass, HasQuotesConsumer, SendQuotes
  <2> HIDE DEF rest, s
  <2> QED
    BY <1>4, <1>6, <2>1, ContinueCases DEF SafePass
<1>8. RestInv'
  BY <1>1, <1>4, <1>7 DEF RestInv, SendQuotes, quikVars
<1> QED
  BY <1>5, <1>7, <1>8, InvariantPartsPrime

-----------------------------------------------------------------------------
(* The invariant.                                                          *)

LEMMA InitInvariant == Init => IInv
<1> SUFFICES ASSUME Init PROVE IInv
  OBVIOUS
<1>1. TreeInv
  BY EmptyDbIsMinimal DEF Init, TreeInv, Nothing
<1>2. RestInv
  BY DEF Init, RestInv, NoPass, Pass
<1> QED
  BY <1>1, <1>2, InvariantParts DEF Init, SafePass, NoPass

\* A step that changes nothing.
LEMMA StutterInvariant ==
    ASSUME IInv, UNCHANGED vars
    PROVE  IInv'
  BY InvariantParts, InvariantPartsPrime
     DEF vars, quikVars, TreeInv, RestInv, SafePass

\* The invariant is inductive: every request, event, turn of a loop and loss
\* of a connection preserves it.
LEMMA StepInvariant == IInv /\ [Next]_vars => IInv'
<1> SUFFICES ASSUME IInv, [Next]_vars PROVE IInv'
  OBVIOUS
<1>1. CASE UNCHANGED vars
  BY <1>1, StutterInvariant
<1>2. ASSUME NEW c \in Conns, Connect(c) \/ PeerReset(c) \/ ConnectionLost(c)
      PROVE  IInv'
  BY <1>2, ConnectInvariant, PeerResetInvariant, ConnectionLostInvariant
<1>3. ASSUME Request PROVE IInv'
  BY <1>3, SubscribeParamInvariant, UnsubscribeParamInvariant,
     SubscribeQuotesInvariant, UnsubscribeQuotesInvariant,
     RefuseRequestInvariant DEF Request
<1>4. ASSUME PassStep PROVE IInv'
  BY <1>4, CheckParamInvariant, SendParamInvariant, SendQuotesInvariant
     DEF PassStep
<1>5. CASE \/ \E k \in MarketKeys, v \in Values : OnParam(k, v)
           \/ \E s \in SecKeys : OnQuote(s)
           \/ \E e \in Events : StartPass(e)
  BY <1>5, OnParamInvariant, OnQuoteInvariant, StartPassInvariant
<1> QED
  BY <1>1, <1>2, <1>3, <1>4, <1>5 DEF Next, Step

\* The inductive invariant holds in every reachable state.
THEOREM InductiveInvariant == Spec => []IInv
  BY InitInvariant, StepInvariant, PTL DEF Spec

\* Every variable keeps its type.
THEOREM TypeCorrect == Spec => []TypeOK
<1>1. IInv => TypeOK
  BY DEF IInv
<1> QED
  BY <1>1, InductiveInvariant, PTL

\* After any sequence of subscriptions, unsubscriptions and disconnections,
\* also one in the middle of a pass, the tree has exactly the nodes some
\* subscriber needs and one entry for each subscription.
THEOREM TreeStaysMinimal == Spec => []TreeIsMinimal
<1>1. IInv => TreeIsMinimal
  BY DEF IInv
<1> QED
  BY <1>1, InductiveInvariant, PTL

\* No consumer map ever mentions a deleted connection.
THEOREM NoDeadConsumers == Spec => []ConsumersAreLive
<1>1. IInv => ConsumersAreLive
  BY DEF IInv
<1> QED
  BY <1>1, InductiveInvariant, PTL

\* The loops of secParamsUpdate and secQuotesUpdate over the consumers never
\* use a ParamSubs or a connection that a failing send has deleted, nor a
\* SecSubs in the case of quotes.
THEOREM SendLoopsAreSafe == Spec => []LoopsAreSafe
<1>1. IInv => LoopsAreSafe
  BY DEF IInv
<1> QED
  BY <1>1, InductiveInvariant, PTL

-----------------------------------------------------------------------------
(* What the subscribers are promised: the second invariant, on top of the  *)
(* first.  Its parts are operators of a tree, the histories, QUIK's        *)
(* requests and a pass, so that a handler can be shown to establish them   *)
(* for the tree it has made before its send is looked at.                  *)

\* QuikServesSubscribers and LeftoversComeFromDisconnects.
Serves(d, r, l, f) ==
    d.params \subseteq r \cup f /\ \A x \in d.quotes : x[1] \in l \cup f
Leaves(d, o, r, l, f) ==
    /\ r \subseteq d.params \cup o \cup f
    /\ \A s \in l : QuotesConsumersList(d, s) # {} \/ s \in o \cup f

\* WillBeChecked and NoChangeIsLost.
Checks(po, p, k) ==
    \/ \E s \in {SecOf(k), SecOf(MarketKey(k))} : <<"params", s>> \in po
    \/ p.kind = "params" /\ p.sec = SecOf(k) /\ k[3] \in p.todo
Compared(d, m, po, p) ==
    \A k \in MarketKeys \cap d.params : d.value[k] = m[k] \/ Checks(po, p, k)

\* What a subscriber was last sent is the stored value, except for those whom
\* the running pass has still to serve.
Told(d, t, p) ==
    \A x \in d.consumers :
        \/ t[x[2]][x[1]] \in {NoValue, d.value[x[1]]}
        \/ p.kind = "params" /\ p.param = x[1] /\ x[2] \in p.to

\* What a pass has still to look at was in the tree when it began, so it is
\* still there or was lost by disconnections; what it is sending belongs to
\* the SecSubs it has found; a quotes pass runs only to send.
PassHolds(p, d, o) ==
    /\ p.kind = "params" =>
          /\ p.sec \in SecKeys
          /\ \A q \in p.todo : <<p.sec[1], p.sec[2], q>> \in d.params \cup o
          /\ p.to # {} => SecOf(p.param) = p.sec
    /\ p.kind = "quotes" => p.todo = {} /\ p.to # {}

ServiceInv ==
    /\ QuikServesSubscribers
    /\ LeftoversComeFromDisconnects
    /\ NoChangeIsLost
    /\ PassHolds(pass, db, orphaned)
    /\ Clean(db)

LEMMA ServiceParts ==
    ServiceInv <=> /\ Serves(db, requested, level2, refused)
                   /\ Leaves(db, orphaned, requested, level2, refused)
                   /\ Compared(db, market, posted, pass)
                   /\ Told(db, told, pass)
                   /\ PassHolds(pass, db, orphaned)
                   /\ Clean(db)
  BY DEF ServiceInv, QuikServesSubscribers, LeftoversComeFromDisconnects,
     NoChangeIsLost, WillBeChecked, WillBeTold, Serves, Leaves, Compared, Checks,
     Told

LEMMA ServicePartsPrime ==
    /\ Serves(db', requested', level2', refused')
    /\ Leaves(db', orphaned', requested', level2', refused')
    /\ Compared(db', market', posted', pass')
    /\ Told(db', told', pass')
    /\ PassHolds(pass', db', orphaned')
    /\ Clean(db')
    => ServiceInv'
  BY DEF ServiceInv, QuikServesSubscribers, LeftoversComeFromDisconnects,
     NoChangeIsLost, WillBeChecked, WillBeTold, Serves, Leaves, Compared, Checks,
     Told

\* No path of a parameter is that of a security.
LEMMA KeysDiffer == ParamKeys \cap SecKeys = {}
  BY DEF ParamKeys, SecKeys

\* The nodes of a minimal tree are those some entry needs.
LEMMA NodesOfEntries ==
    ASSUME NEW d, Minimal(d)
    PROVE  /\ \A k : k \in d.params <=> \E x \in d.consumers : x[1] = k
           /\ \A k \in d.params : SecOf(k) \in d.secs
           /\ \A x \in d.quotes : x[1] \in d.secs
  BY DEF Minimal, EveryNodeHasAParent, NoNodeIsEmpty, ParamIsEmpty

\* A security has a list of consumers exactly if there is an entry for it.
LEMMA QuotesListed ==
    ASSUME NEW d \in Db, NEW s
    PROVE  QuotesConsumersList(d, s) # {} <=> \E x \in d.quotes : x[1] = s
<1>1. d.quotes \subseteq SecKeys \X Conns \X Ids
  BY DEF Db
<1>2. ASSUME NEW x \in d.quotes, x[1] = s PROVE x[2] \in QuotesConsumersList(d, s)
  <2>1. x[2] \in Conns /\ x[3] \in Ids /\ <<s, x[2], x[3]>> \in d.quotes
    BY <1>1, <1>2, EntryParts
  <2> QED
    BY <2>1 DEF QuotesConsumersList, HasQuotesConsumer
<1>3. ASSUME NEW c \in QuotesConsumersList(d, s)
      PROVE  \E x \in d.quotes : x[1] = s
  <2>1. PICK id \in Ids : <<s, c, id>> \in d.quotes
    BY DEF QuotesConsumersList, HasQuotesConsumer
  <2> QED
    BY <2>1
<1> QED
  BY <1>2, <1>3

\* A send that fails removes entries of its connection only; the nodes that
\* go with them are recorded as orphaned; it changes no value and tells the
\* others nothing.
LEMMA SendEffects ==
    ASSUME TreeInv, NEW c \in live, NEW d, Minimal(d),
           NEW t \in [Conns -> [ParamKeys -> Values \cup {NoValue}]], NEW o,
           Send(c, d, t, o) \/ Drop(c, d, t, o)
    PROVE  /\ ValuesFrom(db', d)
           /\ db'.consumers \subseteq d.consumers
           /\ db'.quotes \subseteq d.quotes
           /\ o \subseteq orphaned'
           /\ d.params \subseteq db'.params \cup orphaned'
           /\ \A s \in SecKeys : QuotesConsumersList(d, s) # {} =>
                 QuotesConsumersList(db', s) # {} \/ s \in orphaned'
           /\ \A x \in db'.consumers : told'[x[2]][x[1]] = t[x[2]][x[1]]
<1>1. CASE Drop(c, d, t, o)
  <2> DEFINE left == ClearAllSubscriptions(d, c)
  <2>1. /\ ValuesFrom(left, d) /\ EntriesFrom(left, d)
        /\ \A x \in d.consumers : x \in left.consumers <=> x[2] # c
    BY ClearAllIsMinimal
  <2>2. /\ db' = left
        /\ told' = [t EXCEPT ![c] = Nothing]
        /\ o \subseteq orphaned'
        /\ d.params \subseteq left.params \cup orphaned'
        /\ \A s \in SecKeys : QuotesConsumersList(d, s) # {} =>
              QuotesConsumersList(left, s) # {} \/ s \in orphaned'
    BY <1>1 DEF Drop
  <2> HIDE DEF left
  <2>3. \A x \in left.consumers : x[2] \in Conns /\ x[2] # c
    BY <2>1, EntryParts DEF EntriesFrom, Minimal, Db
  <2>4. \A x \in left.consumers : told'[x[2]] = t[x[2]]
    BY <2>2, <2>3
  <2> QED
    BY <2>1, <2>2, <2>4 DEF EntriesFrom
<1>2. CASE ~Drop(c, d, t, o)
  <2>1. db' = d /\ told' = t /\ orphaned' = o
    BY <1>2 DEF Send
  <2> QED
    BY <2>1 DEF ValuesFrom
<1> QED
  BY <1>1, <1>2

\* So whatever holds of the tree that the handler has made holds of the tree
\* that its send leaves.
LEMMA SendKeepsService ==
    ASSUME TreeInv, NEW c \in live, NEW d, Minimal(d),
           NEW t \in [Conns -> [ParamKeys -> Values \cup {NoValue}]], NEW o,
           Send(c, d, t, o) \/ Drop(c, d, t, o)
    PROVE  /\ \A r, l, f : Serves(d, r, l, f) => Serves(db', r, l, f)
           /\ \A r, f : \A l \in SUBSET SecKeys :
                 Leaves(d, o, r, l, f) => Leaves(db', orphaned', r, l, f)
           /\ \A m, po, p : Compared(d, m, po, p) => Compared(db', m, po, p)
           /\ \A p : Told(d, t, p) => Told(db', told', p)
           /\ \A p : PassHolds(p, d, o) => PassHolds(p, db', orphaned')
           /\ Clean(d) => Clean(db')
<1>1. /\ ValuesFrom(db', d)
      /\ db'.consumers \subseteq d.consumers
      /\ db'.quotes \subseteq d.quotes
      /\ o \subseteq orphaned'
      /\ d.params \subseteq db'.params \cup orphaned'
      /\ \A s \in SecKeys : QuotesConsumersList(d, s) # {} =>
            QuotesConsumersList(db', s) # {} \/ s \in orphaned'
      /\ \A x \in db'.consumers : told'[x[2]][x[1]] = t[x[2]][x[1]]
  BY SendEffects
<1>2. Minimal(db')
  <2>1. CASE Drop(c, d, t, o)
    BY <2>1, ClearAllIsMinimal DEF Drop
  <2>2. CASE ~Drop(c, d, t, o)
    BY <2>2 DEF Send
  <2> QED
    BY <2>1, <2>2
<1>3. \A x \in db'.consumers : db'.value[x[1]] = d.value[x[1]]
  <2>1. \A x \in db'.consumers : x[1] \in db'.params
    BY <1>2, NodesOfEntries
  <2> QED
    BY <1>1, <2>1 DEF ValuesFrom
<1>4. \A k \in db'.params : k \in d.params /\ db'.value[k] = d.value[k]
  BY <1>1 DEF ValuesFrom
<1>5. \A r, l, f : Serves(d, r, l, f) => Serves(db', r, l, f)
  BY <1>1, <1>4 DEF Serves
<1>6. \A r, f : \A l \in SUBSET SecKeys :
         Leaves(d, o, r, l, f) => Leaves(db', orphaned', r, l, f)
  BY <1>1 DEF Leaves
<1>7. \A m, po, p : Compared(d, m, po, p) => Compared(db', m, po, p)
  BY <1>4 DEF Compared
<1>8. \A p : Told(d, t, p) => Told(db', told', p)
  BY <1>1, <1>3 DEF Told
<1>9. \A p : PassHolds(p, d, o) => PassHolds(p, db', orphaned')
  BY <1>1 DEF PassHolds
<1> QED
  BY <1>1, <1>5, <1>6, <1>7, <1>8, <1>9 DEF ValuesFrom

-----------------------------------------------------------------------------
(* The handlers on the tree.                                               *)

\* What a pass over parameters starts with: all parameters of its security.
LEMMA ParamPassCovers ==
    ASSUME NEW d, Minimal(d), NEW s \in SecKeys, NEW o
    PROVE  /\ \A k \in d.params : SecOf(k) = s =>
                 LET p == ParamPass(d, s)
                 IN p.kind = "params" /\ p.sec = s /\ k[3] \in p.todo
           /\ PassHolds(ParamPass(d, s), d, o)
           /\ \A t, p : Told(d, t, NoPass) => Told(d, t, p)
<1> DEFINE p == [kind |-> "params", sec |-> s,
                 todo |-> {q \in Params : <<s[1], s[2], q>> \in d.params},
                 param |-> << >>, to |-> {}]
<1>1. ParamPass(d, s) = IF s \in d.secs THEN Continue(p) ELSE NoPass
  BY DEF ParamPass
<1>2. PassHolds(p, d, o) /\ PassHolds(NoPass, d, o)
  BY DEF PassHolds, NoPass
<1>3. ASSUME NEW k \in d.params, SecOf(k) = s
      PROVE  ParamPass(d, s) = p /\ k[3] \in p.todo
  <2>1. k \in ParamKeys /\ s \in d.secs
    BY <1>3, NodesOfEntries DEF Minimal, Db
  <2>2. k[3] \in Params /\ <<s[1], s[2], k[3]>> = k
    BY <1>3, <2>1 DEF SecOf, ParamKeys
  <2> QED
    BY <1>1, <2>1, <2>2 DEF Continue
<1>4. \A t, q : Told(d, t, NoPass) => Told(d, t, q)
  BY DEF Told, NoPass
<1>5. ParamPass(d, s) \in {p, NoPass}
  BY <1>1 DEF Continue
<1>6. p.kind = "params" /\ p.sec = s
  OBVIOUS
<1> HIDE DEF p
<1> QED
  BY <1>2, <1>3, <1>4, <1>5, <1>6

\* A pass over quotes starts with a connection to serve.
LEMMA QuotesPassHolds ==
    ASSUME NEW d, NEW s, NEW o
    PROVE  PassHolds(QuotesPass(d, s), d, o)
<1> DEFINE p == [kind |-> "quotes", sec |-> s, todo |-> {}, param |-> << >>,
                 to |-> QuotesConsumersList(d, s)]
<1>1. QuotesPass(d, s) \in {Continue(p), NoPass}
  BY DEF QuotesPass
<1>2. PassHolds(NoPass, d, o)
  BY DEF PassHolds, NoPass
<1>3. PassHolds(Continue(p), d, o)
  BY DEF Continue, PassHolds, NoPass
<1> QED
  BY <1>1, <1>2, <1>3

\* What the handler of a subscription has made of the tree, and its history.
LEMMA AddConsumerServes ==
    ASSUME NEW d, Minimal(d), NEW k \in ParamKeys, NEW c \in Conns, NEW id \in Ids,
           NEW t \in [Conns -> [ParamKeys -> Values \cup {NoValue}]],
           ~HasConsumer(d, k, c)
    PROVE  LET e == AddConsumer(d, k, c, id)
           IN /\ e.params = d.params \cup {k}
              /\ e.quotes = d.quotes
              /\ \A j \in d.params : e.value[j] = d.value[j]
              /\ Clean(d) => Clean(e)
              /\ Told(d, t, NoPass) =>
                    Told(e, [t EXCEPT ![c][k] = NoValue], NoPass)
<1> DEFINE e == AddConsumer(d, k, c, id)
<1>1. /\ e.params = d.params \cup {k}
      /\ e.quotes = d.quotes
      /\ e.consumers = d.consumers \cup {<<k, c, id>>}
      /\ \A j \in ParamKeys : e.value[j] = IF j = k /\ k \notin d.params THEN NoValue
                                           ELSE d.value[j]
  BY DEF AddConsumer, Minimal, Db
<1>2. \A j \in d.params : e.value[j] = d.value[j]
  BY <1>1 DEF Minimal, Db
<1>3. Clean(d) => Clean(e)
  BY <1>1 DEF Clean
<1>4. ASSUME Told(d, t, NoPass)
      PROVE  Told(e, [t EXCEPT ![c][k] = NoValue], NoPass)
  <2> DEFINE u == [t EXCEPT ![c][k] = NoValue]
  <2> HIDE DEF e
  <2>1. \A b \in Conns, j \in ParamKeys :
           u[b][j] = IF b = c /\ j = k THEN NoValue ELSE t[b][j]
    OBVIOUS
  <2> HIDE DEF u
  <2>2. ASSUME NEW x \in d.consumers
        PROVE  u[x[2]][x[1]] \in {NoValue, e.value[x[1]]}
    <3>1. x[1] \in d.params /\ x[1] \in ParamKeys /\ x[2] \in Conns
      BY NodesOfEntries, EntryParts DEF Minimal, Db
    <3>2. t[x[2]][x[1]] \in {NoValue, d.value[x[1]]}
      BY <1>4 DEF Told, NoPass
    <3> QED
      BY <1>2, <2>1, <3>1, <3>2
  <2> QED
    BY <1>1, <2>1, <2>2 DEF Told, u
<1> QED
  BY <1>1, <1>2, <1>3, <1>4

LEMMA AddQuotesConsumerServes ==
    ASSUME NEW d, Minimal(d), NEW s \in SecKeys, NEW c \in Conns, NEW id \in Ids
    PROVE  LET e == AddQuotesConsumer(d, s, c, id)
           IN /\ e.params = d.params
              /\ e.value = d.value
              /\ e.consumers = d.consumers
              /\ d.quotes \subseteq e.quotes
              /\ e.quotes \subseteq d.quotes \cup {<<s, c, id>>}
              /\ \E x \in e.quotes : x[1] = s
<1> DEFINE e == AddQuotesConsumer(d, s, c, id)
<1>1. /\ e.params = d.params
      /\ e.value = d.value
      /\ e.consumers = d.consumers
      /\ e.quotes = IF HasQuotesConsumer(d, s, c) THEN d.quotes
                    ELSE d.quotes \cup {<<s, c, id>>}
  BY DEF AddQuotesConsumer, Minimal, Db
<1>2. \E x \in e.quotes : x[1] = s
  <2>1. \E i \in Ids : <<s, c, i>> \in e.quotes
    BY <1>1 DEF HasQuotesConsumer
  <2> QED
    BY <2>1
<1> QED
  BY <1>1, <1>2

\* An unsubscription takes one entry away, and its own parameter at most.
LEMMA DelConsumerServes ==
    ASSUME NEW d, Minimal(d), NEW k \in ParamKeys, NEW c \in Conns,
           NEW t \in [Conns -> [ParamKeys -> Values \cup {NoValue}]]
    PROVE  LET e == DelConsumer(d, k, c)
           IN /\ d.params \ {k} \subseteq e.params
              /\ Told(d, t, NoPass) =>
                    Told(e, [t EXCEPT ![c][k] = NoValue], NoPass)
<1> DEFINE e == DelConsumer(d, k, c)
<1>1. /\ Minimal(e)
      /\ e.consumers = {x \in d.consumers : ~(x[1] = k /\ x[2] = c)}
      /\ ValuesFrom(e, d)
  BY DelConsumerIsMinimal
<1> HIDE DEF e
<1>2. d.params \ {k} \subseteq e.params
  BY <1>1, NodesOfEntries
<1>3. ASSUME Told(d, t, NoPass), NEW x \in e.consumers
      PROVE  [t EXCEPT ![c][k] = NoValue][x[2]][x[1]] \in {NoValue, e.value[x[1]]}
  <2>1. x[1] \in e.params /\ x[1] \in ParamKeys /\ x[2] \in Conns
        /\ x \in d.consumers /\ ~(x[1] = k /\ x[2] = c)
    BY <1>1, NodesOfEntries, EntryParts DEF Minimal, Db
  <2>2. t[x[2]][x[1]] \in {NoValue, d.value[x[1]]} /\ e.value[x[1]] = d.value[x[1]]
    BY <1>1, <1>3, <2>1 DEF Told, NoPass, ValuesFrom
  <2> QED
    BY <2>1, <2>2
<1> QED
  BY <1>2, <1>3 DEF Told, e

-----------------------------------------------------------------------------
(* The second invariant and the actions.                                   *)

\* What the first invariant gives the lemmas that follow.
LEMMA TreeFacts ==
    ASSUME IInv
    PROVE  /\ TreeInv
           /\ Minimal(db)
           /\ told \in [Conns -> [ParamKeys -> Values \cup {NoValue}]]
           /\ level2 \in SUBSET SecKeys
           /\ pass \in Pass
           /\ market \in [MarketKeys -> Values]
  BY InvariantParts DEF TreeInv, RestInv

\* A send of a handler that has changed nothing.
LEMMA QuietSend ==
    ASSUME IInv, ServiceInv, NEW c \in live,
           Send(c, db, told, orphaned) \/ Drop(c, db, told, orphaned),
           UNCHANGED <<quikVars, market, posted, pass>>
    PROVE  ServiceInv'
<1>1. /\ \A r, l, f : Serves(db, r, l, f) => Serves(db', r, l, f)
      /\ \A r, f : \A l \in SUBSET SecKeys :
            Leaves(db, orphaned, r, l, f) => Leaves(db', orphaned', r, l, f)
      /\ \A m, po, p : Compared(db, m, po, p) => Compared(db', m, po, p)
      /\ \A p : Told(db, told, p) => Told(db', told', p)
      /\ \A p : PassHolds(p, db, orphaned) => PassHolds(p, db', orphaned')
      /\ Clean(db) => Clean(db')
  BY TreeFacts, SendKeepsService
<1>2. /\ requested' = requested /\ level2' = level2 /\ refused' = refused
      /\ market' = market /\ posted' = posted /\ pass' = pass
  BY DEF quikVars
<1> QED
  BY <1>1, <1>2, TreeFacts, ServiceParts, ServicePartsPrime

\* A step that leaves the tree, its histories and QUIK's requests alone.
LEMMA OtherStep ==
    ASSUME ServiceInv, UNCHANGED <<db, told, orphaned, quikVars>>,
           Compared(db, market', posted', pass'), Told(db, told, pass'),
           PassHolds(pass', db, orphaned)
    PROVE  ServiceInv'
<1>1. /\ requested' = requested /\ level2' = level2 /\ refused' = refused
      /\ db' = db /\ told' = told /\ orphaned' = orphaned
  BY DEF quikVars
<1> QED
  BY <1>1, ServiceParts, ServicePartsPrime

\* A subscription: QUIK is asked for a parameter that is new in the tree, and
\* a pass begins that looks at every parameter of its security.
LEMMA SubscribeParamService ==
    ASSUME IInv, IInv', ServiceInv, NEW c \in Conns, NEW k \in ParamKeys,
           NEW id \in Ids, NEW answer \in BOOLEAN, SubscribeParam(c, k, id, answer)
    PROVE  ServiceInv'
<1>1. c \in live /\ pass = NoPass
  BY DEF SubscribeParam, Idle
<1>2. CASE HasConsumer(db, k, c)
  BY <1>1, <1>2, QuietSend DEF SubscribeParam
<1>3. CASE ~HasConsumer(db, k, c)
  <2> DEFINE d == AddConsumer(db, k, c, id)
             t == [told EXCEPT ![c][k] = NoValue]
             o == IF k \in db.params THEN orphaned ELSE orphaned \ {k}
  <2>1. /\ Send(c, d, t, o)
        /\ pass' = ParamPass(db', SecOf(k))
        /\ market' = market /\ posted' = posted
    BY <1>3 DEF SubscribeParam, FindParamSubscriptions
  <2>2. /\ k \in db.params =>
              requested' = requested /\ refused' = refused /\ level2' = level2
        /\ k \notin db.params =>
              /\ level2' = level2
              /\ \/ requested' = requested \cup {k} /\ refused' = refused \ {k}
                 \/ requested' = requested /\ refused' = refused \cup {k}
    BY <1>3 DEF SubscribeParam, FindParamSubscriptions, quikVars
  <2>3. Minimal(d) /\ Minimal(db') /\ Minimal(db)
    BY TreeFacts, AddConsumerIsMinimal, InvariantParts DEF IInv, TypeOK, TreeIsMinimal,
       Minimal
  <2>4. /\ d.params = db.params \cup {k}
        /\ d.quotes = db.quotes
        /\ \A j \in db.params : d.value[j] = db.value[j]
        /\ Clean(d)
        /\ Told(d, t, NoPass)
    <3>1. Clean(db) /\ Told(db, told, NoPass)
      BY <1>1, ServiceParts
    <3>2. /\ d.params = db.params \cup {k}
          /\ d.quotes = db.quotes
          /\ \A j \in db.params : d.value[j] = db.value[j]
          /\ Clean(db) => Clean(d)
          /\ Told(db, told, NoPass) => Told(d, t, NoPass)
      BY <1>3, TreeFacts, AddConsumerServes
    <3> QED
      BY <3>1, <3>2
  <2>5. t \in [Conns -> [ParamKeys -> Values \cup {NoValue}]]
    BY TreeFacts
  <2> HIDE DEF d, t
  <2>6. /\ \A r, l, f : Serves(d, r, l, f) => Serves(db', r, l, f)
        /\ \A r, f : \A l \in SUBSET SecKeys :
              Leaves(d, o, r, l, f) => Leaves(db', orphaned', r, l, f)
        /\ \A p : Told(d, t, p) => Told(db', told', p)
        /\ Clean(d) => Clean(db')
    <3> HIDE DEF o
    <3> QED
      BY <1>1, <2>1, <2>3, <2>5, TreeFacts, SendKeepsService
  <2>7. ValuesFrom(db', d)
    <3> HIDE DEF o
    <3> QED
      BY <1>1, <2>1, <2>3, <2>5, TreeFacts, SendEffects
  <2>8. Serves(d, requested', level2', refused')
    <3>1. \A x \in db.quotes : x[1] # k
      BY <2>3, KeysDiffer, EntryParts DEF Minimal, Db
    <3> QED
      BY <2>2, <2>4, <3>1, ServiceParts DEF Serves
  <2>9. Leaves(d, o, requested', level2', refused') /\ level2' \in SUBSET SecKeys
    <3>1. \A s \in level2 : s # k
      BY KeysDiffer, TreeFacts
    <3>2. \A s : QuotesConsumersList(d, s) = QuotesConsumersList(db, s)
      BY <2>4 DEF QuotesConsumersList, HasQuotesConsumer
    <3> QED
      BY <2>2, <2>4, <3>1, <3>2, ServiceParts, TreeFacts DEF Leaves
  <2>10. /\ \A j \in db'.params : SecOf(j) = SecOf(k) =>
               pass'.kind = "params" /\ pass'.sec = SecOf(k) /\ j[3] \in pass'.todo
         /\ PassHolds(pass', db', orphaned')
         /\ Told(db', told', NoPass) => Told(db', told', pass')
    BY <2>1, <2>3, KeyParts, ParamPassCovers
  <2>11. Compared(db', market', posted', pass')
    <3> SUFFICES ASSUME NEW j \in MarketKeys \cap db'.params
                 PROVE  db'.value[j] = market'[j] \/ Checks(posted', pass', j)
      BY DEF Compared
    <3>1. CASE SecOf(j) = SecOf(k)
      BY <2>10, <3>1 DEF Checks
    <3>2. CASE SecOf(j) # SecOf(k)
      <4>1. j \in db.params /\ db'.value[j] = db.value[j]
        BY <2>4, <2>7, <3>2 DEF ValuesFrom
      <4>2. db.value[j] = market[j] \/ Checks(posted, NoPass, j)
        BY <1>1, <4>1, ServiceParts DEF Compared
      <4> QED
        BY <2>1, <4>1, <4>2 DEF Checks, NoPass
    <3> QED
      BY <3>1, <3>2
  <2> QED
    BY <2>4, <2>6, <2>8, <2>9, <2>10, <2>11, ServicePartsPrime
<1> QED
  BY <1>2, <1>3

\* An unsubscription: QUIK is asked to stop only when the parameter has left
\* the tree.
LEMMA UnsubscribeParamService ==
    ASSUME IInv, ServiceInv, NEW c \in Conns, NEW k \in ParamKeys,
           NEW answer \in BOOLEAN, UnsubscribeParam(c, k, answer)
    PROVE  ServiceInv'
<1> DEFINE d == DelConsumer(db, k, c)
           t == [told EXCEPT ![c][k] = NoValue]
<1>1. /\ c \in live /\ pass = NoPass /\ Send(c, d, t, orphaned)
      /\ market' = market /\ posted' = posted /\ pass' = pass
  BY DEF UnsubscribeParam, Idle
<1>2. /\ level2' = level2
      /\ \/ k \in d.params /\ requested' = requested /\ refused' = refused
         \/ k \notin d.params /\ requested' = requested \ {k} /\ refused' = refused
         \/ k \notin d.params /\ requested' = requested
            /\ refused' = refused \cup {k}
  BY DEF UnsubscribeParam, FindParamSubscriptions, quikVars
<1>3. /\ Minimal(d) /\ Minimal(db) /\ ValuesFrom(d, db)
      /\ d.quotes = db.quotes
      /\ db.params \ {k} \subseteq d.params
      /\ Told(d, t, NoPass)
  BY <1>1, TreeFacts, DelConsumerIsMinimal, DelConsumerServes, ServiceParts
<1>4. t \in [Conns -> [ParamKeys -> Values \cup {NoValue}]]
  BY TreeFacts
<1> HIDE DEF d, t
<1>5. /\ \A r, l, f : Serves(d, r, l, f) => Serves(db', r, l, f)
      /\ \A r, f : \A l \in SUBSET SecKeys :
            Leaves(d, orphaned, r, l, f) => Leaves(db', orphaned', r, l, f)
      /\ \A m, po, p : Compared(d, m, po, p) => Compared(db', m, po, p)
      /\ \A p : Told(d, t, p) => Told(db', told', p)
      /\ \A p : PassHolds(p, d, orphaned) => PassHolds(p, db', orphaned')
      /\ Clean(d) => Clean(db')
  BY <1>1, <1>3, <1>4, TreeFacts, SendKeepsService
<1>6. Serves(d, requested', level2', refused')
  BY <1>2, <1>3, ServiceParts DEF Serves, ValuesFrom
<1>7. Leaves(d, orphaned, requested', level2', refused')
      /\ level2' \in SUBSET SecKeys
  <2>1. requested' \subseteq d.params \cup orphaned \cup refused' \cup {k}
    BY <1>2, <1>3, ServiceParts DEF Leaves
  <2>2. k \in requested' => k \in d.params \cup orphaned \cup refused'
    BY <1>2, <1>3, ServiceParts DEF Leaves
  <2>3. \A s : QuotesConsumersList(d, s) = QuotesConsumersList(db, s)
    BY <1>3 DEF QuotesConsumersList, HasQuotesConsumer
  <2> QED
    BY <1>2, <2>1, <2>2, <2>3, ServiceParts, TreeFacts DEF Leaves
<1>8. Compared(d, market', posted', pass') /\ Clean(d)
  BY <1>1, <1>3, ServiceParts DEF Compared, ValuesFrom
<1>9. PassHolds(pass', d, orphaned) /\ Told(d, t, pass')
  BY <1>1, <1>3 DEF PassHolds, NoPass
<1> QED
  BY <1>5, <1>6, <1>7, <1>8, <1>9, ServicePartsPrime

\* A subscription to quotes: QUIK is asked for each, and a pass begins.
LEMMA SubscribeQuotesService ==
    ASSUME IInv, ServiceInv, NEW c \in Conns, NEW s \in SecKeys, NEW id \in Ids,
           NEW answer \in BOOLEAN, SubscribeQuotes(c, s, id, answer)
    PROVE  ServiceInv'
<1>1. c \in live /\ pass = NoPass
  BY DEF SubscribeQuotes, Idle
<1>2. CASE HasQuotesConsumer(db, s, c)
  BY <1>1, <1>2, QuietSend DEF SubscribeQuotes
<1>3. CASE ~HasQuotesConsumer(db, s, c)
  <2> DEFINE d == AddQuotesConsumer(db, s, c, id)
             o == orphaned \ {s}
  <2>1. /\ Send(c, d, told, o)
        /\ pass' = QuotesPass(db', s)
        /\ market' = market /\ posted' = posted /\ requested' = requested
        /\ \/ level2' = level2 \cup {s} /\ refused' = refused \ {s}
           \/ level2' = level2 /\ refused' = refused \cup {s}
    BY <1>3 DEF SubscribeQuotes
  <2>2. Minimal(d) /\ Minimal(db)
    BY TreeFacts, AddQuotesConsumerIsMinimal
  <2>3. /\ d.params = db.params
        /\ d.value = db.value
        /\ d.consumers = db.consumers
        /\ d.quotes \subseteq db.quotes \cup {<<s, c, id>>}
        /\ db.quotes \subseteq d.quotes
        /\ \E x \in d.quotes : x[1] = s
    BY TreeFacts, AddQuotesConsumerServes
  <2> HIDE DEF d, o
  <2>4. /\ \A r, l, f : Serves(d, r, l, f) => Serves(db', r, l, f)
        /\ \A r, f : \A l \in SUBSET SecKeys :
              Leaves(d, o, r, l, f) => Leaves(db', orphaned', r, l, f)
        /\ \A m, po, p : Compared(d, m, po, p) => Compared(db', m, po, p)
        /\ \A p : Told(d, told, p) => Told(db', told', p)
        /\ Clean(d) => Clean(db')
    BY <1>1, <2>1, <2>2, TreeFacts, SendKeepsService
  <2>5. s \notin ParamKeys /\ db.params \subseteq ParamKeys /\ requested \subseteq ParamKeys
    BY <2>2, KeysDiffer, InvariantParts DEF Minimal, Db, RestInv
  <2>6. Serves(d, requested', level2', refused')
    BY <2>1, <2>3, <2>5, ServiceParts DEF Serves
  <2>7. Leaves(d, o, requested', level2', refused')
    <3>1. \A z : QuotesConsumersList(d, z) # {} <=> \E x \in d.quotes : x[1] = z
      BY <2>2, QuotesListed DEF Minimal
    <3>2. \A z : QuotesConsumersList(db, z) # {} <=> \E x \in db.quotes : x[1] = z
      BY <2>2, QuotesListed DEF Minimal
    <3>3. requested' \subseteq d.params \cup o \cup refused'
      BY <2>1, <2>3, <2>5, ServiceParts DEF Leaves, o
    <3>4. \A z \in level2' : QuotesConsumersList(d, z) # {} \/ z \in o \cup refused'
      BY <2>1, <2>3, <3>1, <3>2, ServiceParts DEF Leaves, o
    <3> QED
      BY <3>3, <3>4 DEF Leaves
  <2>8. level2' \in SUBSET SecKeys
    BY <2>1, TreeFacts
  <2>9. Compared(d, market', posted', NoPass) /\ Told(d, told, NoPass) /\ Clean(d)
    BY <1>1, <2>1, <2>3, ServiceParts DEF Compared, Told, Clean
  <2>10. Compared(d, market', posted', pass') /\ Told(d, told, pass')
    BY <2>9 DEF Compared, Checks, Told, NoPass
  <2>11. PassHolds(pass', db', orphaned')
    BY <2>1, QuotesPassHolds
  <2> QED
    BY <2>4, <2>6, <2>7, <2>8, <2>9, <2>10, <2>11, ServicePartsPrime
<1> QED
  BY <1>2, <1>3

\* An unsubscription from quotes: QUIK is asked to stop only when nobody is
\* left.
LEMMA UnsubscribeQuotesService ==
    ASSUME IInv, ServiceInv, NEW c \in Conns, NEW s \in SecKeys,
           NEW answer \in BOOLEAN, UnsubscribeQuotes(c, s, answer)
    PROVE  ServiceInv'
<1> DEFINE d == DelQuotesConsumer(db, s, c)
<1>1. /\ c \in live /\ pass = NoPass /\ Send(c, d, told, orphaned)
      /\ market' = market /\ posted' = posted /\ pass' = pass
      /\ requested' = requested
  BY DEF UnsubscribeQuotes, Idle, quikVars
<1>2. \/ QuotesConsumersList(d, s) # {} /\ level2' = level2 /\ refused' = refused
      \/ QuotesConsumersList(d, s) = {}
         /\ \/ level2' = level2 \ {s} /\ refused' = refused
            \/ level2' = level2 /\ refused' = refused \cup {s}
  BY DEF UnsubscribeQuotes, quikVars
<1>3. /\ Minimal(d) /\ Minimal(db) /\ ValuesFrom(d, db)
      /\ d.consumers = db.consumers
      /\ d.quotes = {x \in db.quotes : ~(x[1] = s /\ x[2] = c)}
  BY TreeFacts, DelQuotesConsumerIsMinimal
<1> HIDE DEF d
<1>4. d.params = db.params
  <2>1. \A k : k \in d.params <=> \E x \in db.consumers : x[1] = k
    BY <1>3, NodesOfEntries
  <2>2. \A k : k \in db.params <=> \E x \in db.consumers : x[1] = k
    BY <1>3, NodesOfEntries
  <2> QED
    BY <2>1, <2>2
<1>5. /\ \A r, l, f : Serves(d, r, l, f) => Serves(db', r, l, f)
      /\ \A r, f : \A l \in SUBSET SecKeys :
            Leaves(d, orphaned, r, l, f) => Leaves(db', orphaned', r, l, f)
      /\ \A m, po, p : Compared(d, m, po, p) => Compared(db', m, po, p)
      /\ \A p : Told(d, told, p) => Told(db', told', p)
      /\ \A p : PassHolds(p, d, orphaned) => PassHolds(p, db', orphaned')
      /\ Clean(d) => Clean(db')
  BY <1>1, <1>3, TreeFacts, SendKeepsService
<1>6. /\ \A z : QuotesConsumersList(d, z) # {} <=> \E x \in d.quotes : x[1] = z
      /\ \A z : QuotesConsumersList(db, z) # {} <=> \E x \in db.quotes : x[1] = z
  BY <1>3, QuotesListed DEF Minimal
<1>7. Serves(d, requested', level2', refused')
  BY <1>1, <1>2, <1>3, <1>4, <1>6, ServiceParts DEF Serves
<1>8. Leaves(d, orphaned, requested', level2', refused')
  <2>1. requested' \subseteq d.params \cup orphaned \cup refused'
    BY <1>1, <1>2, <1>4, ServiceParts DEF Leaves
  <2>2. \A z \in level2' :
           QuotesConsumersList(d, z) # {} \/ z \in orphaned \cup refused'
    BY <1>2, <1>3, <1>6, ServiceParts DEF Leaves
  <2> QED
    BY <2>1, <2>2 DEF Leaves
<1>9. level2' \in SUBSET SecKeys
  BY <1>2, TreeFacts
<1>10. Compared(d, market', posted', pass') /\ Clean(d)
  BY <1>1, <1>3, ServiceParts DEF Compared, ValuesFrom
<1>11. Told(d, told, pass')
  <2>1. \A x \in d.consumers : d.value[x[1]] = db.value[x[1]]
    BY <1>3, NodesOfEntries DEF ValuesFrom
  <2> QED
    BY <1>1, <1>3, <2>1, ServiceParts DEF Told
<1>12. PassHolds(pass', d, orphaned)
  BY <1>1 DEF PassHolds, NoPass
<1> QED
  BY <1>5, <1>7, <1>8, <1>9, <1>10, <1>11, <1>12, ServicePartsPrime

\* A change in QUIK is posted; the event is taken by a pass over everything
\* below its security.
LEMMA UpdateService ==
    ASSUME IInv, ServiceInv,
           \/ \E k \in MarketKeys, v \in Values : OnParam(k, v)
           \/ \E s \in SecKeys : OnQuote(s)
           \/ \E e \in Events : StartPass(e)
    PROVE  ServiceInv'
<1>1. ASSUME NEW k \in MarketKeys, NEW v \in Values, OnParam(k, v)
      PROVE  ServiceInv'
  <2>1. /\ \A j \in MarketKeys : market'[j] = IF j = k THEN v ELSE market[j]
        /\ posted' = posted \cup {<<"params", SecOf(k)>>} /\ pass' = pass
        /\ UNCHANGED <<db, told, orphaned, quikVars>>
    BY <1>1, TreeFacts DEF OnParam
  <2>2. Compared(db, market', posted', pass')
    BY <2>1, ServiceParts DEF Compared, Checks
  <2> QED
    BY <2>1, <2>2, ServiceParts, OtherStep
<1>2. ASSUME NEW s \in SecKeys, OnQuote(s) PROVE ServiceInv'
  <2>1. /\ market' = market /\ posted \subseteq posted' /\ pass' = pass
        /\ UNCHANGED <<db, told, orphaned, quikVars>>
    BY <1>2 DEF OnQuote
  <2>2. Compared(db, market', posted', pass')
    BY <2>1, ServiceParts DEF Compared, Checks
  <2> QED
    BY <2>1, <2>2, ServiceParts, OtherStep
<1>3. ASSUME NEW e \in Events, StartPass(e) PROVE ServiceInv'
  <2>1. /\ market' = market /\ posted' = posted \ {e} /\ pass = NoPass
        /\ pass' = IF e[1] = "params" THEN ParamPass(db, e[2])
                   ELSE QuotesPass(db, e[2])
        /\ UNCHANGED <<db, told, orphaned, quikVars>>
    BY <1>3 DEF StartPass, Idle
  <2>2. e[2] \in SecKeys /\ e = <<e[1], e[2]>> /\ e[1] \in {"params", "quotes"}
    BY DEF Events
  <2>3. Told(db, told, pass')
    BY <2>1, ServiceParts DEF Told, NoPass
  <2>4. PassHolds(pass', db, orphaned)
    BY <2>1, <2>2, TreeFacts, ParamPassCovers, QuotesPassHolds
  <2>5. Compared(db, market', posted', pass')
    <3> SUFFICES ASSUME NEW k \in MarketKeys \cap db.params, db.value[k] # market[k]
                 PROVE  Checks(posted', pass', k)
      BY <2>1 DEF Compared
    <3>1. MarketKey(k) = k
      BY CanonAssumption DEF MarketKeys, MarketKey, ParamKeys
    <3>2. <<"params", SecOf(k)>> \in posted
      BY <2>1, <3>1, ServiceParts DEF Compared, Checks, NoPass
    <3>3. CASE e = <<"params", SecOf(k)>>
      <4>1. pass' = ParamPass(db, SecOf(k)) /\ SecOf(k) \in SecKeys
        BY <2>1, <2>2, <3>3
      <4> QED
        BY <4>1, TreeFacts, ParamPassCovers DEF Checks
    <3>4. CASE e # <<"params", SecOf(k)>>
      BY <2>1, <3>2, <3>4 DEF Checks
    <3> QED
      BY <3>3, <3>4
  <2> QED
    BY <2>1, <2>3, <2>4, <2>5, OtherStep
<1> QED
  BY <1>1, <1>2, <1>3

\* One parameter is compared: a changed value is stored, and its consumers
\* are those who have still to be served.
LEMMA CheckParamService ==
    ASSUME IInv, ServiceInv, NEW p \in Params, CheckParam(p)
    PROVE  ServiceInv'
<1> DEFINE s == pass.sec
           k == <<s[1], s[2], p>>
           value == market[MarketKey(k)]
           rest == [pass EXCEPT !.todo = @ \ {p}]
<1>1. /\ UNCHANGED <<requested, level2, refused, told, orphaned>>
      /\ market' = market /\ posted' = posted
      /\ pass.kind = "params" /\ pass.to = {} /\ p \in pass.todo
  BY DEF CheckParam, quikVars
<1>2. /\ rest.kind = "params" /\ rest.sec = s /\ rest.to = {}
      /\ rest.todo = pass.todo \ {p} /\ rest.param = pass.param
  BY <1>1, TreeFacts DEF Pass
<1>3. \A j \in MarketKeys \cap db.params :
         SecOf(j) = s /\ j[3] = p => j = k /\ value = market[j]
  <2>1. \A j \in MarketKeys : j \in ParamKeys /\ MarketKey(j) = j
    BY CanonAssumption DEF MarketKeys, MarketKey, ParamKeys
  <2> QED
    BY <2>1 DEF SecOf, ParamKeys
<1>4. CASE s \notin db.secs
  <2>1. UNCHANGED <<db, pass>>
    BY <1>4 DEF CheckParam
  <2> QED
    BY <1>1, <2>1, ServiceParts, OtherStep DEF quikVars
<1>5. CASE s \in db.secs /\ (k \notin db.params \/ value = db.value[k])
  <2>1. db' = db /\ pass' \in {rest, NoPass}
        /\ (rest.todo # {} => pass' = rest)
    BY <1>5 DEF CheckParam, Continue
  <2> HIDE DEF rest
  <2>2. Compared(db, market, posted, pass')
    <3> SUFFICES ASSUME NEW j \in MarketKeys \cap db.params, db.value[j] # market[j]
                 PROVE  Checks(posted, pass', j)
      BY DEF Compared
    <3>1. Checks(posted, pass, j)
      BY ServiceParts DEF Compared
    <3>2. SecOf(j) = s => j[3] # p
      BY <1>3, <1>5
    <3> QED
      BY <1>2, <2>1, <3>1, <3>2 DEF Checks
  <2>3. Told(db, told, pass')
    BY <1>1, ServiceParts DEF Told
  <2>4. PassHolds(pass', db, orphaned)
    BY <1>1, <1>2, <2>1, ServiceParts DEF PassHolds, NoPass
  <2> QED
    BY <1>1, <2>1, <2>2, <2>3, <2>4, OtherStep DEF quikVars
<1>6. CASE s \in db.secs /\ k \in db.params /\ value # db.value[k]
  <2> DEFINE next == [rest EXCEPT !.param = k, !.to = ConsumersList(db, k)]
  <2>1. pass' = Continue(next) /\ db' = [db EXCEPT !.value[k] = value]
    BY <1>6 DEF CheckParam
  <2>2. k \in ParamKeys /\ SecOf(k) = s
    <3>1. k \in ParamKeys
      BY <1>6, TreeFacts DEF Minimal, Db
    <3>2. s \in SecKeys
      BY <1>6, TreeFacts DEF Minimal, Db
    <3> QED
      BY <3>1, <3>2 DEF SecOf, SecKeys
  <2>3. /\ next.kind = "params" /\ next.sec = s /\ next.param = k
        /\ next.todo = pass.todo \ {p} /\ next.to = ConsumersList(db, k)
    <3> HIDE DEF k
    <3> QED
      BY <1>1, TreeFacts DEF Pass
  <2> HIDE DEF rest, value, next
  <2>4. /\ db'.params = db.params /\ db'.quotes = db.quotes
        /\ db'.consumers = db.consumers
        /\ \A j \in ParamKeys : db'.value[j] = IF j = k THEN value ELSE db.value[j]
    <3> HIDE DEF k
    <3> QED
      BY <2>1, <2>2, TreeFacts DEF Minimal, Db
  <2>5. /\ db.consumers \subseteq ParamKeys \X Conns \X Ids
        /\ db.params \subseteq ParamKeys
    BY TreeFacts DEF Minimal, Db
  <2>6. \A x \in db.consumers : x[1] = k => x[2] \in next.to
    <3> SUFFICES ASSUME NEW x \in db.consumers, x[1] = k PROVE x[2] \in next.to
      OBVIOUS
    <3>1. x[2] \in Conns /\ x[3] \in Ids /\ <<k, x[2], x[3]>> \in db.consumers
      BY <2>5, EntryParts
    <3> QED
      BY <2>3, <3>1 DEF ConsumersList, HasConsumer
  <2>7. pass' = next
    <3>1. \E x \in db.consumers : x[1] = k
      BY <1>6, TreeFacts, NodesOfEntries
    <3> QED
      BY <2>1, <2>6, <3>1 DEF Continue
  <2>8. Serves(db', requested', level2', refused')
    BY <1>1, <2>4, ServiceParts DEF Serves
  <2>9. Leaves(db', orphaned', requested', level2', refused')
    BY <1>1, <2>4, ServiceParts DEF Leaves, QuotesConsumersList, HasQuotesConsumer
  <2>10. Compared(db', market', posted', pass')
    <3> SUFFICES ASSUME NEW j \in MarketKeys \cap db.params,
                        db'.value[j] # market[j]
                 PROVE  Checks(posted, next, j)
      BY <1>1, <2>4, <2>7 DEF Compared
    <3>1. j # k \/ value # market[j]
      BY <2>2, <2>4
    <3>2. ~(SecOf(j) = s /\ j[3] = p)
      BY <1>3, <3>1
    <3>3. j # k
      BY <2>2, <3>2
    <3>4. Checks(posted, pass, j)
      BY <2>4, <2>5, <3>3, ServiceParts DEF Compared
    <3> QED
      BY <2>3, <3>2, <3>4 DEF Checks
  <2>11. Told(db', told', pass')
    <3> SUFFICES ASSUME NEW x \in db.consumers
                 PROVE  \/ told[x[2]][x[1]] \in {NoValue, db'.value[x[1]]}
                        \/ next.param = x[1] /\ x[2] \in next.to
      BY <1>1, <2>3, <2>4, <2>7 DEF Told
    <3>1. CASE x[1] = k
      BY <2>3, <2>6, <3>1
    <3>2. CASE x[1] # k
      <4>1. x[1] \in ParamKeys
        BY <2>5, EntryParts
      <4>2. told[x[2]][x[1]] \in {NoValue, db.value[x[1]]}
        BY <1>1, ServiceParts DEF Told
      <4> QED
        BY <2>4, <3>2, <4>1, <4>2
    <3> QED
      BY <3>1, <3>2
  <2>12. PassHolds(pass', db', orphaned')
    BY <1>1, <2>2, <2>3, <2>4, <2>7, ServiceParts DEF PassHolds
  <2>13. Clean(db')
    BY <1>6, <2>4, ServiceParts DEF Clean
  <2> QED
    BY <2>8, <2>9, <2>10, <2>11, <2>12, <2>13, ServicePartsPrime
<1> QED
  BY <1>4, <1>5, <1>6

\* One consumer is told.
LEMMA SendParamService ==
    ASSUME IInv, ServiceInv, NEW c \in Conns, SendParam(c)
    PROVE  ServiceInv'
<1> DEFINE k == pass.param
           t == [told EXCEPT ![c][k] = db.value[k]]
           rest == [pass EXCEPT !.to = @ \ {c}]
<1>1. /\ pass.kind = "params" /\ c \in pass.to
      /\ UNCHANGED quikVars
      /\ market' = market /\ posted' = posted
  BY DEF SendParam, quikVars
<1>2. HasConsumer(db, k, c)
  BY <1>1, InvariantParts DEF SafePass
<1>3. k \in db.params /\ c \in live /\ SubscriptionId(db, k, c) >= 0
  BY <1>2, InvariantParts, SubscriptionIdFound
     DEF TreeInv, EntriesIn, Minimal, EveryNodeHasAParent, HasConsumer
<1>4. Send(c, db, t, orphaned) /\ pass' = Continue(rest)
  BY <1>3 DEF SendParam
<1>5. k \in ParamKeys /\ db.value[k] \in Values \cup {NoValue}
      /\ db.consumers \subseteq ParamKeys \X Conns \X Ids
  BY <1>3, TreeFacts DEF Minimal, Db
<1>6. /\ t \in [Conns -> [ParamKeys -> Values \cup {NoValue}]]
      /\ \A b \in Conns, j \in ParamKeys :
            t[b][j] = IF b = c /\ j = k THEN db.value[k] ELSE told[b][j]
  <2> HIDE DEF k
  <2> QED
    BY <1>5, TreeFacts
<1>7. /\ rest.kind = "params" /\ rest.param = k /\ rest.to = pass.to \ {c}
      /\ rest.todo = pass.todo /\ rest.sec = pass.sec
  BY <1>1, TreeFacts DEF Pass
<1>8. pass' \in {rest, NoPass} /\ (rest.todo # {} \/ rest.to # {} => pass' = rest)
  BY <1>4 DEF Continue
<1> HIDE DEF k, t, rest
<1>9. Told(db, t, pass')
  <2> SUFFICES ASSUME NEW x \in db.consumers
               PROVE  \/ t[x[2]][x[1]] \in {NoValue, db.value[x[1]]}
                      \/ pass' = rest /\ rest.param = x[1] /\ x[2] \in rest.to
    BY <1>7 DEF Told
  <2>1. x[1] \in ParamKeys /\ x[2] \in Conns
    BY <1>5, EntryParts
  <2>2. \/ told[x[2]][x[1]] \in {NoValue, db.value[x[1]]}
        \/ pass.param = x[1] /\ x[2] \in pass.to
    BY ServiceParts DEF Told
  <2> QED
    BY <1>6, <1>7, <1>8, <2>1, <2>2 DEF k
<1>10. PassHolds(pass', db, orphaned)
  BY <1>1, <1>7, <1>8, ServiceParts DEF PassHolds, NoPass, k
<1>11. Compared(db, market, posted, pass')
  BY <1>1, <1>7, <1>8, ServiceParts DEF Compared, Checks
<1>12. /\ \A r, l, f : Serves(db, r, l, f) => Serves(db', r, l, f)
       /\ \A r, f : \A l \in SUBSET SecKeys :
             Leaves(db, orphaned, r, l, f) => Leaves(db', orphaned', r, l, f)
       /\ \A m, po, p : Compared(db, m, po, p) => Compared(db', m, po, p)
       /\ \A p : Told(db, t, p) => Told(db', told', p)
       /\ \A p : PassHolds(p, db, orphaned) => PassHolds(p, db', orphaned')
       /\ Clean(db) => Clean(db')
  BY <1>3, <1>4, <1>6, TreeFacts, SendKeepsService
<1>13. requested' = requested /\ level2' = level2 /\ refused' = refused
  BY <1>1 DEF quikVars
<1> QED
  BY <1>1, <1>9, <1>10, <1>11, <1>12, <1>13, TreeFacts, ServiceParts,
     ServicePartsPrime

LEMMA SendQuotesService ==
    ASSUME IInv, ServiceInv, NEW c \in Conns, SendQuotes(c)
    PROVE  ServiceInv'
<1> DEFINE rest == [pass EXCEPT !.to = @ \ {c}]
<1>1. /\ pass.kind = "quotes" /\ c \in pass.to
      /\ UNCHANGED quikVars
      /\ market' = market /\ posted' = posted
  BY DEF SendQuotes, quikVars
<1>2. HasQuotesConsumer(db, pass.sec, c) /\ c \in live
  BY <1>1, InvariantParts DEF SafePass
<1>3. pass.sec \in db.secs
  BY <1>2, TreeFacts DEF Minimal, EveryNodeHasAParent, HasQuotesConsumer
<1>4. Send(c, db, told, orphaned) /\ pass' = Continue(rest)
  BY <1>2, <1>3 DEF SendQuotes
<1>5. /\ rest.kind = "quotes" /\ rest.todo = pass.todo
      /\ pass.todo = {}
  BY <1>1, TreeFacts, ServiceParts DEF Pass, PassHolds
<1> HIDE DEF rest
<1>6. pass' = NoPass \/ (pass' = rest /\ rest.to # {})
  BY <1>4, <1>5 DEF Continue
<1>7. /\ PassHolds(pass', db, orphaned)
      /\ Compared(db, market, posted, pass')
      /\ Told(db, told, pass')
  <2>1. PassHolds(pass', db, orphaned)
    BY <1>5, <1>6 DEF PassHolds, NoPass
  <2>2. Compared(db, market, posted, pass')
    BY <1>1, ServiceParts DEF Compared, Checks
  <2>3. Told(db, told, pass')
    BY <1>1, ServiceParts DEF Told
  <2> QED
    BY <2>1, <2>2, <2>3
<1>8. /\ \A r, l, f : Serves(db, r, l, f) => Serves(db', r, l, f)
      /\ \A r, f : \A l \in SUBSET SecKeys :
            Leaves(db, orphaned, r, l, f) => Leaves(db', orphaned', r, l, f)
      /\ \A m, po, p : Compared(db, m, po, p) => Compared(db', m, po, p)
      /\ \A p : Told(db, told, p) => Told(db', told', p)
      /\ \A p : PassHolds(p, db, orphaned) => PassHolds(p, db', orphaned')
      /\ Clean(db) => Clean(db')
  BY <1>2, <1>4, TreeFacts, SendKeepsService
<1>9. requested' = requested /\ level2' = level2 /\ refused' = refused
  BY <1>1 DEF quikVars
<1> QED
  BY <1>1, <1>7, <1>8, <1>9, TreeFacts, ServiceParts, ServicePartsPrime

LEMMA InitService == Init => ServiceInv
<1> SUFFICES ASSUME Init PROVE ServiceInv
  OBVIOUS
<1>1. db = EmptyDb /\ requested = {} /\ level2 = {} /\ pass = NoPass
  BY DEF Init
<1>2. Serves(db, requested, level2, refused)
      /\ Leaves(db, orphaned, requested, level2, refused)
  BY <1>1 DEF Serves, Leaves, EmptyDb
<1>3. Compared(db, market, posted, pass) /\ Told(db, told, pass) /\ Clean(db)
  BY <1>1 DEF Compared, Told, Clean, EmptyDb
<1>4. PassHolds(pass, db, orphaned)
  BY <1>1 DEF PassHolds, NoPass
<1> QED
  BY <1>2, <1>3, <1>4, ServiceParts

\* Every step preserves the second invariant.
LEMMA StepService == IInv /\ IInv' /\ ServiceInv /\ [Next]_vars => ServiceInv'
<1> SUFFICES ASSUME IInv, IInv', ServiceInv, [Next]_vars PROVE ServiceInv'
  OBVIOUS
<1>1. ASSUME UNCHANGED <<db, told, orphaned, requested, level2, refused, market,
                         posted, pass>>
      PROVE  ServiceInv'
  BY <1>1, ServiceParts, OtherStep DEF quikVars
<1>2. CASE UNCHANGED vars
  BY <1>1, <1>2 DEF vars, quikVars
<1>3. ASSUME NEW c \in Conns, Connect(c) \/ PeerReset(c) \/ ConnectionLost(c)
      PROVE  ServiceInv'
  <2>1. CASE Connect(c) \/ PeerReset(c)
    BY <1>1, <2>1 DEF Connect, PeerReset, quikVars
  <2>2. CASE ConnectionLost(c)
    BY <2>2, QuietSend DEF ConnectionLost
  <2> QED
    BY <1>3, <2>1, <2>2
<1>4. ASSUME Request PROVE ServiceInv'
  <2>1. ASSUME NEW c \in Conns, RefuseRequest(c) PROVE ServiceInv'
    BY <2>1, QuietSend DEF RefuseRequest
  <2> QED
    BY <1>4, <2>1, SubscribeParamService, UnsubscribeParamService,
       SubscribeQuotesService, UnsubscribeQuotesService DEF Request
<1>5. ASSUME PassStep PROVE ServiceInv'
  BY <1>5, CheckParamService, SendParamService, SendQuotesService DEF PassStep
<1>6. CASE \/ \E k \in MarketKeys, v \in Values : OnParam(k, v)
           \/ \E s \in SecKeys : OnQuote(s)
           \/ \E e \in Events : StartPass(e)
  BY <1>6, UpdateService
<1> QED
  BY <1>2, <1>3, <1>4, <1>5, <1>6 DEF Next, Step

\* Both invariants hold in every reachable state.
THEOREM ServiceInvariant == Spec => [](IInv /\ ServiceInv)
<1>1. Init => IInv /\ ServiceInv
  BY InitInvariant, InitService
<1>2. IInv /\ ServiceInv /\ [Next]_vars => (IInv /\ ServiceInv)'
  BY StepInvariant, StepService
<1> QED
  BY <1>1, <1>2, PTL DEF Spec

\* One client's unsubscription or disconnection never cancels in QUIK what
\* another client still uses: what has a subscriber is requested there, or
\* QUIK has refused.
THEOREM SubscribersAreServed == Spec => []QuikServesSubscribers
<1>1. ServiceInv => QuikServesSubscribers
  BY DEF ServiceInv
<1> QED
  BY <1>1, ServiceInvariant, PTL

\* What stays requested in QUIK without a subscriber was left there by a
\* disconnection or by QUIK's refusal to cancel.
THEOREM LeftoversHaveCause == Spec => []LeftoversComeFromDisconnects
<1>1. ServiceInv => LeftoversComeFromDisconnects
  BY DEF ServiceInv
<1> QED
  BY <1>1, ServiceInvariant, PTL

\* A stored value that differs from QUIK's will be looked at again, however
\* the changes of values, the posted events and the passes interleave.
THEOREM ChangesAreNotLost == Spec => []NoChangeIsLost
<1>1. ServiceInv => NoChangeIsLost
  BY DEF ServiceInv
<1> QED
  BY <1>1, ServiceInvariant, PTL

\* The SecSubs of a running pass goes away only in a parameter pass, between
\* two parameters, and only when disconnections have taken the last
\* subscriber of everything the pass has still to look at.
THEOREM SecSubsLostByDisconnect == Spec => []SecSubsLostOnlyByDisconnect
<1>1. IInv /\ ServiceInv => SecSubsLostOnlyByDisconnect
  <2> SUFFICES ASSUME IInv, ServiceInv, pass.kind # "none", pass.sec \notin db.secs
               PROVE  /\ pass.kind = "params" /\ pass.to = {}
                      /\ \A p \in pass.todo :
                            <<pass.sec[1], pass.sec[2], p>> \in orphaned
    BY DEF SecSubsLostOnlyByDisconnect
  <2>1. PassHolds(pass, db, orphaned) /\ SafePass(pass, db, live) /\ Minimal(db)
        /\ pass \in Pass
    BY ServiceParts, InvariantParts, TreeFacts
  <2>2. pass.kind \in {"none", "params", "quotes"}
        /\ pass.sec \in SecKeys \cup {<< >>}
    BY <2>1 DEF Pass
  <2>3. pass.kind # "quotes"
    BY <2>1 DEF PassHolds, SafePass, HasQuotesConsumer, Minimal, EveryNodeHasAParent
  <2>4. pass.to = {}
    <3> SUFFICES ASSUME NEW c \in pass.to PROVE FALSE
      OBVIOUS
    <3>1. HasConsumer(db, pass.param, c) /\ SecOf(pass.param) = pass.sec
      BY <2>1, <2>2, <2>3 DEF PassHolds, SafePass
    <3> QED
      BY <2>1, <3>1 DEF HasConsumer, Minimal, EveryNodeHasAParent
  <2>5. ASSUME NEW p \in pass.todo PROVE <<pass.sec[1], pass.sec[2], p>> \in orphaned
    <3> DEFINE k == <<pass.sec[1], pass.sec[2], p>>
    <3>1. k \in db.params \cup orphaned
      BY <2>1, <2>2, <2>3 DEF PassHolds
    <3>2. ASSUME k \in db.params PROVE FALSE
      <4>1. SecOf(k) \in db.secs
        BY <2>1, <3>2, NodesOfEntries
      <4>2. SecOf(k) = <<pass.sec[1], pass.sec[2]>> /\ SecOf(k) \in SecKeys
        BY <2>1, <4>1 DEF SecOf, Minimal, Db
      <4>3. pass.sec \in SecKeys
        BY <2>1, <2>2, <2>3 DEF PassHolds
      <4> QED
        BY <4>1, <4>2, <4>3 DEF SecKeys
    <3> QED
      BY <3>1, <3>2
  <2> QED
    BY <2>2, <2>3, <2>4, <2>5
<1> QED
  BY <1>1, ServiceInvariant, PTL

-----------------------------------------------------------------------------
(* Subscriptions implements SubscriptionService, for every set of          *)
(* connections, classes, securities, parameters, ids and values.           *)

\* The subscriptions of a tree, as SubscriptionService sees them.
Subscribed(d) == Pairs({x \in d.consumers : x[1] \in MarketKeys})
Watched(d) == Pairs(d.quotes)

-----------------------------------------------------------------------------
(* The mapping.                                                            *)

\* Each action of SubscriptionService is a step of it.
LEMMA ServiceNext ==
    /\ \A k \in MarketKeys : Abstract!Take(k) => Abstract!Next
    /\ \A c \in Conns, k \in MarketKeys : Abstract!Tell(c, k) => Abstract!Next
  BY DEF Abstract!Next

LEMMA PairsMember ==
    ASSUME NEW E
    PROVE  /\ \A k, c : <<k, c>> \in Pairs(E) <=> \E x \in E : x[1] = k /\ x[2] = c
           /\ \A y \in Pairs(E) : y = <<y[1], y[2]>>
  BY DEF Pairs

\* A class code of QUIK is mapped to itself.
LEMMA MarketKeyFacts ==
    \A k \in MarketKeys : k \in ParamKeys /\ MarketKey(k) = k
  BY CanonAssumption DEF MarketKeys, MarketKey, ParamKeys

\* Two trees with the same entries of QUIK's own class codes have the same
\* subscribers.
LEMMA SameSubscribers ==
    ASSUME NEW d, NEW e,
           \A x : x[1] \in MarketKeys => (x \in d.consumers <=> x \in e.consumers)
    PROVE  Subscribed(d) = Subscribed(e)
  BY DEF Subscribed

\* A parameter of QUIK's own is in the tree exactly if it has a subscriber.
LEMMA SubscribersOfParams ==
    ASSUME NEW d, Minimal(d), NEW k \in MarketKeys
    PROVE  /\ k \in d.params <=> \E c \in Conns : <<k, c>> \in Subscribed(d)
           /\ \A c \in Conns : <<k, c>> \in Subscribed(d) <=> HasConsumer(d, k, c)
<1> DEFINE E == {x \in d.consumers : x[1] \in MarketKeys}
<1>1. d.consumers \subseteq ParamKeys \X Conns \X Ids
  BY DEF Minimal, Db
<1>2. \A c : <<k, c>> \in Subscribed(d) <=> \E x \in E : x[1] = k /\ x[2] = c
  BY PairsMember DEF Subscribed
<1>3. \A c : <<k, c>> \in Subscribed(d) <=>
              \E x \in d.consumers : x[1] = k /\ x[2] = c
  BY <1>2
<1>4. k \in d.params <=> \E x \in d.consumers : x[1] = k
  BY NodesOfEntries
<1>5. ASSUME NEW c \in Conns
      PROVE  (\E x \in d.consumers : x[1] = k /\ x[2] = c) <=> HasConsumer(d, k, c)
  <2>1. ASSUME NEW x \in d.consumers, x[1] = k, x[2] = c PROVE HasConsumer(d, k, c)
    <3>1. x[3] \in Ids /\ <<k, c, x[3]>> \in d.consumers
      BY <1>1, <2>1, EntryParts
    <3> QED
      BY <3>1 DEF HasConsumer
  <2>2. ASSUME HasConsumer(d, k, c)
        PROVE  \E x \in d.consumers : x[1] = k /\ x[2] = c
    <3>1. PICK id \in Ids : <<k, c, id>> \in d.consumers
      BY <2>2 DEF HasConsumer
    <3> QED
      BY <3>1
  <2> QED
    BY <2>1, <2>2
<1>6. \A x \in d.consumers : x[2] \in Conns
  BY <1>1, EntryParts
<1> QED
  BY <1>3, <1>4, <1>5, <1>6

-----------------------------------------------------------------------------
(* The actions of SubscriptionService, by what they do to the variables of *)
(* Subscriptions.                                                          *)

\* What is seen of the values and of the histories does not change.
SameValues == \A k \in MarketKeys : db'.value[k] = db.value[k]
SameTold == \A c \in Conns, k \in MarketKeys : told'[c][k] = told[c][k]
SameOwed == Owed(pass') = Owed(pass)
ValuesOfSubscribers ==
    \A k \in MarketKeys :
        db'.value[k] = IF \E c \in Conns : <<k, c>> \in Subscribed(db')
                         THEN db.value[k] ELSE NoValue

\* The entries that are not of c.
OfOthers(E, c) == {x \in E : x[2] # c}

\* Outside of the loop that sends a value nothing is owed.
LEMMA NothingOwed ==
    ASSUME NEW p, p.kind # "params" \/ p.to = {}
    PROVE  Owed(p) = {}
  BY DEF Owed

LEMMA IdleOwesNothing == Owed(NoPass) = {}
  BY NothingOwed DEF NoPass

\* A pass begins without a value to send.
LEMMA NewPassOwesNothing ==
    ASSUME NEW d, NEW s
    PROVE  Owed(ParamPass(d, s)) = {} /\ Owed(QuotesPass(d, s)) = {}
<1>1. ParamPass(d, s).to = {}
  BY DEF ParamPass, Continue, NoPass
<1>2. QuotesPass(d, s).kind # "params"
  BY DEF QuotesPass, Continue, NoPass
<1> QED
  BY <1>1, <1>2, NothingOwed

\* The histories, and a change of one client's.
Known(t) == [c \in Conns |-> [k \in MarketKeys |-> t[c][k]]]
KnownExcept(t, c, k, v) == [Known(t) EXCEPT ![c][k] = v]

LEMMA KnownOfLeaver ==
    ASSUME NEW t, NEW u, NEW c \in Conns,
           \A b \in Conns, j \in MarketKeys :
              u[b][j] = IF b = c THEN NoValue ELSE t[b][j]
    PROVE  Known(u) = [Known(t) EXCEPT ![c] = [k \in MarketKeys |-> NoValue]]
<1>1. \A b \in Conns \ {c} : [k \in MarketKeys |-> u[b][k]]
                              = [k \in MarketKeys |-> t[b][k]]
  OBVIOUS
<1>2. [k \in MarketKeys |-> u[c][k]] = [k \in MarketKeys |-> NoValue]
  OBVIOUS
<1> QED
  BY <1>1, <1>2 DEF Known

LEMMA KnownOfOne ==
    ASSUME NEW t, NEW u, NEW c \in Conns, NEW k \in MarketKeys, NEW v,
           \A b \in Conns, j \in MarketKeys :
              u[b][j] = IF b = c /\ j = k THEN v ELSE t[b][j]
    PROVE  Known(u) = KnownExcept(t, c, k, v)
<1>1. \A b \in Conns \ {c} : [j \in MarketKeys |-> u[b][j]]
                              = [j \in MarketKeys |-> t[b][j]]
  OBVIOUS
<1>2. [j \in MarketKeys |-> u[c][j]]
      = [[j \in MarketKeys |-> t[c][j]] EXCEPT ![k] = v]
  OBVIOUS
<1>3. KnownExcept(t, c, k, v) = [Known(t) EXCEPT ![c] = [Known(t)[c] EXCEPT ![k] = v]]
  BY DEF KnownExcept, Known
<1>4. Known(t)[c] = [j \in MarketKeys |-> t[c][j]]
  BY DEF Known
<1>5. Known(u) = [Known(t) EXCEPT ![c] = Known(u)[c]]
  BY <1>1 DEF Known
<1>6. Known(u)[c] = [Known(t)[c] EXCEPT ![k] = v]
  BY <1>2, <1>4 DEF Known
<1> QED
  BY <1>3, <1>5, <1>6

LEMMA ServiceStutters ==
    ASSUME live' = live, Subscribed(db') = Subscribed(db),
           Watched(db') = Watched(db), SameValues, SameTold, SameOwed,
           market' = market
    PROVE  UNCHANGED Abstract!vars
  BY DEF Abstract!vars, Subscribed, Watched, SameValues, SameTold, SameOwed

LEMMA ServiceJoin ==
    ASSUME NEW c \in Conns, live' = live \cup {c}, UNCHANGED <<db, told, market>>,
           SameOwed
    PROVE  Abstract!Join(c)
  BY DEF Abstract!Join, SameOwed

LEMMA ServiceLeave ==
    ASSUME NEW c \in Conns, live' = live \ {c},
           Subscribed(db') = {x \in Subscribed(db) : x[2] # c},
           Watched(db') = {x \in Watched(db) : x[2] # c},
           \A b \in Conns, k \in MarketKeys :
              told'[b][k] = IF b = c THEN NoValue ELSE told[b][k],
           Owed(pass') = OfOthers(Owed(pass), c),
           ValuesOfSubscribers, market' = market
    PROVE  Abstract!Leave(c)
<1>1. Known(told') = [Known(told) EXCEPT ![c] = [k \in MarketKeys |-> NoValue]]
  BY KnownOfLeaver
<1>2. [k \in MarketKeys |-> db'.value[k]]
      = [k \in MarketKeys |-> IF \E b \in Conns : <<k, b>> \in Subscribed(db')
                               THEN db.value[k] ELSE NoValue]
  BY DEF ValuesOfSubscribers
<1> QED
  BY <1>1, <1>2 DEF Abstract!Leave, Abstract!KeepForSubscribers, Subscribed, Watched,
     Known, OfOthers

LEMMA ServiceSubscribe ==
    ASSUME NEW c \in live, c \in Conns, NEW k \in MarketKeys, live' = live,
           <<k, c>> \notin Subscribed(db), SameOwed,
           Subscribed(db') = Subscribed(db) \cup {<<k, c>>},
           Watched(db') = Watched(db), SameValues,
           \A b \in Conns, j \in MarketKeys :
              told'[b][j] = IF b = c /\ j = k THEN NoValue ELSE told[b][j],
           market' = market
    PROVE  Abstract!Subscribe(c, k)
<1>1. Known(told') = KnownExcept(told, c, k, NoValue)
  BY KnownOfOne
<1> QED
  BY <1>1 DEF Abstract!Subscribe, Subscribed, Watched, SameValues, SameOwed, Known,
     KnownExcept

LEMMA ServiceUnsubscribe ==
    ASSUME NEW c \in Conns, NEW k \in MarketKeys, live' = live,
           Subscribed(db') = Subscribed(db) \ {<<k, c>>},
           Watched(db') = Watched(db), ValuesOfSubscribers,
           \A b \in Conns, j \in MarketKeys :
              told'[b][j] = IF b = c /\ j = k THEN NoValue ELSE told[b][j],
           Owed(pass) = {}, Owed(pass') = {}, market' = market
    PROVE  Abstract!Unsubscribe(c, k)
<1>1. Known(told') = KnownExcept(told, c, k, NoValue)
  BY KnownOfOne
<1>2. [j \in MarketKeys |-> db'.value[j]]
      = [j \in MarketKeys |-> IF \E b \in Conns : <<j, b>> \in Subscribed(db')
                               THEN db.value[j] ELSE NoValue]
  BY DEF ValuesOfSubscribers
<1> QED
  BY <1>1, <1>2 DEF Abstract!Unsubscribe, Abstract!KeepForSubscribers, Subscribed,
     Watched, Known, KnownExcept

LEMMA ServiceWatch ==
    ASSUME NEW c \in live, NEW s \in SecKeys, live' = live,
           Subscribed(db') = Subscribed(db),
           Watched(db') = Watched(db) \cup {<<s, c>>},
           SameValues, SameTold, SameOwed, market' = market
    PROVE  Abstract!Watch(c, s)
  BY DEF Abstract!Watch, Subscribed, Watched, SameValues, SameTold, SameOwed

LEMMA ServiceUnwatch ==
    ASSUME NEW c \in live, NEW s \in SecKeys, live' = live,
           Subscribed(db') = Subscribed(db),
           Watched(db') = Watched(db) \ {<<s, c>>},
           SameValues, SameTold, SameOwed, market' = market
    PROVE  Abstract!Unwatch(c, s)
  BY DEF Abstract!Unwatch, Subscribed, Watched, SameValues, SameTold, SameOwed

LEMMA ServiceChange ==
    ASSUME NEW k \in MarketKeys, NEW v, market' = [market EXCEPT ![k] = v],
           UNCHANGED <<live, db, told>>, SameOwed
    PROVE  Abstract!Change(k, v)
  BY DEF Abstract!Change, SameOwed

LEMMA ServiceTake ==
    ASSUME NEW k \in MarketKeys, \E c \in Conns : <<k, c>> \in Subscribed(db),
           market[k] # db.value[k], Owed(pass) = {},
           Owed(pass') = {<<k, c>> : c \in {b \in Conns : <<k, b>> \in Subscribed(db)}},
           Subscribed(db') = Subscribed(db), Watched(db') = Watched(db),
           \A j \in MarketKeys :
              db'.value[j] = IF j = k THEN market[k] ELSE db.value[j],
           live' = live, told' = told, market' = market
    PROVE  Abstract!Take(k)
  BY DEF Abstract!Take, Abstract!Subscribers, Subscribed, Watched

LEMMA ServiceTell ==
    ASSUME NEW c \in Conns, NEW k \in MarketKeys, <<k, c>> \in Owed(pass),
           Owed(pass') = Owed(pass) \ {<<k, c>>},
           \A b \in Conns, j \in MarketKeys :
              told'[b][j] = IF b = c /\ j = k THEN db.value[k] ELSE told[b][j],
           live' = live, db' = db, market' = market
    PROVE  Abstract!Tell(c, k)
<1>1. Known(told') = KnownExcept(told, c, k, db.value[k])
  BY KnownOfOne
<1> QED
  BY <1>1 DEF Abstract!Tell, Subscribed, Known, KnownExcept

-----------------------------------------------------------------------------
(* What the operations on the tree are to the sets of subscriptions.       *)

WithOne(E, k, c, id) == E \cup {<<k, c, id>>}
AllBut(E, k, c) == {x \in E : ~(x[1] = k /\ x[2] = c)}

LEMMA PairsOfOthers ==
    ASSUME NEW E, NEW c
    PROVE  Pairs(OfOthers(E, c)) = OfOthers(Pairs(E), c)
  BY DEF Pairs, OfOthers

LEMMA PairsWithoutOne ==
    ASSUME NEW E, NEW k, NEW c
    PROVE  Pairs(AllBut(E, k, c)) = Pairs(E) \ {<<k, c>>}
  BY DEF Pairs, AllBut

LEMMA PairsWithOne ==
    ASSUME NEW E, NEW k, NEW c, NEW id
    PROVE  Pairs(WithOne(E, k, c, id)) = Pairs(E) \cup {<<k, c>>}
<1> DEFINE F == E \cup {<<k, c, id>>}
<1>1. \A x \in F : x \in E \/ (x[1] = k /\ x[2] = c)
  OBVIOUS
<1>2. \E x \in F : x[1] = k /\ x[2] = c
  <2> WITNESS <<k, c, id>> \in F
  <2> QED
    OBVIOUS
<1>3. E \subseteq F
  OBVIOUS
<1> HIDE DEF F
<1>4. Pairs(F) \subseteq Pairs(E) \cup {<<k, c>>}
  BY <1>1 DEF Pairs
<1>5. Pairs(E) \subseteq Pairs(F) /\ <<k, c>> \in Pairs(F)
  BY <1>2, <1>3 DEF Pairs
<1> QED
  BY <1>4, <1>5 DEF F, WithOne

\* Only the client in question may lose or gain entries while its request is
\* handled; if the send then fails, what is seen is that it leaves.
OthersKeep(d, t, c) ==
    /\ \A x : x[2] # c => /\ x \in d.consumers <=> x \in db.consumers
                          /\ x \in d.quotes <=> x \in db.quotes
    /\ \A k \in d.params \cap db.params : d.value[k] = db.value[k]
    /\ \A b \in Conns \ {c} : t[b] = told[b]

LEMMA DropIsLeave ==
    ASSUME IInv, NEW c \in live, NEW d, Minimal(d), NEW o,
           NEW t \in [Conns -> [ParamKeys -> Values \cup {NoValue}]],
           OthersKeep(d, t, c), Drop(c, d, t, o), market' = market,
           Owed(pass') = OfOthers(Owed(pass), c)
    PROVE  Abstract!Leave(c)
<1> DEFINE left == ClearAllSubscriptions(d, c)
<1>1. /\ live' = live \ {c} /\ db' = left
      /\ told' = [t EXCEPT ![c] = Nothing]
      /\ c \in Conns
  BY TreeFacts DEF Drop, TreeInv
<1>2. Minimal(left) /\ ValuesFrom(left, d)
  BY ClearAllIsMinimal
<1>3. /\ left.consumers = {x \in d.consumers : x[2] # c}
      /\ left.quotes = {x \in d.quotes : x[2] # c}
      /\ \A k \in ParamKeys \ left.params : left.value[k] = NoValue
  BY DEF ClearAllSubscriptions
<1> HIDE DEF left
<1>4. Subscribed(left) = OfOthers(Subscribed(db), c)
  <2> DEFINE entries == {x \in db.consumers : x[1] \in MarketKeys}
  <2>1. {x \in left.consumers : x[1] \in MarketKeys} = OfOthers(entries, c)
    BY <1>3 DEF OthersKeep, OfOthers
  <2> QED
    BY <2>1, PairsOfOthers DEF Subscribed
<1>5. Watched(left) = OfOthers(Watched(db), c)
  <2>1. left.quotes = OfOthers(db.quotes, c)
    BY <1>3 DEF OthersKeep, OfOthers
  <2> QED
    BY <2>1, PairsOfOthers DEF Watched
<1>6. \A b \in Conns, k \in MarketKeys :
         told'[b][k] = IF b = c THEN NoValue ELSE told[b][k]
  BY <1>1, MarketKeyFacts DEF OthersKeep, Nothing
<1>7. ASSUME NEW k \in MarketKeys
      PROVE  left.value[k] = IF \E b \in Conns : <<k, b>> \in Subscribed(left)
                               THEN db.value[k] ELSE NoValue
  <2>1. k \in left.params <=> \E b \in Conns : <<k, b>> \in Subscribed(left)
    BY <1>2, SubscribersOfParams
  <2>2. ASSUME k \in left.params PROVE left.value[k] = db.value[k]
    <3>1. k \in d.params /\ left.value[k] = d.value[k]
      BY <1>2, <2>2 DEF ValuesFrom
    <3>2. \E x \in left.consumers : x[1] = k
      BY <1>2, <2>2, NodesOfEntries
    <3>3. \E x \in db.consumers : x[1] = k
      BY <1>3, <3>2 DEF OthersKeep
    <3>4. k \in db.params
      BY <3>3, TreeFacts, NodesOfEntries
    <3> QED
      BY <3>1, <3>4 DEF OthersKeep
  <2> QED
    BY <1>3, <2>1, <2>2, MarketKeyFacts
<1>8. ValuesOfSubscribers
  BY <1>1, <1>7 DEF ValuesOfSubscribers
<1> QED
  BY <1>1, <1>4, <1>5, <1>6, <1>8, ServiceLeave DEF OfOthers

\* The send of a handler: what its client did is seen, or that it left.
LEMMA SendIsStepOrLeave ==
    ASSUME IInv, NEW c \in live, NEW d, Minimal(d), NEW o,
           NEW t \in [Conns -> [ParamKeys -> Values \cup {NoValue}]],
           OthersKeep(d, t, c), Send(c, d, t, o), market' = market,
           Owed(pass') = OfOthers(Owed(pass), c)
    PROVE  \/ Abstract!Leave(c)
           \/ live' = live /\ db' = d /\ told' = t
<1>1. CASE c \in reset
  BY <1>1, DropIsLeave DEF Send
<1>2. CASE c \notin reset
  BY <1>2 DEF Send
<1> QED
  BY <1>1, <1>2

\* A handler that has changed nothing.
LEMMA QuietSendRefines ==
    ASSUME IInv, NEW c \in live,
           Send(c, db, told, orphaned) \/ Drop(c, db, told, orphaned),
           market' = market, Owed(pass) = {}, Owed(pass') = {}
    PROVE  Abstract!Leave(c) \/ UNCHANGED Abstract!vars
<1>1. OthersKeep(db, told, c)
  BY DEF OthersKeep
<1>2. \/ Abstract!Leave(c)
      \/ live' = live /\ db' = db /\ told' = told
  BY <1>1, TreeFacts, DropIsLeave, SendIsStepOrLeave DEF OfOthers
<1> QED
  BY <1>2, ServiceStutters DEF SameValues, SameTold, SameOwed

-----------------------------------------------------------------------------
(* The steps.                                                              *)

LEMMA SubscribeParamRefines ==
    ASSUME IInv, ServiceInv, NEW c \in Conns, NEW k \in ParamKeys, NEW id \in Ids,
           NEW answer \in BOOLEAN, SubscribeParam(c, k, id, answer)
    PROVE  [Abstract!Next]_Abstract!vars
<1>1. /\ c \in live /\ market' = market
      /\ Owed(pass) = {} /\ Owed(pass') = {}
  <2>1. pass = NoPass /\ pass' \in {NoPass, ParamPass(db', SecOf(k))}
    BY DEF SubscribeParam, Idle
  <2> QED
    BY <2>1, IdleOwesNothing, NewPassOwesNothing DEF SubscribeParam
<1>2. CASE HasConsumer(db, k, c)
  <2>1. Abstract!Leave(c) \/ UNCHANGED Abstract!vars
    BY <1>1, <1>2, QuietSendRefines DEF SubscribeParam
  <2> QED
    BY <2>1 DEF Abstract!Next
<1>3. CASE ~HasConsumer(db, k, c)
  <2> DEFINE d == AddConsumer(db, k, c, id)
             t == [told EXCEPT ![c][k] = NoValue]
  <2>1. \E o : Send(c, d, t, o)
    BY <1>3 DEF SubscribeParam
  <2>2. Minimal(d)
    BY TreeFacts, AddConsumerIsMinimal
  <2>3. /\ d.consumers = db.consumers \cup {<<k, c, id>>}
        /\ d.quotes = db.quotes
        /\ \A j \in ParamKeys : d.value[j] = db.value[j]
    <3>1. d.consumers = db.consumers \cup {<<k, c, id>>} /\ d.quotes = db.quotes
      BY <1>3, TreeFacts DEF AddConsumer, Minimal, Db
    <3>2. \A j \in ParamKeys : d.value[j] = IF j = k /\ k \notin db.params THEN NoValue
                                            ELSE db.value[j]
      BY TreeFacts DEF AddConsumer, Minimal, Db
    <3>3. k \notin db.params => db.value[k] = NoValue
      BY ServiceParts DEF Clean
    <3> QED
      BY <3>1, <3>2, <3>3
  <2>4. /\ t \in [Conns -> [ParamKeys -> Values \cup {NoValue}]]
        /\ \A b \in Conns, j \in ParamKeys :
              t[b][j] = IF b = c /\ j = k THEN NoValue ELSE told[b][j]
        /\ \A b \in Conns \ {c} : t[b] = told[b]
    BY TreeFacts
  <2> HIDE DEF d, t
  <2>5. OthersKeep(d, t, c)
    <3>1. \A x : x[2] # c => (x \in d.consumers <=> x \in db.consumers)
      BY <2>3
    <3>2. \A j \in d.params : j \in ParamKeys
      BY <2>2 DEF Minimal, Db
    <3> QED
      BY <2>3, <2>4, <3>1, <3>2 DEF OthersKeep
  <2>6. Abstract!Leave(c) \/ (live' = live /\ db' = d /\ told' = t)
    BY <1>1, <2>1, <2>2, <2>4, <2>5, SendIsStepOrLeave DEF OfOthers
  <2>7. ASSUME live' = live, db' = d, told' = t, k \in MarketKeys
        PROVE  Abstract!Subscribe(c, k)
    <3> DEFINE entries == {x \in db.consumers : x[1] \in MarketKeys}
    <3>1. {x \in d.consumers : x[1] \in MarketKeys} = WithOne(entries, k, c, id)
      BY <2>3, <2>7 DEF WithOne
    <3>2. Subscribed(d) = Subscribed(db) \cup {<<k, c>>}
      <4>1. Subscribed(d) = Pairs(WithOne(entries, k, c, id))
        BY <3>1 DEF Subscribed
      <4>2. Subscribed(db) = Pairs(entries)
        BY DEF Subscribed
      <4> HIDE DEF entries
      <4>3. Pairs(WithOne(entries, k, c, id)) = Pairs(entries) \cup {<<k, c>>}
        BY PairsWithOne
      <4> QED
        BY <4>1, <4>2, <4>3
    <3>3. Watched(d) = Watched(db)
      BY <2>3 DEF Watched
    <3>4. SameValues
      BY <2>3, <2>7, MarketKeyFacts DEF SameValues
    <3>5. <<k, c>> \notin Subscribed(db)
      BY <1>3, <2>7, TreeFacts, SubscribersOfParams
    <3> QED
      BY <1>1, <2>4, <2>7, <3>2, <3>3, <3>4, <3>5, MarketKeyFacts, ServiceSubscribe
         DEF SameOwed
  <2>8. ASSUME live' = live, db' = d, told' = t, k \notin MarketKeys
        PROVE  UNCHANGED Abstract!vars
    <3>1. Subscribed(d) = Subscribed(db)
      BY <2>3, <2>8, SameSubscribers
    <3>2. Watched(d) = Watched(db)
      BY <2>3 DEF Watched
    <3>3. SameValues /\ SameTold
      BY <2>3, <2>4, <2>8, MarketKeyFacts DEF SameValues, SameTold
    <3> QED
      BY <1>1, <2>8, <3>1, <3>2, <3>3, ServiceStutters DEF SameOwed
  <2> QED
    BY <2>6, <2>7, <2>8 DEF Abstract!Next
<1> QED
  BY <1>2, <1>3

LEMMA UnsubscribeParamRefines ==
    ASSUME IInv, ServiceInv, NEW c \in Conns, NEW k \in ParamKeys,
           NEW answer \in BOOLEAN, UnsubscribeParam(c, k, answer)
    PROVE  [Abstract!Next]_Abstract!vars
<1> DEFINE d == DelConsumer(db, k, c)
           t == [told EXCEPT ![c][k] = NoValue]
<1>1. /\ c \in live /\ market' = market /\ Send(c, d, t, orphaned)
      /\ Owed(pass) = {} /\ Owed(pass') = {}
  BY IdleOwesNothing DEF UnsubscribeParam, Idle
<1>2. /\ Minimal(d)
      /\ d.consumers = AllBut(db.consumers, k, c)
      /\ d.quotes = db.quotes
      /\ ValuesFrom(d, db)
  BY TreeFacts, DelConsumerIsMinimal DEF AllBut
<1>3. /\ t \in [Conns -> [ParamKeys -> Values \cup {NoValue}]]
      /\ \A b \in Conns, j \in ParamKeys :
            t[b][j] = IF b = c /\ j = k THEN NoValue ELSE told[b][j]
      /\ \A b \in Conns \ {c} : t[b] = told[b]
  BY TreeFacts
<1> HIDE DEF d, t
<1>4. OthersKeep(d, t, c)
  BY <1>2, <1>3 DEF OthersKeep, AllBut, ValuesFrom
<1>5. Abstract!Leave(c) \/ (live' = live /\ db' = d /\ told' = t)
  BY <1>1, <1>2, <1>3, <1>4, SendIsStepOrLeave DEF OfOthers
<1>6. Watched(d) = Watched(db)
  BY <1>2 DEF Watched
<1>7. \A j \in ParamKeys : d.value[j] = IF j \in d.params THEN db.value[j] ELSE NoValue
  BY <1>2, ServiceParts DEF ValuesFrom, Clean
<1>8. ASSUME live' = live, db' = d, told' = t, k \in MarketKeys
      PROVE  Abstract!Unsubscribe(c, k)
  <2> DEFINE entries == {x \in db.consumers : x[1] \in MarketKeys}
  <2>1. {x \in d.consumers : x[1] \in MarketKeys} = AllBut(entries, k, c)
    BY <1>2 DEF AllBut
  <2>2. Subscribed(d) = Subscribed(db) \ {<<k, c>>}
    BY <2>1, PairsWithoutOne DEF Subscribed
  <2>3. ValuesOfSubscribers
    BY <1>2, <1>7, <1>8, MarketKeyFacts, SubscribersOfParams DEF ValuesOfSubscribers
  <2> QED
    BY <1>1, <1>3, <1>6, <1>8, <2>2, <2>3, MarketKeyFacts, ServiceUnsubscribe
<1>9. ASSUME live' = live, db' = d, told' = t, k \notin MarketKeys
      PROVE  UNCHANGED Abstract!vars
  <2>1. \A x : x[1] \in MarketKeys => (x \in d.consumers <=> x \in db.consumers)
    BY <1>2, <1>9 DEF AllBut
  <2>2. Subscribed(d) = Subscribed(db)
    BY <2>1, SameSubscribers
  <2>3. \A j \in MarketKeys : j \in d.params <=> j \in db.params
    BY <1>2, <2>2, TreeFacts, SubscribersOfParams
  <2>4. SameValues
    BY <1>7, <1>9, <2>3, MarketKeyFacts, ServiceParts DEF SameValues, Clean
  <2>5. SameTold
    BY <1>3, <1>9, MarketKeyFacts DEF SameTold
  <2> QED
    BY <1>1, <1>6, <1>9, <2>2, <2>4, <2>5, ServiceStutters DEF SameOwed
<1> QED
  BY <1>5, <1>8, <1>9 DEF Abstract!Next

LEMMA SubscribeQuotesRefines ==
    ASSUME IInv, ServiceInv, NEW c \in Conns, NEW s \in SecKeys, NEW id \in Ids,
           NEW answer \in BOOLEAN, SubscribeQuotes(c, s, id, answer)
    PROVE  [Abstract!Next]_Abstract!vars
<1>1. /\ c \in live /\ market' = market
      /\ Owed(pass) = {} /\ Owed(pass') = {}
  <2>1. pass = NoPass /\ pass' \in {NoPass, QuotesPass(db', s)}
    BY DEF SubscribeQuotes, Idle
  <2> QED
    BY <2>1, IdleOwesNothing, NewPassOwesNothing DEF SubscribeQuotes
<1>2. CASE HasQuotesConsumer(db, s, c)
  <2>1. Abstract!Leave(c) \/ UNCHANGED Abstract!vars
    BY <1>1, <1>2, QuietSendRefines DEF SubscribeQuotes
  <2> QED
    BY <2>1 DEF Abstract!Next
<1>3. CASE ~HasQuotesConsumer(db, s, c)
  <2> DEFINE d == AddQuotesConsumer(db, s, c, id)
  <2>1. \E o : Send(c, d, told, o)
    BY <1>3 DEF SubscribeQuotes
  <2>2. Minimal(d)
    BY TreeFacts, AddQuotesConsumerIsMinimal
  <2>3. /\ d.quotes = db.quotes \cup {<<s, c, id>>}
        /\ d.consumers = db.consumers
        /\ d.value = db.value
    BY <1>3, TreeFacts DEF AddQuotesConsumer, Minimal, Db
  <2> HIDE DEF d
  <2>4. OthersKeep(d, told, c)
    <3>1. \A x : x[2] # c => (x \in d.quotes <=> x \in db.quotes)
      BY <2>3
    <3> QED
      BY <2>3, <3>1 DEF OthersKeep
  <2>5. Abstract!Leave(c) \/ (live' = live /\ db' = d /\ told' = told)
    BY <1>1, <2>1, <2>2, <2>4, TreeFacts, SendIsStepOrLeave DEF OfOthers
  <2>6. ASSUME live' = live, db' = d, told' = told PROVE Abstract!Watch(c, s)
    <3>1. Subscribed(d) = Subscribed(db)
      BY <2>3 DEF Subscribed
    <3>2. Watched(d) = Watched(db) \cup {<<s, c>>}
      <4>1. d.quotes = WithOne(db.quotes, s, c, id)
        BY <2>3 DEF WithOne
      <4> QED
        BY <4>1, PairsWithOne DEF Watched
    <3>3. SameValues /\ SameTold
      BY <2>3, <2>6 DEF SameValues, SameTold
    <3> QED
      BY <1>1, <2>6, <3>1, <3>2, <3>3, ServiceWatch DEF SameOwed
  <2> QED
    BY <2>5, <2>6 DEF Abstract!Next
<1> QED
  BY <1>2, <1>3

LEMMA UnsubscribeQuotesRefines ==
    ASSUME IInv, ServiceInv, NEW c \in Conns, NEW s \in SecKeys,
           NEW answer \in BOOLEAN, UnsubscribeQuotes(c, s, answer)
    PROVE  [Abstract!Next]_Abstract!vars
<1> DEFINE d == DelQuotesConsumer(db, s, c)
<1>1. /\ c \in live /\ market' = market /\ Send(c, d, told, orphaned)
      /\ Owed(pass) = {} /\ Owed(pass') = {}
  BY IdleOwesNothing DEF UnsubscribeQuotes, Idle
<1>2. /\ Minimal(d)
      /\ d.quotes = AllBut(db.quotes, s, c)
      /\ d.consumers = db.consumers
      /\ ValuesFrom(d, db)
  BY TreeFacts, DelQuotesConsumerIsMinimal DEF AllBut
<1> HIDE DEF d
<1>3. OthersKeep(d, told, c)
  BY <1>2 DEF OthersKeep, AllBut, ValuesFrom
<1>4. Abstract!Leave(c) \/ (live' = live /\ db' = d /\ told' = told)
  BY <1>1, <1>2, <1>3, TreeFacts, SendIsStepOrLeave DEF OfOthers
<1>5. ASSUME live' = live, db' = d, told' = told PROVE Abstract!Unwatch(c, s)
  <2>1. Subscribed(d) = Subscribed(db)
    BY <1>2 DEF Subscribed
  <2>2. Watched(d) = Watched(db) \ {<<s, c>>}
    BY <1>2, PairsWithoutOne DEF Watched
  <2>3. \A k \in MarketKeys : k \in d.params <=> k \in db.params
    BY <1>2, <2>1, TreeFacts, SubscribersOfParams
  <2>4. \A k \in MarketKeys : d.value[k] = db.value[k]
    BY <1>2, <2>3, MarketKeyFacts, ServiceParts DEF ValuesFrom, Clean
  <2>5. SameValues /\ SameTold
    BY <1>5, <2>4 DEF SameValues, SameTold
  <2> QED
    BY <1>1, <1>5, <2>1, <2>2, <2>5, ServiceUnwatch DEF SameOwed
<1> QED
  BY <1>4, <1>5 DEF Abstract!Next

\* A value is taken into the tree only when nobody is owed the one before,
\* and is then owed to every subscriber.
LEMMA CheckParamRefines ==
    ASSUME IInv, ServiceInv, NEW p \in Params, CheckParam(p)
    PROVE  [Abstract!Next]_Abstract!vars
<1> DEFINE k == <<pass.sec[1], pass.sec[2], p>>
           value == market[MarketKey(k)]
           rest == [pass EXCEPT !.todo = @ \ {p}]
           next == [rest EXCEPT !.param = k, !.to = ConsumersList(db, k)]
<1>1. /\ live' = live /\ told' = told /\ market' = market
      /\ pass.kind = "params" /\ pass.to = {}
  BY DEF CheckParam
<1>2. Owed(pass) = {}
  BY <1>1, NothingOwed
<1>3. \/ db' = db /\ pass' \in {pass, Continue(rest)}
      \/ /\ k \in db.params /\ value # db.value[k]
         /\ db' = [db EXCEPT !.value[k] = value]
         /\ pass' = Continue(next)
  BY DEF CheckParam
<1>4. CASE db' = db /\ pass' \in {pass, Continue(rest)}
  <2>1. pass'.to = {}
    BY <1>1, <1>4, TreeFacts DEF Pass, Continue, NoPass
  <2>2. SameOwed
    BY <1>2, <2>1, NothingOwed DEF SameOwed
  <2> QED
    BY <1>1, <1>4, <2>2, ServiceStutters DEF SameValues, SameTold
<1>5. CASE /\ k \in db.params /\ value # db.value[k]
           /\ db' = [db EXCEPT !.value[k] = value]
           /\ pass' = Continue(next)
  <2>1. k \in ParamKeys
    BY <1>5, TreeFacts DEF Minimal, Db
  <2>2. /\ next.kind = "params" /\ next.param = k /\ next.to = ConsumersList(db, k)
    <3> HIDE DEF k
    <3> QED
      BY <1>1, TreeFacts DEF Pass
  <2> HIDE DEF k, value, next
  <2>3. /\ db'.consumers = db.consumers /\ db'.quotes = db.quotes
        /\ \A j \in ParamKeys : db'.value[j] = IF j = k THEN value ELSE db.value[j]
    BY <1>5, <2>1, TreeFacts DEF Minimal, Db
  <2>4. Subscribed(db') = Subscribed(db) /\ Watched(db') = Watched(db)
    BY <2>3 DEF Subscribed, Watched
  <2>5. CASE k \notin MarketKeys
    <3>1. SameValues /\ SameTold
      BY <1>1, <2>3, <2>5, MarketKeyFacts DEF SameValues, SameTold
    <3>2. Owed(next) = {} /\ Owed(pass') \in {Owed(next), Owed(NoPass)}
      BY <1>5, <2>2, <2>5 DEF Owed, Continue
    <3>3. SameOwed
      BY <1>2, <3>2, IdleOwesNothing DEF SameOwed
    <3> QED
      BY <1>1, <2>4, <3>1, <3>3, ServiceStutters
  <2>6. CASE k \in MarketKeys
    <3> PICK key \in MarketKeys : key = k
      BY <2>6
    <3>1. \E c \in Conns : <<key, c>> \in Subscribed(db)
      BY <1>5, TreeFacts, SubscribersOfParams
    <3>2. \A c \in Conns : <<key, c>> \in Subscribed(db) <=> HasConsumer(db, key, c)
      BY TreeFacts, SubscribersOfParams
    <3>3. next.to = {c \in Conns : <<key, c>> \in Subscribed(db)}
      BY <2>2, <3>2 DEF ConsumersList
    <3>4. pass' = next
      BY <1>5, <3>1, <3>3 DEF Continue
    <3>5. Owed(pass') = {<<key, c>> : c \in {b \in Conns : <<key, b>> \in Subscribed(db)}}
      BY <2>2, <3>3, <3>4 DEF Owed
    <3>6. \A j \in MarketKeys :
             db'.value[j] = IF j = key THEN market[key] ELSE db.value[j]
      BY <2>3, MarketKeyFacts DEF value
    <3>7. market[key] # db.value[key]
      BY <1>5, MarketKeyFacts DEF value
    <3>8. Abstract!Take(key)
      BY <1>1, <1>2, <2>4, <3>1, <3>5, <3>6, <3>7, ServiceTake
    <3> QED
      BY <3>8, ServiceNext
  <2> QED
    BY <2>5, <2>6
<1> QED
  BY <1>3, <1>4, <1>5

\* One turn of the loop that sends: one client is owed the value no longer.
LEMMA SendParamRefines ==
    ASSUME IInv, ServiceInv, NEW c \in Conns, SendParam(c)
    PROVE  [Abstract!Next]_Abstract!vars
<1> DEFINE k == pass.param
           t == [told EXCEPT ![c][k] = db.value[k]]
           rest == [pass EXCEPT !.to = @ \ {c}]
<1>1. pass.kind = "params" /\ c \in pass.to /\ market' = market
  BY DEF SendParam
<1>2. HasConsumer(db, k, c)
  BY <1>1, InvariantParts DEF SafePass
<1>3. k \in db.params /\ c \in live /\ SubscriptionId(db, k, c) >= 0
  BY <1>2, InvariantParts, SubscriptionIdFound
     DEF TreeInv, EntriesIn, Minimal, EveryNodeHasAParent, HasConsumer
<1>4. Send(c, db, t, orphaned) /\ pass' = Continue(rest)
  BY <1>3 DEF SendParam
<1>5. k \in ParamKeys /\ db.value[k] \in Values \cup {NoValue}
  BY <1>3, TreeFacts DEF Minimal, Db
<1>6. /\ rest.kind = "params" /\ rest.param = k /\ rest.to = pass.to \ {c}
      /\ pass'.to = rest.to
      /\ rest.to # {} => pass' = rest
  BY <1>1, <1>4, TreeFacts DEF Pass, Continue, NoPass
<1> HIDE DEF k, rest
<1>7. /\ t \in [Conns -> [ParamKeys -> Values \cup {NoValue}]]
      /\ \A b \in Conns, j \in ParamKeys :
            t[b][j] = IF b = c /\ j = k THEN db.value[k] ELSE told[b][j]
      /\ \A b \in Conns \ {c} : t[b] = told[b]
  BY <1>5, TreeFacts
<1> HIDE DEF t
<1>8. /\ Owed(pass) = IF k \in MarketKeys THEN {<<k, b>> : b \in pass.to} ELSE {}
      /\ Owed(pass') = IF k \in MarketKeys THEN {<<k, b>> : b \in pass.to \ {c}} ELSE {}
  <2>1. Owed(rest) = IF k \in MarketKeys THEN {<<k, b>> : b \in pass.to \ {c}} ELSE {}
    BY <1>6 DEF Owed
  <2>2. CASE rest.to = {}
    BY <1>1, <1>6, <2>2, NothingOwed DEF Owed, k
  <2>3. CASE rest.to # {}
    BY <1>1, <1>6, <2>1, <2>3 DEF Owed, k
  <2> QED
    BY <2>2, <2>3
<1>9. Owed(pass') = OfOthers(Owed(pass), c)
  BY <1>8 DEF OfOthers
<1>10. Abstract!Leave(c) \/ (live' = live /\ db' = db /\ told' = t)
  <2>1. OthersKeep(db, t, c)
    BY <1>7 DEF OthersKeep
  <2> QED
    BY <1>1, <1>3, <1>4, <1>7, <1>9, <2>1, TreeFacts, SendIsStepOrLeave
<1>11. ASSUME live' = live, db' = db, told' = t
       PROVE  Abstract!Next \/ UNCHANGED Abstract!vars
  <2>1. CASE k \in MarketKeys
    <3> PICK key \in MarketKeys : key = k
      BY <2>1
    <3>1. <<key, c>> \in Owed(pass)
      BY <1>1, <1>8
    <3>2. Owed(pass') = Owed(pass) \ {<<key, c>>}
      BY <1>8
    <3>3. \A b \in Conns, j \in MarketKeys :
             told'[b][j] = IF b = c /\ j = key THEN db.value[key] ELSE told[b][j]
      BY <1>7, <1>11, MarketKeyFacts
    <3>4. Abstract!Tell(c, key)
      BY <1>1, <1>11, <3>1, <3>2, <3>3, ServiceTell
    <3> QED
      BY <3>4, ServiceNext
  <2>2. CASE k \notin MarketKeys
    <3>1. SameValues /\ SameTold
      BY <1>7, <1>11, <2>2, MarketKeyFacts DEF SameValues, SameTold
    <3>2. SameOwed
      BY <1>8, <2>2 DEF SameOwed
    <3> QED
      BY <1>1, <1>11, <3>1, <3>2, ServiceStutters
  <2> QED
    BY <2>1, <2>2
<1> QED
  BY <1>10, <1>11 DEF Abstract!Next

LEMMA SendQuotesRefines ==
    ASSUME IInv, ServiceInv, NEW c \in Conns, SendQuotes(c)
    PROVE  [Abstract!Next]_Abstract!vars
<1>1. pass.kind = "quotes" /\ c \in pass.to /\ market' = market
  BY DEF SendQuotes
<1>2. HasQuotesConsumer(db, pass.sec, c) /\ c \in live
  BY <1>1, InvariantParts DEF SafePass
<1>3. pass.sec \in db.secs
  BY <1>2, TreeFacts DEF Minimal, EveryNodeHasAParent, HasQuotesConsumer
<1>4. /\ Send(c, db, told, orphaned)
      /\ pass' = Continue([pass EXCEPT !.to = @ \ {c}])
  BY <1>2, <1>3 DEF SendQuotes
<1>5. Owed(pass) = {} /\ Owed(pass') = {}
  <2>1. pass'.kind # "params"
    BY <1>1, <1>4, TreeFacts DEF Pass, Continue, NoPass
  <2> QED
    BY <1>1, <2>1, NothingOwed
<1>6. Abstract!Leave(c) \/ UNCHANGED Abstract!vars
  BY <1>1, <1>2, <1>4, <1>5, QuietSendRefines
<1> QED
  BY <1>6 DEF Abstract!Next

-----------------------------------------------------------------------------
(* The refinement.                                                         *)

LEMMA InitRefines == Init => Abstract!Init
<1> SUFFICES ASSUME Init PROVE Abstract!Init
  OBVIOUS
<1>1. db.consumers = {} /\ db.quotes = {} /\ live = {} /\ market \in [MarketKeys -> Values]
  BY DEF Init, EmptyDb
<1>2. /\ \A k \in MarketKeys : db.value[k] = NoValue
      /\ \A c \in Conns, k \in MarketKeys : told[c][k] = NoValue
  BY MarketKeyFacts DEF Init, EmptyDb, Nothing
<1>3. Owed(pass) = {}
  BY IdleOwesNothing DEF Init
<1> QED
  BY <1>1, <1>2, <1>3 DEF Abstract!Init, Pairs

LEMMA StepRefines ==
    IInv /\ ServiceInv /\ [Next]_vars => [Abstract!Next]_Abstract!vars
<1> SUFFICES ASSUME IInv, ServiceInv, [Next]_vars
             PROVE  [Abstract!Next]_Abstract!vars
  OBVIOUS
<1>1. ASSUME UNCHANGED <<live, db, told, market>>, SameOwed
      PROVE  UNCHANGED Abstract!vars
  BY <1>1, ServiceStutters DEF SameValues, SameTold
<1>2. CASE UNCHANGED vars
  BY <1>1, <1>2 DEF vars, SameOwed
<1>3. ASSUME NEW c \in Conns, Connect(c) \/ PeerReset(c) \/ ConnectionLost(c)
      PROVE  [Abstract!Next]_Abstract!vars
  <2>1. CASE Connect(c)
    <3>1. Abstract!Join(c)
      BY <2>1, ServiceJoin DEF Connect, SameOwed
    <3> QED
      BY <3>1 DEF Abstract!Next
  <2>2. CASE PeerReset(c)
    BY <1>1, <2>2 DEF PeerReset, SameOwed
  <2>3. CASE ConnectionLost(c)
    <3>1. Abstract!Leave(c) \/ UNCHANGED Abstract!vars
      BY <2>3, IdleOwesNothing, QuietSendRefines DEF ConnectionLost, Idle
    <3> QED
      BY <3>1 DEF Abstract!Next
  <2> QED
    BY <1>3, <2>1, <2>2, <2>3
<1>4. ASSUME Request PROVE [Abstract!Next]_Abstract!vars
  <2>1. ASSUME NEW c \in Conns, RefuseRequest(c)
        PROVE  [Abstract!Next]_Abstract!vars
    <3>1. Abstract!Leave(c) \/ UNCHANGED Abstract!vars
      BY <2>1, IdleOwesNothing, QuietSendRefines DEF RefuseRequest, Idle
    <3> QED
      BY <3>1 DEF Abstract!Next
  <2> QED
    BY <1>4, <2>1, SubscribeParamRefines, UnsubscribeParamRefines,
       SubscribeQuotesRefines, UnsubscribeQuotesRefines DEF Request
<1>5. ASSUME PassStep PROVE [Abstract!Next]_Abstract!vars
  BY <1>5, CheckParamRefines, SendParamRefines, SendQuotesRefines DEF PassStep
<1>6. ASSUME NEW k \in MarketKeys, NEW v \in Values, OnParam(k, v)
      PROVE  [Abstract!Next]_Abstract!vars
  <2>1. Abstract!Change(k, v)
    BY <1>6, ServiceChange DEF OnParam, SameOwed
  <2> QED
    BY <2>1 DEF Abstract!Next
<1>7. ASSUME NEW s \in SecKeys, OnQuote(s) PROVE UNCHANGED Abstract!vars
  BY <1>1, <1>7 DEF OnQuote, SameOwed
<1>8. ASSUME NEW e \in Events, StartPass(e) PROVE UNCHANGED Abstract!vars
  <2>1. SameOwed
    BY <1>8, IdleOwesNothing, NewPassOwesNothing DEF StartPass, Idle, SameOwed
  <2> QED
    BY <1>1, <1>8, <2>1 DEF StartPass
<1> QED
  BY <1>2, <1>3, <1>4, <1>5, <1>6, <1>7, <1>8 DEF Next, Step

\* The tree, the passes and the sends that fail inside them together are a
\* set of subscriptions with one stored value each, which every subscriber is
\* told before the next one is taken; nobody but the client itself ends a
\* subscription.
THEOREM TreeIsSubscriptionService == Spec => ImplementsSubscriptionService
<1>1. Spec => [](IInv /\ ServiceInv)
  BY ServiceInvariant
<1> QED
  BY <1>1, InitRefines, StepRefines, PTL
     DEF Spec, ImplementsSubscriptionService, Abstract!Spec

=============================================================================
