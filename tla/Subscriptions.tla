---------------------------- MODULE Subscriptions ----------------------------
(***************************************************************************)
(* Subscriptions to parameter values and quotes: the tree of               *)
(* ParamSubscriptionsDb, ClsSubs, SecSubs and ParamSubs objects, the       *)
(* requests that change it, the requests the server makes of QUIK on their *)
(* behalf, and the update passes secParamsUpdate and secQuotesUpdate.      *)
(*                                                                         *)
(* Everything here runs on the Qt server thread except callbackRequest,    *)
(* which QUIK calls and which only posts an event.  A pass is nevertheless *)
(* not atomic: QUIK's values change while it runs, and a send that fails   *)
(* closes the connection inside the send, which changes the tree under the *)
(* pass.  Every read of a value and every send is a step of its own.       *)
(***************************************************************************)
EXTENDS Integers

CONSTANTS
    Conns,      \* ConnectionData objects; an address is reused after delete
    Classes,    \* spellings of class codes that cacheSecClasses accepts
    Canon,      \* Canon[s]: the class code QUIK uses for spelling s
    Secs,       \* security codes
    Params,     \* parameter names
    Ids,        \* ids clients give their subscriptions; processBuffer
                \* accepts none below 0
    Values,     \* parameter values
    NoValue     \* the invalid QVariant of a new ParamSubs

ASSUME CanonAssumption ==
    /\ Canon \in [Classes -> Classes]
    /\ \A s \in Classes : Canon[Canon[s]] = Canon[s]
ASSUME IdAssumption == Ids \subseteq Nat
ASSUME ValueAssumption == NoValue \notin Values

SecKeys == Classes \X Secs
ParamKeys == Classes \X Secs \X Params
SecOf(k) == <<k[1], k[2]>>
MarketKey(k) == <<Canon[k[1]], k[2], k[3]>>
MarketKeys == {MarketKey(k) : k \in ParamKeys}
NotSubscribed == -1

VARIABLES
    live,     \* connections in m_connections
    reset,    \* live connections on which the next send fails
    db,       \* the tree, see Db
    requested,\* parameter requests active in QUIK
    level2,   \* Level II quote subscriptions active in QUIK
    market,   \* market[k]: the value getParamEx2 returns
    posted,   \* posted secParamsUpdate and secQuotesUpdate events
    pass,     \* the pass that is running, see NoPass
    told,     \* history: told[c][k], the last value of k that c was sent in its
              \* subscription, NoValue if it has been sent none
    orphaned, \* history: nodes whose last subscriber was disconnected
    refused,  \* history: requests QUIK has answered with false
    ub        \* "none", or the kind of freed object a pass has used

quikVars == <<requested, level2, refused>>
vars == <<live, reset, db, requested, level2, market, posted, pass, told,
          orphaned, refused, ub>>

-----------------------------------------------------------------------------
(* The tree.  d.classes, d.secs and d.params are the ClsSubs, SecSubs and  *)
(* ParamSubs objects that exist, named by their path; d.value the value    *)
(* kept in a ParamSubs; d.consumers and d.quotes the entries of the        *)
(* consumer maps, <<node, connection, id>>.                                *)

Db == [classes : SUBSET Classes, secs : SUBSET SecKeys,
       params : SUBSET ParamKeys,
       value : [ParamKeys -> Values \cup {NoValue}],
       consumers : SUBSET (ParamKeys \X Conns \X Ids),
       quotes : SUBSET (SecKeys \X Conns \X Ids)]

EmptyDb == [classes |-> {}, secs |-> {}, params |-> {},
            value |-> [k \in ParamKeys |-> NoValue],
            consumers |-> {}, quotes |-> {}]

\* ParamSubs::hasConsumer, SecSubs::hasQuotesConsumer(cd)
HasConsumer(d, k, c) == \E id \in Ids : <<k, c, id>> \in d.consumers
HasQuotesConsumer(d, s, c) == \E id \in Ids : <<s, c, id>> \in d.quotes

\* ParamSubs::consumersList, SecSubs::getQuotesConsumersList
ConsumersList(d, k) == {c \in Conns : HasConsumer(d, k, c)}
QuotesConsumersList(d, s) == {c \in Conns : HasQuotesConsumer(d, s, c)}

\* ParamSubs::getSubscriptionId, SecSubs::getQuotesSubscriptionId
SubscriptionId(d, k, c) ==
    IF HasConsumer(d, k, c)
      THEN CHOOSE id \in Ids : <<k, c, id>> \in d.consumers
      ELSE NotSubscribed
QuotesSubscriptionId(d, s, c) ==
    IF HasQuotesConsumer(d, s, c)
      THEN CHOOSE id \in Ids : <<s, c, id>> \in d.quotes
      ELSE NotSubscribed

\* findParamSubscriptions.  Mutant: finds nothing.
FindParamSubscriptions_Never(d, k) == FALSE
FindParamSubscriptions(d, k) == k \in d.params

\* addConsumer at the four levels: missing nodes are created, an entry that
\* exists keeps its id.  A new ParamSubs has no value.
AddConsumer(d, k, c, id) ==
    [d EXCEPT !.classes = @ \cup {k[1]},
              !.secs = @ \cup {SecOf(k)},
              !.params = @ \cup {k},
              !.value[k] = IF k \in d.params THEN @ ELSE NoValue,
              !.consumers = IF HasConsumer(d, k, c) THEN @
                            ELSE @ \cup {<<k, c, id>>}]

AddQuotesConsumer(d, s, c, id) ==
    [d EXCEPT !.classes = @ \cup {s[1]},
              !.secs = @ \cup {s},
              !.quotes = IF HasQuotesConsumer(d, s, c) THEN @
                         ELSE @ \cup {<<s, c, id>>}]

\* The destructors of the three kinds of nodes, which delete what is below.
DeleteParam(d, k) ==
    [d EXCEPT !.params = @ \ {k},
              !.value[k] = NoValue,
              !.consumers = {x \in @ : x[1] # k}]
DeleteSec(d, s) ==
    [d EXCEPT !.secs = @ \ {s},
              !.params = {k \in @ : SecOf(k) # s},
              !.consumers = {x \in @ : SecOf(x[1]) # s},
              !.quotes = {x \in @ : x[1] # s}]
DeleteClass(d, cls) ==
    [d EXCEPT !.classes = @ \ {cls},
              !.secs = {s \in @ : s[1] # cls},
              !.params = {k \in @ : k[1] # cls},
              !.consumers = {x \in @ : x[1][1] # cls},
              !.quotes = {x \in @ : x[1][1] # cls}]

\* What delConsumer and clearAllSubscriptions return at each level.
ParamIsEmpty(d, k) == \A x \in d.consumers : x[1] # k
SecIsEmpty(d, s) == /\ \A k \in d.params : SecOf(k) # s
                    /\ \A x \in d.quotes : x[1] # s
ClassIsEmpty(d, cls) == \A s \in d.secs : s[1] # cls

\* The node is deleted when the level below reports that nothing is left.
PruneParam(d, k) ==
    IF k \in d.params /\ ParamIsEmpty(d, k) THEN DeleteParam(d, k) ELSE d
\* Mutant: a SecSubs with quotes subscribers counts as empty.
PruneSec_IgnoresQuotes(d, s) ==
    IF s \in d.secs /\ (\A k \in d.params : SecOf(k) # s)
      THEN DeleteSec(d, s) ELSE d
PruneSec(d, s) ==
    IF s \in d.secs /\ SecIsEmpty(d, s) THEN DeleteSec(d, s) ELSE d
\* Mutant: the class is never deleted.
PruneClass_Keeps(d, cls) == d
PruneClass(d, cls) ==
    IF cls \in d.classes /\ ClassIsEmpty(d, cls) THEN DeleteClass(d, cls) ELSE d

\* delConsumer at the four levels
DelConsumer(d, k, c) ==
    LET without == [d EXCEPT !.consumers =
                        {x \in @ : ~(x[1] = k /\ x[2] = c)}]
    IN PruneClass(PruneSec(PruneParam(without, k), SecOf(k)), k[1])

\* delQuotesConsumer at the three levels
DelQuotesConsumer(d, s, c) ==
    LET without == [d EXCEPT !.quotes = {x \in @ : ~(x[1] = s /\ x[2] = c)}]
    IN PruneClass(PruneSec(without, s), s[1])

\* Mutant of the next definition: quoteConsumers is not cleared.
ClearAllSubscriptions_ParamsOnly(d, c) ==
    LET consumers == {x \in d.consumers : x[2] # c}
        params == {k \in d.params : \E x \in consumers : x[1] = k}
    IN [d EXCEPT !.consumers = consumers, !.params = params]

\* Mutant: every ParamSubs the connection was a consumer of is deleted.
ClearAllSubscriptions_DropsParams(d, c) ==
    LET params == {k \in d.params : ~HasConsumer(d, k, c)}
    IN [d EXCEPT !.consumers = {x \in @ : x[1] \in params}, !.params = params,
                 !.quotes = {x \in @ : x[2] # c}]

\* clearAllSubscriptions at the three levels: every entry of c, then every
\* node that is left empty, from the parameters up to the classes.
ClearAllSubscriptions(d, c) ==
    LET consumers == {x \in d.consumers : x[2] # c}
        quotes == {x \in d.quotes : x[2] # c}
        params == {k \in d.params : \E x \in consumers : x[1] = k}
        secs == {s \in d.secs : \/ \E k \in params : SecOf(k) = s
                                \/ \E x \in quotes : x[1] = s}
    IN [classes |-> {cls \in d.classes : \E s \in secs : s[1] = cls},
        secs |-> secs, params |-> params,
        value |-> [k \in ParamKeys |-> IF k \in params THEN d.value[k]
                                       ELSE NoValue],
        consumers |-> consumers, quotes |-> quotes]

-----------------------------------------------------------------------------
(* Passes.  A pass keeps the SecSubs pointer s it has found, the names it  *)
(* has still to look at and the consumers it has still to serve; the       *)
(* containers it copied are not affected by what happens to the tree.      *)

Pass == [kind : {"none", "params", "quotes"}, sec : SecKeys \cup {<< >>},
         todo : SUBSET Params, param : ParamKeys \cup {<< >>},
         to : SUBSET Conns]
NoPass == [kind |-> "none", sec |-> << >>, todo |-> {}, param |-> << >>,
           to |-> {}]

\* The end of a turn of the loops, and of the pass.  Mutants: break for
\* continue in the outer loop, the last parameter is not sent, the event loop
\* runs inside a pass.
Continue_Breaks(p) == IF p.to = {} THEN NoPass ELSE p
Continue_DropsSends(p) == IF p.todo = {} THEN NoPass ELSE p
Continue(p) == IF p.todo = {} /\ p.to = {} THEN NoPass ELSE p
Idle_Always == TRUE
Idle == pass = NoPass

\* secParamsUpdate up to its loop
ParamPass(d, s) ==
    IF s \in d.secs
      THEN Continue([kind |-> "params", sec |-> s,
                     todo |-> {p \in Params : <<s[1], s[2], p>> \in d.params},
                     param |-> << >>, to |-> {}])
      ELSE NoPass

\* secQuotesUpdate up to its loop
QuotesPass(d, s) ==
    IF s \in d.secs
      THEN Continue([kind |-> "quotes", sec |-> s, todo |-> {},
                     param |-> << >>, to |-> QuotesConsumersList(d, s)])
      ELSE NoPass

Events == {"params", "quotes"} \X SecKeys
Nothing == [k \in ParamKeys |-> NoValue]

Init ==
    /\ live = {}
    /\ reset = {}
    /\ db = EmptyDb
    /\ requested = {}
    /\ level2 = {}
    /\ market \in [MarketKeys -> Values]
    /\ posted = {}
    /\ pass = NoPass
    /\ told = [c \in Conns |-> Nothing]
    /\ orphaned = {}
    /\ refused = {}
    /\ ub = "none"

-----------------------------------------------------------------------------
(* Connections.                                                            *)

\* protoFinished and protoError on the tree d: the connection leaves
\* m_connections, its subscriptions are cleared and it is deleted.  QUIK is
\* not told.
Drop(c, d, t, o) ==
    LET left == ClearAllSubscriptions(d, c) IN
    /\ live' = live \ {c}
    /\ reset' = reset \ {c}
    /\ db' = left
    /\ told' = [t EXCEPT ![c] = Nothing]
    /\ orphaned' = o \cup (d.params \ left.params)
                     \cup {s \in SecKeys : /\ QuotesConsumersList(d, s) # {}
                                           /\ QuotesConsumersList(left, s) = {}}

\* sendReq or sendAns to c once the handler has changed the tree to d, the
\* histories to t and o: the flush of a broken socket reports the error,
\* and protoError runs, before the send returns.
Send(c, d, t, o) ==
    IF c \in reset
      THEN Drop(c, d, t, o)
      ELSE /\ db' = d /\ told' = t /\ orphaned' = o
           /\ UNCHANGED <<live, reset>>

\* incomingConnection, connectionEstablished
Connect(c) ==
    /\ Idle
    /\ c \notin live
    /\ live' = live \cup {c}
    /\ UNCHANGED <<reset, db, quikVars, market, posted, pass, told, orphaned, ub>>

\* The peer resets the connection; nobody has noticed yet.
PeerReset(c) ==
    /\ c \in live \ reset
    /\ reset' = reset \cup {c}
    /\ UNCHANGED <<live, db, quikVars, market, posted, pass, told, orphaned, ub>>

\* The event loop delivers disconnected() or errorOccurred().
ConnectionLost(c) ==
    /\ Idle
    /\ c \in live
    /\ Drop(c, db, told, orphaned)
    /\ UNCHANGED <<quikVars, market, posted, pass, ub>>

\* A request that is answered with an error and changes nothing else: a
\* field is missing or the class is unknown.
RefuseRequest(c) ==
    /\ Idle
    /\ c \in live
    /\ Send(c, db, told, orphaned)
    /\ UNCHANGED <<quikVars, market, posted, pass, ub>>

-----------------------------------------------------------------------------
(* Requests.  answer is what QUIK returns for a call the handler makes.    *)

\* processSubscribeParamChangesRequest.  A value that k keeps already is not
\* sent: the pass that follows finds it unchanged.
SubscribeParam(c, k, id, answer) ==
    /\ Idle
    /\ c \in live
    /\ \/ /\ HasConsumer(db, k, c)
          /\ Send(c, db, told, orphaned)
          /\ UNCHANGED <<quikVars, pass>>
       \/ /\ ~HasConsumer(db, k, c)
          /\ LET d == AddConsumer(db, k, c, id)
                 t == [told EXCEPT ![c][k] = NoValue]
             IN IF FindParamSubscriptions(db, k)
                  THEN Send(c, d, t, orphaned) /\ UNCHANGED quikVars
                  ELSE /\ Send(c, d, t, orphaned \ {k})
                       /\ requested' = IF answer THEN requested \cup {k}
                                       ELSE requested
                       /\ refused' = IF answer THEN refused \ {k}
                                     ELSE refused \cup {k}
                       /\ UNCHANGED level2
          /\ pass' = ParamPass(db', SecOf(k))
    /\ UNCHANGED <<market, posted, ub>>

\* processUnsubscribeParamChangesRequest
UnsubscribeParam(c, k, answer) ==
    /\ Idle
    /\ c \in live
    /\ LET d == DelConsumer(db, k, c)
           t == [told EXCEPT ![c][k] = NoValue]
       IN /\ Send(c, d, t, orphaned)
          /\ IF FindParamSubscriptions(d, k)
               THEN UNCHANGED quikVars
               ELSE /\ requested' = IF answer THEN requested \ {k}
                                    ELSE requested
                    /\ refused' = IF answer THEN refused
                                  ELSE refused \cup {k}
                    /\ UNCHANGED level2
    /\ UNCHANGED <<market, posted, pass, ub>>

\* processSubscribeQuotesRequest: QUIK is asked for every new subscriber.
SubscribeQuotes(c, s, id, answer) ==
    /\ Idle
    /\ c \in live
    /\ \/ /\ HasQuotesConsumer(db, s, c)
          /\ Send(c, db, told, orphaned)
          /\ UNCHANGED <<quikVars, pass>>
       \/ /\ ~HasQuotesConsumer(db, s, c)
          /\ Send(c, AddQuotesConsumer(db, s, c, id), told, orphaned \ {s})
          /\ level2' = IF answer THEN level2 \cup {s} ELSE level2
          /\ refused' = IF answer THEN refused \ {s} ELSE refused \cup {s}
          /\ UNCHANGED requested
          /\ pass' = QuotesPass(db', s)
    /\ UNCHANGED <<market, posted, ub>>

\* processUnsubscribeQuotesRequest
UnsubscribeQuotes(c, s, answer) ==
    /\ Idle
    /\ c \in live
    /\ LET d == DelQuotesConsumer(db, s, c) IN
       /\ Send(c, d, told, orphaned)
       /\ IF QuotesConsumersList(d, s) # {}
            THEN UNCHANGED quikVars
            ELSE /\ level2' = IF answer THEN level2 \ {s} ELSE level2
                 /\ refused' = IF answer THEN refused ELSE refused \cup {s}
                 /\ UNCHANGED requested
    /\ UNCHANGED <<market, posted, pass, ub>>

-----------------------------------------------------------------------------
(* Updates.                                                                *)

\* Mutant of the next definition: class and security are swapped.
OnParam_Swapped(k, v) ==
    /\ k \in MarketKeys
    /\ market[k] # v
    /\ market' = [market EXCEPT ![k] = v]
    /\ posted' = posted \cup {<<"params", <<k[2], k[1]>>>>}
    /\ UNCHANGED <<live, reset, db, quikVars, pass, told, orphaned, ub>>

\* A value changes in QUIK, which calls OnParam with the class code it uses:
\* callbackRequest posts secParamsUpdate.
OnParam(k, v) ==
    /\ k \in MarketKeys
    /\ market[k] # v
    /\ market' = [market EXCEPT ![k] = v]
    /\ posted' = posted \cup {<<"params", SecOf(k)>>}
    /\ UNCHANGED <<live, reset, db, quikVars, pass, told, orphaned, ub>>

\* QUIK calls OnQuote: callbackRequest posts secQuotesUpdate.
OnQuote(s) ==
    /\ Canon[s[1]] = s[1]
    /\ posted' = posted \cup {<<"quotes", s>>}
    /\ UNCHANGED <<live, reset, db, quikVars, market, pass, told, orphaned, ub>>

\* The event loop takes a posted event.
StartPass(e) ==
    /\ Idle
    /\ e \in posted
    /\ posted' = posted \ {e}
    /\ pass' = IF e[1] = "params" THEN ParamPass(db, e[2])
               ELSE QuotesPass(db, e[2])
    /\ UNCHANGED <<live, reset, db, quikVars, market, told, orphaned, ub>>

\* One turn of the outer loop of secParamsUpdate up to the inner one:
\* getParamEx2, the search through s, the comparison and p->value = pval.
\* The order of the names is left open.
CheckParam(p) ==
    /\ pass.kind = "params"
    /\ pass.to = {}
    /\ p \in pass.todo
    /\ LET s == pass.sec
           k == <<s[1], s[2], p>>
           value == market[MarketKey(k)]
           rest == [pass EXCEPT !.todo = @ \ {p}]
       IN \/ /\ s \notin db.secs                    \* s was deleted
             /\ ub' = "freedSecSubs"
             /\ UNCHANGED <<db, pass>>
          \/ /\ s \in db.secs
             /\ k \notin db.params \/ value = db.value[k]
             /\ pass' = Continue(rest)
             /\ UNCHANGED <<db, ub>>
          \/ /\ s \in db.secs /\ k \in db.params
             /\ value # db.value[k]
             /\ db' = [db EXCEPT !.value[k] = value]
             /\ pass' = Continue([rest EXCEPT !.param = k,
                                      !.to = ConsumersList(db, k)])
             /\ UNCHANGED ub
    /\ UNCHANGED <<live, reset, quikVars, market, posted, told, orphaned>>

\* One turn of the inner loop: getSubscriptionId through p, and sendReq.
\* The order of the connections, that of their addresses, is left open.
SendParam(c) ==
    /\ pass.kind = "params"
    /\ c \in pass.to
    /\ LET k == pass.param
           t == [told EXCEPT ![c][k] = db.value[k]]
       IN IF k \notin db.params                     \* p was deleted
            THEN /\ ub' = "freedParamSubs"
                 /\ UNCHANGED <<live, reset, db, pass, told, orphaned>>
            ELSE /\ pass' = Continue([pass EXCEPT !.to = @ \ {c}])
                 /\ IF SubscriptionId(db, k, c) >= 0
                      THEN Send(c, db, t, orphaned)
                      ELSE UNCHANGED <<live, reset, db, told, orphaned>>
                 /\ UNCHANGED ub
    /\ UNCHANGED <<quikVars, market, posted>>

\* One turn of the loop of secQuotesUpdate: getQuotesSubscriptionId through
\* s, and sendReq whatever it returns.
SendQuotes(c) ==
    /\ pass.kind = "quotes"
    /\ c \in pass.to
    /\ IF pass.sec \notin db.secs                   \* s was deleted
         THEN /\ ub' = "freedSecSubs"
              /\ UNCHANGED <<live, reset, db, pass, told, orphaned>>
         ELSE IF c \notin live                      \* cd was deleted
         THEN /\ ub' = "freedConnection"
              /\ UNCHANGED <<live, reset, db, pass, told, orphaned>>
         ELSE /\ pass' = Continue([pass EXCEPT !.to = @ \ {c}])
              /\ Send(c, db, told, orphaned)
              /\ UNCHANGED ub
    /\ UNCHANGED <<quikVars, market, posted>>

PassStep ==
    \/ \E p \in Params : CheckParam(p)
    \/ \E c \in Conns : SendParam(c) \/ SendQuotes(c)

Request ==
    \/ \E c \in Conns, k \in ParamKeys, id \in Ids, answer \in BOOLEAN :
          SubscribeParam(c, k, id, answer)
    \/ \E c \in Conns, k \in ParamKeys, answer \in BOOLEAN :
          UnsubscribeParam(c, k, answer)
    \/ \E c \in Conns, s \in SecKeys, id \in Ids, answer \in BOOLEAN :
          SubscribeQuotes(c, s, id, answer)
    \/ \E c \in Conns, s \in SecKeys, answer \in BOOLEAN :
          UnsubscribeQuotes(c, s, answer)
    \/ \E c \in Conns : RefuseRequest(c)

Step ==
    \/ \E c \in Conns : Connect(c) \/ PeerReset(c) \/ ConnectionLost(c)
    \/ Request
    \/ \E k \in MarketKeys, v \in Values : OnParam(k, v)
    \/ \E s \in SecKeys : OnQuote(s)
    \/ \E e \in Events : StartPass(e)
    \/ PassStep

\* Nothing is claimed of a program that has used a freed object.
Next == ub = "none" /\ Step

Spec == Init /\ [][Next]_vars

\* The event loop takes every posted event and finishes what it has begun.
FairSpec ==
    /\ Spec
    /\ WF_vars(ub = "none" /\ PassStep)
    /\ \A e \in Events : SF_vars(ub = "none" /\ StartPass(e))

-----------------------------------------------------------------------------
(* Properties.                                                             *)

\* Every variable has its type.
TypeOK ==
    /\ live \subseteq Conns
    /\ reset \subseteq live
    /\ db \in Db
    /\ requested \subseteq ParamKeys
    /\ level2 \subseteq SecKeys
    /\ market \in [MarketKeys -> Values]
    /\ posted \subseteq Events
    /\ pass \in Pass
    /\ told \in [Conns -> [ParamKeys -> Values \cup {NoValue}]]
    /\ orphaned \subseteq ParamKeys \cup SecKeys
    /\ refused \subseteq ParamKeys \cup SecKeys
    /\ ub \in {"none", "freedSecSubs", "freedParamSubs", "freedConnection"}

\* The tree has no node without a parent, no node without something below
\* it, and one entry per connection in each consumer map: the results of
\* delConsumer, delQuotesConsumer and clearAllSubscriptions make every level
\* delete exactly what has become empty, quotes and parameters together.
EveryNodeHasAParent(d) ==
    /\ \A s \in d.secs : s[1] \in d.classes
    /\ \A k \in d.params : SecOf(k) \in d.secs
    /\ \A x \in d.consumers : x[1] \in d.params
    /\ \A x \in d.quotes : x[1] \in d.secs
NoNodeIsEmpty(d) ==
    /\ \A cls \in d.classes : ~ClassIsEmpty(d, cls)
    /\ \A s \in d.secs : ~SecIsEmpty(d, s)
    /\ \A k \in d.params : ~ParamIsEmpty(d, k)
OneEntryEach(d) ==
    /\ \A x, y \in d.consumers : x[1] = y[1] /\ x[2] = y[2] => x = y
    /\ \A x, y \in d.quotes : x[1] = y[1] /\ x[2] = y[2] => x = y
TreeIsMinimal ==
    EveryNodeHasAParent(db) /\ NoNodeIsEmpty(db) /\ OneEntryEach(db)

\* No consumer map mentions a connection that has been deleted, whatever
\* handler or pass it was deleted in.
ConsumersAreLive ==
    /\ \A x \in db.consumers : x[2] \in live
    /\ \A x \in db.quotes : x[2] \in live

\* A send that deletes a connection never takes away what the loop around
\* it goes on to use: the ParamSubs of the parameter being sent, the SecSubs
\* and the connections of a quotes pass, and an id for every connection
\* still to be served.
LoopsAreSafe ==
    /\ ub \in {"none", "freedSecSubs"}
    /\ pass.kind = "params" =>
          \A c \in pass.to : SubscriptionId(db, pass.param, c) >= 0
    /\ pass.kind = "quotes" =>
          \A c \in pass.to :
              c \in live /\ QuotesSubscriptionId(db, pass.sec, c) >= 0

\* The SecSubs of a parameter pass goes away under the pass only when the
\* last subscriber of everything below it is disconnected, never by an
\* unsubscription and never in a quotes pass.
SecSubsLostOnlyByDisconnect ==
    pass.kind # "none" /\ pass.sec \notin db.secs =>
        /\ pass.kind = "params" /\ pass.to = {}
        /\ \A p \in pass.todo :
              <<pass.sec[1], pass.sec[2], p>> \in orphaned

\* The log line of secParamsUpdate for a parameter whose "subscription was
\* canceled" during the pass: cancelling a subscription in the middle of a
\* pass is something the pass copes with.
PassCopesWithCancellation == ub = "none"

\* k will be compared with QUIK's value again: an event is waiting or the
\* pass that is running has not come to it.
WillBeChecked(k) ==
    \/ \E s \in {SecOf(k), SecOf(MarketKey(k))} : <<"params", s>> \in posted
    \/ pass.kind = "params" /\ pass.sec = SecOf(k) /\ k[3] \in pass.todo

\* The pass that is running has still to send c the value of k.
WillBeTold(c, k) == pass.kind = "params" /\ pass.param = k /\ c \in pass.to

\* No change of a subscribed value is lost: a stored value that differs from
\* QUIK's is going to be looked at again, and what a subscriber was last sent
\* is the stored value, or else that is on its way.  The first half is stated
\* for the subscriptions made with QUIK's own class code.
NoChangeIsLost ==
    /\ \A k \in MarketKeys \cap db.params :
          db.value[k] = market[k] \/ WillBeChecked(k)
    /\ \A x \in db.consumers :
          \/ told[x[2]][x[1]] \in {NoValue, db.value[x[1]]}
          \/ WillBeTold(x[2], x[1])

\* A parameter that has a subscriber is requested from QUIK, and a security
\* that has a quotes subscriber is subscribed there, unless QUIK refused:
\* one client's unsubscription never cancels what another still uses.
QuikServesSubscribers ==
    /\ db.params \subseteq requested \cup refused
    /\ \A x \in db.quotes : x[1] \in level2 \cup refused

\* What QUIK still sends although nobody is subscribed any more was left
\* behind by a disconnection or by QUIK's own refusal to cancel.
LeftoversComeFromDisconnects ==
    /\ requested \subseteq db.params \cup orphaned \cup refused
    /\ \A s \in level2 : QuotesConsumersList(db, s) # {}
                         \/ s \in orphaned \cup refused

\* A value that the server has not stored yet and that stays in QUIK is sent
\* to every client that stays subscribed: the first value to the first
\* subscriber, every later one to all.  Nothing is claimed of a client that
\* subscribes to a parameter whose value is stored already: secParamsUpdate
\* sends it nothing before the next change.
UpdatesArrive ==
    \A c \in Conns, k \in MarketKeys, v \in Values :
        HasConsumer(db, k, c) /\ market[k] = v /\ db.value[k] # v ~>
            \/ told[c][k] = v
            \/ ~HasConsumer(db, k, c)
            \/ market[k] # v
            \/ ub # "none"
=============================================================================
