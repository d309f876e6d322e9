------------------------- MODULE SubscriptionService -------------------------
(***************************************************************************)
(* What the server promises its subscribers, without the tree of objects,  *)
(* the events and the passes: a flat set of subscriptions, one value kept  *)
(* for each parameter that has a subscriber, and every value that is taken *)
(* from QUIK sent once to everyone subscribed at that moment, before the   *)
(* next is taken.  Who subscribes later is not sent the value kept.        *)
(* Subscriptions implements this as far as it uses no freed object.        *)
(***************************************************************************)
CONSTANTS Clients, Keys, Securities, Values, NoValue

VARIABLES
    connected,   \* clients
    subscribed,  \* pairs of a key and a client
    watched,     \* pairs of a security and a client: subscriptions to quotes
    latest,      \* latest[k]: the value kept for k
    known,       \* known[c][k]: the last value c was sent, or NoValue
    owed,        \* pairs of a key and a client whom the value kept is still
                 \* to be sent
    source       \* source[k]: the value in QUIK

vars == <<connected, subscribed, watched, latest, known, owed, source>>

Subscribers(k) == {c \in Clients : <<k, c>> \in subscribed}

Init ==
    /\ connected = {}
    /\ subscribed = {} /\ watched = {}
    /\ latest = [k \in Keys |-> NoValue]
    /\ known = [c \in Clients |-> [k \in Keys |-> NoValue]]
    /\ owed = {}
    /\ source \in [Keys -> Values]

Join(c) ==
    /\ connected' = connected \cup {c}
    /\ UNCHANGED <<subscribed, watched, latest, known, owed, source>>

\* A value is kept only for somebody.
KeepForSubscribers ==
    latest' = [k \in Keys |-> IF \E c \in Clients : <<k, c>> \in subscribed'
                                THEN latest[k] ELSE NoValue]

Leave(c) ==
    /\ connected' = connected \ {c}
    /\ subscribed' = {x \in subscribed : x[2] # c}
    /\ watched' = {x \in watched : x[2] # c}
    /\ known' = [known EXCEPT ![c] = [k \in Keys |-> NoValue]]
    /\ owed' = {x \in owed : x[2] # c}
    /\ KeepForSubscribers
    /\ UNCHANGED source

\* A new subscriber knows nothing, and is owed nothing if a value is kept.
Subscribe(c, k) ==
    /\ c \in connected
    /\ <<k, c>> \notin subscribed
    /\ subscribed' = subscribed \cup {<<k, c>>}
    /\ known' = [known EXCEPT ![c][k] = NoValue]
    /\ UNCHANGED <<connected, watched, latest, owed, source>>

Unsubscribe(c, k) ==
    /\ subscribed' = subscribed \ {<<k, c>>}
    /\ known' = [known EXCEPT ![c][k] = NoValue]
    /\ owed' = owed \ {<<k, c>>}
    /\ KeepForSubscribers
    /\ UNCHANGED <<connected, watched, source>>

Watch(c, s) ==
    /\ c \in connected
    /\ watched' = watched \cup {<<s, c>>}
    /\ UNCHANGED <<connected, subscribed, latest, known, owed, source>>

Unwatch(c, s) ==
    /\ watched' = watched \ {<<s, c>>}
    /\ UNCHANGED <<connected, subscribed, latest, known, owed, source>>

Change(k, v) ==
    /\ source' = [source EXCEPT ![k] = v]
    /\ UNCHANGED <<connected, subscribed, watched, latest, known, owed>>

\* A new value is taken when nobody is owed the one before it, and is then
\* owed to every subscriber.
Take(k) ==
    /\ Subscribers(k) # {}
    /\ owed = {}
    /\ source[k] # latest[k]
    /\ latest' = [latest EXCEPT ![k] = source[k]]
    /\ owed' = {<<k, c>> : c \in Subscribers(k)}
    /\ UNCHANGED <<connected, subscribed, watched, known, source>>

Tell(c, k) ==
    /\ <<k, c>> \in owed
    /\ owed' = owed \ {<<k, c>>}
    /\ known' = [known EXCEPT ![c][k] = latest[k]]
    /\ UNCHANGED <<connected, subscribed, watched, latest, source>>

Next ==
    \/ \E c \in Clients : Join(c) \/ Leave(c)
    \/ \E c \in Clients, k \in Keys :
          Subscribe(c, k) \/ Unsubscribe(c, k) \/ Tell(c, k)
    \/ \E c \in Clients, s \in Securities : Watch(c, s) \/ Unwatch(c, s)
    \/ \E k \in Keys : Take(k) \/ \E v \in Values : Change(k, v)

Spec == Init /\ [][Next]_vars
=============================================================================
