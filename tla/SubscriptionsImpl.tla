-------------------------- MODULE SubscriptionsImpl --------------------------
(* Subscriptions implements SubscriptionService, for the class codes that  *)
(* QUIK itself uses.                                                       *)
EXTENDS Subscriptions

\* The entries of the consumer maps without their ids.
Pairs(entries) == {<<x[1], x[2]>> : x \in entries}

\* Whom the pass p has still to send the value it has stored.
Owed(p) == {<<p.param, c>> :
               c \in {b \in p.to : p.kind = "params" /\ p.param \in MarketKeys}}

Abstract == INSTANCE SubscriptionService WITH
    Clients <- Conns, Keys <- MarketKeys, Securities <- SecKeys,
    connected <- live,
    subscribed <- Pairs({x \in db.consumers : x[1] \in MarketKeys}),
    watched <- Pairs(db.quotes),
    latest <- [k \in MarketKeys |-> db.value[k]],
    known <- [c \in Conns |-> [k \in MarketKeys |-> told[c][k]]],
    owed <- Owed(pass),
    source <- market

\* The tree is a set of subscriptions: what one client does, or a connection
\* that fails in the middle of a pass, takes nothing from another; every
\* value that is stored is sent to everyone subscribed at that moment, once
\* and before the next is stored, and to nobody who subscribes later; a value
\* is forgotten with its last subscriber.
ImplementsSubscriptionService == Abstract!Spec
=============================================================================
