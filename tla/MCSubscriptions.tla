--------------------------- MODULE MCSubscriptions ---------------------------
(* Instances of Subscriptions for TLC.                                      *)
EXTENDS SubscriptionsImpl, FiniteSets, TLC

CONSTANTS canonical

\* One class, which the clients write as QUIK does.
MCCanon == [cls \in Classes |-> canonical]

\* Connections are interchangeable, and so are the values and the names of
\* parameters: no definition compares them except for equality.
Symmetries == Permutations(Conns) \cup Permutations(Values)
              \cup Permutations(Params)

\* Bound: of the requests that the server has made, QUIK holds back one.
OneRefusal == Cardinality(refused) <= 1
=============================================================================
