--------------------------- MODULE MCFastCallback ---------------------------
(* Instances of FastCallback for TLC.                                      *)
EXTENDS FastCallbackImpl

CONSTANTS c1, c2, none, f1, f2, g1, quik, other, server

\* One function per connection, one connection with two functions: the
\* second function has the same remote name as the first.
MCOwner == [f \in Callbacks |-> IF f = g1 THEN c2 ELSE c1]
MCFun == [f \in Callbacks |-> IF f = f2 THEN "other" ELSE "updated"]

\* Thread and function symmetry is not used: the roles differ.
=============================================================================
