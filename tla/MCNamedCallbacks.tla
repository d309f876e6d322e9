--------------------------- MODULE MCNamedCallbacks ---------------------------
(* Instances of NamedCallbacks for TLC.                                    *)
EXTENDS NamedCallbacks, TLC

CONSTANTS c1, c2, quik, other, server

MCReserved == <<"OnStop", "OnParam">>
MCWanted == (c1 :> {"OnStop", "mine"}) @@ (c2 :> {"mine"})
=============================================================================
