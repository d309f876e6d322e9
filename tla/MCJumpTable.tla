---------------------------- MODULE MCJumpTable ----------------------------
(* Instances of JumpTable for TLC.                                         *)
EXTENDS JumpTable

CONSTANTS onParam, custom

\* onParam stands for the callbacks the server registers for itself, custom
\* for any other name.
MCPredefined == <<onParam>>

\* Connections and threads are interchangeable.
Symmetries == Permutations(Clients)
              \cup Permutations(Threads)
=============================================================================
