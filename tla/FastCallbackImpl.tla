--------------------------- MODULE FastCallbackImpl ---------------------------
(* FastCallback implements RemoteCall.                                     *)
EXTENDS FastCallback

\* The request of call n: not yet posted, posted, or about to be sent; with
\* the client, or its answer just arrived; answered or dropped.
Unsent(n) ==
    \/ call[n].stage \in {"none", "install", "post"}
    \/ \E k \in DOMAIN posted : posted[k].call = n
    \/ srv.at = "tag" /\ request[srv.cd][srv.id] = n
Sent(n) ==
    \/ \E c \in Conns : \E i \in asked[c] : request[c][i] = n
    \/ srv.at = "match" /\ request[srv.cd][srv.id] = n

\* A connection is open until it leaves m_connections.
OpenConns == {c \in Conns : conn[c] = "open"}
ClientOf == [n \in Calls |-> IF call[n].stage = "none" THEN NoConn
                             ELSE Owner[call[n].fun]]
CallerOf == [n \in Calls |-> IF call[n].stage = "none" THEN NoConn
                             ELSE call[n].thread]
StatusOf == [n \in Calls |-> IF Active(n) THEN "pending" ELSE call[n].stage]
AskedOf == [n \in Calls |-> IF Unsent(n) THEN "unsent"
                            ELSE IF Sent(n) THEN "sent" ELSE "closed"]
AnswerOf == [n \in Calls |-> call[n].result]

Abstract == INSTANCE RemoteCall WITH
    Clients <- Conns, Nobody <- NoConn, NoAnswer <- NoCall,
    Callers <- Threads, Server <- ServerThread,
    open <- OpenConns, client <- ClientOf, caller <- CallerOf,
    status <- StatusOf, asked <- AskedOf, answer <- AnswerOf,
    gaveUp <- timedOut

\* A call is asked once, returns only with an answer, after giving up or when
\* its client is gone, and takes no answer but its own unless another call on
\* the connection has given up or comes from another thread of QUIK
\* (sendAndWaitResult and the server's handlers).
ImplementsRemoteCall == Abstract!Spec
=============================================================================
