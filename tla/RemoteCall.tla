------------------------------ MODULE RemoteCall ------------------------------
(***************************************************************************)
(* What a synchronous callback promises, without threads, locks or         *)
(* pointers: QUIK asks a function of a remote client, the client is sent   *)
(* the request and answers it, and the call returns with an answer, or     *)
(* without one when it gives up waiting or its connection is closed.       *)
(*                                                                         *)
(* A call may take the answer to another request only if some other call   *)
(* on the same connection has given up or comes from another thread.       *)
(* FastCallback implements this as far as it runs into no undefined        *)
(* behaviour.                                                              *)
(***************************************************************************)
CONSTANTS
    Clients,  \* connections
    Calls,    \* calls that may be made
    Callers,  \* threads that make them
    Server,   \* the thread that talks to the clients
    Nobody,   \* no client
    NoAnswer

VARIABLES
    open,    \* the clients connected
    client,  \* client[n]: whose function the call n is for
    caller,  \* caller[n]: who makes the call n
    status,  \* status[n]: "none", "pending" or "returned"
    asked,   \* asked[n]: the request is "unsent", "sent" or "closed"
    answer,  \* answer[n]: the call whose answer n has got
    gaveUp   \* the calls that have stopped waiting

vars == <<open, client, caller, status, asked, answer, gaveUp>>

Init ==
    /\ open = Clients
    /\ client = [n \in Calls |-> Nobody]
    /\ caller = [n \in Calls |-> Nobody]
    /\ status = [n \in Calls |-> "none"]
    /\ asked = [n \in Calls |-> "unsent"]
    /\ answer = [n \in Calls |-> NoAnswer]
    /\ gaveUp = {}

\* A caller waits for one call at a time.
Ask(n, c, t) ==
    /\ status[n] = "none"
    /\ c \in open
    /\ \A k \in Calls : status[k] = "pending" => caller[k] # t
    /\ status' = [status EXCEPT ![n] = "pending"]
    /\ client' = [client EXCEPT ![n] = c]
    /\ caller' = [caller EXCEPT ![n] = t]
    /\ UNCHANGED <<open, asked, answer, gaveUp>>

\* The call may have returned by then.
SendRequest(n) ==
    /\ status[n] # "none"
    /\ asked[n] = "unsent"
    /\ client[n] \in open
    /\ asked' = [asked EXCEPT ![n] = "sent"]
    /\ UNCHANGED <<open, client, caller, status, answer, gaveUp>>

\* A request whose client is gone.
DropRequest(n) ==
    /\ asked[n] = "unsent"
    /\ client[n] \notin open \cup {Nobody}
    /\ asked' = [asked EXCEPT ![n] = "closed"]
    /\ UNCHANGED <<open, client, caller, status, answer, gaveUp>>

\* Someone else on the connection of n has given up, or has called from
\* another thread, the server's aside: answers may stray.
Disturbed(n) ==
    \E k \in Calls \ {n} :
        /\ client[k] = client[n]
        /\ \/ k \in gaveUp
           \/ caller[k] # caller[n] /\ Server \notin {caller[k], caller[n]}

\* The client answers request m; the answer goes to the pending call n.
Answer(m, n) ==
    /\ asked[m] = "sent"
    /\ status[n] = "pending"
    /\ client[n] = client[m] /\ client[m] \in open
    /\ m # n \/ answer[n] # NoAnswer => Disturbed(n)
    /\ asked' = [asked EXCEPT ![m] = "closed"]
    /\ answer' = [answer EXCEPT ![n] = m]
    /\ UNCHANGED <<open, client, caller, status, gaveUp>>

\* An answer that nobody takes: the call it belongs to has given up, or
\* another one has taken its place.
IgnoreAnswer(m) ==
    /\ asked[m] = "sent"
    /\ client[m] \in open
    /\ m \in gaveUp \/ \E k \in Calls \ {m} : client[k] = client[m]
    /\ asked' = [asked EXCEPT ![m] = "closed"]
    /\ UNCHANGED <<open, client, caller, status, answer, gaveUp>>

GiveUp(n) ==
    /\ status[n] = "pending"
    /\ gaveUp' = gaveUp \cup {n}
    /\ UNCHANGED <<open, client, caller, status, asked, answer>>

Close(c) ==
    /\ c \in open
    /\ open' = open \ {c}
    /\ UNCHANGED <<client, caller, status, asked, answer, gaveUp>>

Return(n) ==
    /\ status[n] = "pending"
    /\ answer[n] # NoAnswer \/ n \in gaveUp \/ client[n] \notin open
    /\ status' = [status EXCEPT ![n] = "returned"]
    /\ UNCHANGED <<open, client, caller, asked, answer, gaveUp>>

Next ==
    \/ \E n \in Calls, c \in Clients, t \in Callers : Ask(n, c, t)
    \/ \E n \in Calls : \/ SendRequest(n) \/ DropRequest(n)
                        \/ IgnoreAnswer(n) \/ GiveUp(n) \/ Return(n)
    \/ \E m, n \in Calls : Answer(m, n)
    \/ \E c \in Clients : Close(c)

Spec == Init /\ [][Next]_vars
=============================================================================
