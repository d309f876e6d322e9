-------------------------------- MODULE Session --------------------------------
(***************************************************************************)
(* The life of one connection: JsonProtocolHandler and what the server     *)
(* does with its signals, from incomingConnection to the deletion of the   *)
(* ConnectionData and, with it, of the handler.                            *)
(*                                                                         *)
(* Everything here happens on the server thread.  The difficulty is that   *)
(* signals are calls: a write that fails, and a socket that closes, call   *)
(* protoError and protoFinished before they return, so that the handler is *)
(* deleted under the loop of its own readyRead.  That loop is modelled     *)
(* turn by turn.                                                           *)
(***************************************************************************)
EXTENDS Framing

CONSTANTS
    Streams,     \* what the client may send: sequences of pieces, each with
                 \* a text and what it says, a message or NoMessage
    Requests,    \* the messages of type "req"
    Unknown,     \* those of them whose method the server does not know
    Malformed,   \* the messages of type "ans" without a method, or with "nop"
    End,         \* the message of type "end"
    MaxUpdates   \* bound: requests the server sends on its own account

ASSUME MessagesAssumption ==
    /\ Unknown \subseteq Requests
    /\ Requests \cup {End} \subseteq Messages
    /\ Malformed \subseteq Messages
    /\ End \notin Requests \cup Malformed
    /\ Requests \cap Malformed = {}
ASSUME StreamsAssumption ==
    \A s \in Streams :
        /\ s \in Seq([text : Seq(STRING), says : Messages \cup {NoMessage}])
        /\ \A i \in 1..Len(s) : s[i].says = Meaning(s[i].text)

VARIABLES
    stream,    \* the pieces this client sends, in order
    arrived,   \* the number of characters the handler has read
    buf,       \* incommingBuf
    reading,   \* the loop of readyRead is running
    conn,      \* the ConnectionData, the flags of its handler, the socket
    sent,      \* the messages written to the socket, oldest first
    heard,     \* history: the messages found in the stream, and whether the
               \* server took them
    broken,    \* the network or the client has gone: the next write fails
    ub         \* "none", or what undefined behaviour the program has run into

vars == <<stream, arrived, buf, reading, conn, sent, heard, broken, ub>>

-----------------------------------------------------------------------------
\* cd: "unlisted" until connectionEstablished, then in m_connections.
\* missed: history, the socket went down before that.
Connection == [cd : {"unlisted", "listed", "deleted"},
               sock : {"connected", "closing", "unconnected"},
               unsent : BOOLEAN,
               weEnded : BOOLEAN, peerEnded : BOOLEAN, missed : BOOLEAN]

\* The text of the first i pieces of s, for each i.
Joined(s) ==
    LET joined[i \in 0..Len(s)] ==
          IF i = 0 THEN << >> ELSE joined[i - 1] \o s[i].text
    IN  joined
Characters == Joined(stream)[Len(stream)]

\* The messages the server answers: requests, unless it does not know their
\* method (processExtendedRequests), and answers that it cannot read.
Answered == (Requests \ Unknown) \cup Malformed

Answer(m) == [type |-> "ans", to |-> m]
Other(type) == [type |-> type, to |-> NoMessage]

Init ==
    /\ stream \in Streams
    /\ arrived = 0
    /\ buf = << >>
    /\ reading = FALSE
    /\ conn = [cd |-> "unlisted", sock |-> "connected", unsent |-> FALSE,
               weEnded |-> FALSE, peerEnded |-> FALSE, missed |-> FALSE]
    /\ sent = << >>
    /\ heard = << >>
    /\ broken = FALSE
    /\ ub = "none"

-----------------------------------------------------------------------------
(* The socket and its signals, as functions of the connection.             *)

\* disconnected() and errorOccurred() reach protoFinished and protoError,
\* which delete the connection; one that is not in m_connections yet is not
\* found, and nothing happens.  Mutant: errors are only reported.
SocketDown_Reported(c) == [c EXCEPT !.sock = "unconnected",
                                    !.missed = @ \/ c.cd = "unlisted"]
SocketDown(c) == [c EXCEPT !.sock = "unconnected",
                           !.missed = @ \/ c.cd = "unlisted",
                           !.cd = IF @ = "listed" THEN "deleted" ELSE @]

\* disconnectFromHost: at once, or when the write buffer has been sent.
\* Mutant: what is in the write buffer is waited for even if it is empty.
Disconnect_Waits(c) ==
    IF c.sock = "unconnected" THEN c ELSE [c EXCEPT !.sock = "closing"]
Disconnect(c) ==
    CASE c.sock = "unconnected" -> c
      [] c.sock # "unconnected" /\ c.unsent -> [c EXCEPT !.sock = "closing"]
      [] OTHER -> SocketDown(c)

\* socketValid().  Mutant: isOpen() alone is asked.
CanWrite_Open(c) == c.sock # "unconnected"
CanWrite(c) == ~c.weEnded /\ c.sock = "connected"

\* sendReq, sendAns, sendVer: write and flush.  A flush may leave something
\* in the write buffer, or fail, which is signalled before it returns.
Written(c) ==
    CASE ~CanWrite(c) -> {[c EXCEPT !.weEnded = TRUE]}
      [] CanWrite(c) /\ broken -> {SocketDown(c)}
      [] OTHER -> {[c EXCEPT !.unsent = full] : full \in BOOLEAN}

Send(c, m) ==
    /\ conn' \in Written(c)
    /\ sent' = IF CanWrite(c) /\ ~broken THEN Append(sent, m) ELSE sent

-----------------------------------------------------------------------------
(* Posted events and signals of the socket.                                *)

\* connectionEstablished, posted by incomingConnection.  versionSent is
\* written after the version was sent.
Established ==
    /\ conn.cd = "unlisted"
    /\ ~reading
    /\ Send([conn EXCEPT !.cd = "listed"], Other("ver"))
    /\ ub' = IF conn'.cd = "deleted" THEN "freedConnection" ELSE ub
    /\ UNCHANGED <<stream, arrived, buf, reading, heard, broken>>

\* readyRead, up to its loop.  It takes all that is there, n characters.
\* Mutant: it looks at them and leaves them there.
ReadyRead_Peek(n) ==
    /\ ~reading
    /\ conn.cd # "deleted"
    /\ CanWrite(conn)
    /\ arrived + n <= Len(Characters)
    /\ arrived' = arrived + n
    /\ buf' = buf \o SubSeq(Characters, 1, arrived + n)
    /\ reading' = TRUE
    /\ UNCHANGED <<stream, conn, sent, heard, broken, ub>>
ReadyRead(n) ==
    /\ ~reading
    /\ conn.cd # "deleted"
    /\ CanWrite(conn)                       \* socketValid()
    /\ arrived + n <= Len(Characters)
    /\ arrived' = arrived + n
    /\ buf' = buf \o SubSeq(Characters, arrived + 1, arrived + n)
    /\ reading' = TRUE
    /\ UNCHANGED <<stream, conn, sent, heard, broken, ub>>

\* The write buffer has gone out; a socket that waited for that disconnects.
Flushed ==
    /\ ~reading
    /\ conn.cd # "deleted"
    /\ conn.unsent
    /\ ~broken
    /\ conn' = IF conn.sock = "closing"
                 THEN SocketDown([conn EXCEPT !.unsent = FALSE])
                 ELSE [conn EXCEPT !.unsent = FALSE]
    /\ UNCHANGED <<stream, arrived, buf, reading, sent, heard, broken, ub>>

Break ==
    /\ ~broken
    /\ conn.sock # "unconnected"
    /\ broken' = TRUE
    /\ UNCHANGED <<stream, arrived, buf, reading, conn, sent, heard, ub>>

\* The event loop notices that the connection is gone.
Lost ==
    /\ broken
    /\ ~reading
    /\ conn.sock # "unconnected"
    /\ conn' = SocketDown(conn)
    /\ UNCHANGED <<stream, arrived, buf, reading, sent, heard, broken, ub>>

\* An update or a callback request, sent outside of readyRead.
SendUpdate ==
    /\ ~reading
    /\ conn.cd = "listed"
    /\ Len(SelectSeq(sent, LAMBDA m : m.type = "req")) < MaxUpdates
    /\ Send(conn, Other("req"))
    /\ UNCHANGED <<stream, arrived, buf, reading, heard, broken, ub>>

-----------------------------------------------------------------------------
(* The loop of readyRead.                                                  *)

\* protoReqArrived; a request of an unknown method is not answered.
\* Mutants: the sender is not looked up in m_connections; a request of an
\* unknown method closes the connection.
TakeRequest_Unlisted(m) ==
    IF m \notin Unknown THEN Send(conn, Answer(m)) ELSE UNCHANGED <<conn, sent>>
TakeRequest_Refuses(m) ==
    IF m \in Unknown
      THEN conn' = SocketDown(conn) /\ UNCHANGED sent
      ELSE IF conn.cd = "listed" THEN Send(conn, Answer(m))
                                 ELSE UNCHANGED <<conn, sent>>
TakeRequest(m) ==
    IF conn.cd = "listed" /\ m \notin Unknown
      THEN Send(conn, Answer(m))
      ELSE UNCHANGED <<conn, sent>>

\* peerEnded is set; end() is answered with an end of our own, if none has
\* been sent, and the socket is told to disconnect.  A flush that fails has
\* deleted the handler, whose weEnded end() then writes.
TakeEnd ==
    LET c == [conn EXCEPT !.peerEnded = TRUE]
    IN  IF c.weEnded
          THEN conn' = Disconnect(c) /\ UNCHANGED sent
          ELSE /\ sent' = IF CanWrite(c) /\ ~broken
                            THEN Append(sent, Other("end")) ELSE sent
               /\ \E w \in Written(c) :
                    conn' = IF w.cd = "deleted" THEN w
                            ELSE Disconnect([w EXCEPT !.weEnded = TRUE])

\* protoAnsArrived: an answer without a method is answered by sendError.  Any
\* other is taken without a word.
TakeAnswer(m) ==
    IF conn.cd = "listed" /\ m \in Malformed
      THEN Send(conn, Answer(m))
      ELSE UNCHANGED <<conn, sent>>

\* The version of the peer is kept and never read.
TakeMessage(m) ==
    CASE m \in Requests -> TakeRequest(m)
      [] m \in Malformed -> TakeAnswer(m)
      [] m = End -> TakeEnd
      [] OTHER -> UNCHANGED <<conn, sent>>

\* The loop goes on while the buffer gets shorter.
\* Mutant: readyRead calls processBuffer once.
MoreToDo_Once(before, after) == FALSE
MoreToDo(before, after) == Len(after) # Len(before)

\* One call of processBuffer.
NextTurn ==
    /\ reading
    /\ conn.cd # "deleted"
    /\ LET found == ProcessBuffer(buf)
       IN  /\ buf' = found.rest
           /\ reading' = MoreToDo(buf, found.rest)
           /\ IF found.message = NoMessage
                THEN UNCHANGED <<conn, sent, heard>>
                ELSE /\ TakeMessage(found.message)
                     /\ heard' = Append(heard, [message |-> found.message,
                                                taken |-> conn.cd = "listed"])
    /\ UNCHANGED <<stream, arrived, broken, ub>>

\* The handler was deleted by what the message led to; end() or the loop
\* goes on with its members.
UseDeletedHandler ==
    /\ reading
    /\ conn.cd = "deleted"
    /\ ub' = "freedHandler"
    /\ UNCHANGED <<stream, arrived, buf, reading, conn, sent, heard, broken>>

Step ==
    \/ Established
    \/ \E n \in 1..Len(Characters) : ReadyRead(n)
    \/ Flushed
    \/ Break
    \/ Lost
    \/ SendUpdate
    \/ NextTurn
    \/ UseDeletedHandler

Next == ub = "none" /\ Step

Spec == Init /\ [][Next]_vars

\* The event loop runs, and a socket either sends what it has or fails.
FairSpec ==
    /\ Spec
    /\ WF_vars(ub = "none" /\ Established)
    /\ WF_vars(ub = "none" /\ NextTurn)
    /\ WF_vars(ub = "none" /\ UseDeletedHandler)
    /\ WF_vars(ub = "none" /\ Flushed)
    /\ WF_vars(ub = "none" /\ Lost)

-----------------------------------------------------------------------------
(* Properties.                                                             *)

\* Every variable keeps its type; the buffer holds what has arrived.
TypeOK ==
    /\ stream \in Streams
    /\ arrived \in 0..Len(Characters)
    /\ Len(buf) <= arrived
    /\ reading \in BOOLEAN
    /\ conn \in Connection
    /\ \A i \in 1..Len(sent) : sent[i].type \in {"req", "ans", "ver", "end"}
    /\ \A i \in 1..Len(heard) : heard[i].message \in Messages
    /\ broken \in BOOLEAN
    /\ ub \in {"none", "freedHandler", "freedConnection"}

\* The number of the member n of S, in their order.
Rank(S, n) == Cardinality({k \in S : k <= n})

\* The pieces that are messages and complete in the first n characters.
Whole(n) == {i \in 1..Len(stream) : /\ Len(Joined(stream)[i]) <= n
                                    /\ stream[i].says # NoMessage}

\* The messages found are those of the pieces in S, in their order.
HeardAre(S) ==
    /\ Len(heard) = Cardinality(S)
    /\ \A i \in S : heard[Rank(S, i)].message = stream[i].says

\* What stands between the messages are documents and text without an opening
\* brace, one at a time: a document that is thrown away is not followed by
\* stray characters, which would be counted with what comes next.
Tidy == /\ \A i \in 1..Len(stream) :
              IsDocument(stream[i].text) \/ Open \notin Range(stream[i].text)
        /\ \A i \in 2..Len(stream) :
              NoMessage \in {stream[i - 1].says, stream[i].says} =>
                  stream[i - 1].says # stream[i].says

\* However the network cuts the stream, when the handler goes back to the
\* event loop it has found the messages that are complete, in order, and
\* nothing else; all of them, whatever stands between them, unless a
\* document that is thrown away is followed by stray braces or quotes
\* (processBuffer, readyRead).
MessagesAreFound ==
    ~reading /\ conn.cd # "deleted" =>
        /\ \E kept \in SUBSET Whole(arrived) : HeardAre(kept)
        /\ Tidy => HeardAre(Whole(arrived))

Answers(s) == {i \in 1..Len(s) : s[i].type = "ans"}
Taken(h) == {j \in 1..Len(h) : h[j].taken /\ h[j].message \in Answered}

\* The answers on the wire are those to the messages taken that the server
\* answers, in the order in which these came, and while the session lasts none
\* is missing: every answer belongs to a request of a known method or to an
\* answer that could not be read, and stands at its place.  A request of an
\* unknown method has no answer (protoReqArrived, protoAnsArrived, sendAns).
AnswersFollowRequests ==
    /\ Cardinality(Answers(sent)) <= Cardinality(Taken(heard))
    /\ conn.sock = "connected" /\ conn.cd = "listed" =>
          Cardinality(Answers(sent)) = Cardinality(Taken(heard))
    /\ \A i \in Answers(sent), j \in Taken(heard) :
          Rank(Answers(sent), i) = Rank(Taken(heard), j) =>
              sent[i] = Answer(heard[j].message)

\* On the wire the version comes first, once, and nothing follows the end
\* (sendVer, end, weEnded).
WireOrder ==
    \A i \in 1..Len(sent) :
        /\ sent[i].type = "ver" <=> i = 1 /\ sent[1].type # "end"
        /\ sent[i].type = "end" => i = Len(sent)

\* A handler is used after its deletion only when the client has ended the
\* session or a write has failed, a ConnectionData only when the very first
\* write has (end, readyRead, connectionEstablished).
UndefinedBehaviourCauses ==
    /\ ub = "freedHandler" => broken \/ conn.peerEnded
    /\ ub = "freedConnection" => broken /\ sent = << >>

\* m_connections keeps a connection whose socket is down only if that
\* happened before connectionEstablished (protoFinished, protoError).
DeadConnectionsAreForgotten ==
    conn.cd = "listed" /\ conn.sock = "unconnected" => conn.missed

\* A session that the client ends comes to its end: the connection is
\* deleted, unless the end came before connectionEstablished, or ran into
\* the deleted handler (end, disconnectFromHost, protoFinished).
EndCompletes ==
    conn.peerEnded ~> conn.cd = "deleted" \/ conn.missed

\* README.md:23 lists end among the four kinds of messages: the end of a
\* session is ordinary.  It would do no harm while the network works.
OrderlyEndIsHarmless == ub # "none" => broken
=============================================================================
