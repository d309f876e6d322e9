----------------------------- MODULE SessionProofs -----------------------------
(* Proofs about Session for every stream, every set of messages and every   *)
(* way the network cuts and breaks the connection.                          *)
EXTENDS Session, FramingProofs

WireMessage == [type : {"req", "ans", "ver", "end"}, to : Messages \cup {NoMessage}]

HasEnd(s) == \E i \in 1..Len(s) : s[i].type = "end"

\* WireOrder, of any sequence of messages.
Ordered(s) ==
    \A i \in 1..Len(s) :
        /\ s[i].type = "ver" <=> i = 1 /\ s[1].type # "end"
        /\ s[i].type = "end" => i = Len(s)

\* What a connection c and what was written to its socket, s, have to do with
\* each other: a deleted connection has no socket; one that has none and was
\* not deleted lost it before it was listed; an end, and a listing that wrote
\* nothing, leave a socket that takes no more; an unlisted connection wrote
\* nothing but an end.
Coherent(c, s) ==
    /\ c \in Connection
    /\ s \in Seq(WireMessage)
    /\ c.cd = "deleted" => c.sock = "unconnected"
    /\ c.cd # "deleted" /\ c.sock = "unconnected" => c.missed
    /\ Ordered(s)
    /\ HasEnd(s) => ~CanWrite(c)
    /\ c.cd = "unlisted" => s = << >> \/ c.weEnded
    /\ s = << >> /\ c.cd # "unlisted" => ~CanWrite(c)

\* A loop that runs over a deleted handler was led there by an end or by a
\* write that failed.
IInv ==
    /\ Coherent(conn, sent)
    /\ reading \in BOOLEAN
    /\ broken \in BOOLEAN
    /\ reading /\ conn.cd = "deleted" => broken \/ conn.peerEnded
    /\ UndefinedBehaviourCauses

-----------------------------------------------------------------------------
\* The messages the server writes are wire messages.
LEMMA WireMessages ==
    /\ \A m \in Requests \cup Malformed :
          Answer(m) \in WireMessage /\ Answer(m).type = "ans"
    /\ Other("req") \in WireMessage /\ Other("req").type = "req"
    /\ Other("ver") \in WireMessage /\ Other("ver").type = "ver"
    /\ Other("end") \in WireMessage /\ Other("end").type = "end"
<1>1. ASSUME NEW m \in Requests \cup Malformed
      PROVE  Answer(m) \in WireMessage /\ Answer(m).type = "ans"
  BY MessagesAssumption DEF Answer, WireMessage
<1>2. \A t \in {"req", "ver", "end"} : Other(t) \in WireMessage /\ Other(t).type = t
  BY DEF Other, WireMessage
<1> QED
  BY <1>1, <1>2

\* A message appended to a sequence without an end keeps the order, if it is
\* the version exactly when it is the first, or an end.
LEMMA AppendOrdered ==
    ASSUME NEW s \in Seq(WireMessage), NEW m \in WireMessage,
           Ordered(s), ~HasEnd(s),
           m.type # "end" => (m.type = "ver" <=> s = << >>)
    PROVE  /\ Append(s, m) \in Seq(WireMessage)
           /\ Append(s, m) # << >>
           /\ Ordered(Append(s, m))
           /\ m.type # "end" => ~HasEnd(Append(s, m))
<1> DEFINE t == Append(s, m)
<1>1. /\ t \in Seq(WireMessage)
      /\ Len(s) \in Nat
      /\ Len(t) = Len(s) + 1
      /\ t[Len(s) + 1] = m
      /\ \A i \in 1..Len(s) : t[i] = s[i]
      /\ s = << >> <=> Len(s) = 0
  OBVIOUS
<1>2. t # << >>
  BY <1>1
<1>3. ASSUME NEW i \in 1..Len(t)
      PROVE  /\ t[i].type = "ver" <=> i = 1 /\ t[1].type # "end"
             /\ t[i].type = "end" => i = Len(t)
             /\ m.type # "end" => t[i].type # "end"
  <2> HIDE DEF t
  <2>1. CASE i \in 1..Len(s)
    <3>1. t[i] = s[i] /\ t[1] = s[1]
      BY <1>1, <2>1
    <3> QED
      BY <1>1, <2>1, <3>1 DEF Ordered, HasEnd
  <2>2. CASE i = Len(s) + 1 /\ Len(s) = 0
    BY <1>1, <2>2
  <2>3. CASE i = Len(s) + 1 /\ Len(s) # 0
    <3>1. s # << >> /\ i # 1 /\ t[i] = m
      BY <1>1, <2>3
    <3> QED
      BY <1>1, <2>3, <3>1
  <2> QED
    BY <1>1, <2>1, <2>2, <2>3
<1> QED
  BY <1>1, <1>2, <1>3 DEF Ordered, HasEnd

\* A socket that goes down leaves nothing behind that is not coherent, and
\* writes nothing; whoever is in the list is deleted.
LEMMA SocketDownCoherent ==
    ASSUME NEW c \in Connection, NEW s \in Seq(WireMessage), Ordered(s),
           c.cd = "unlisted" => s = << >> \/ c.weEnded
    PROVE  /\ Coherent(SocketDown(c), s)
           /\ SocketDown(c).peerEnded = c.peerEnded
           /\ SocketDown(c).weEnded = c.weEnded
           /\ SocketDown(c).cd = IF c.cd = "listed" THEN "deleted" ELSE c.cd
  BY DEF Coherent, SocketDown, Connection, CanWrite

\* disconnectFromHost, too.
LEMMA DisconnectCoherent ==
    ASSUME NEW c, NEW s, Coherent(c, s), ~CanWrite(c)
    PROVE  /\ Coherent(Disconnect(c), s)
           /\ Disconnect(c).peerEnded = c.peerEnded
<1>1. CASE c.sock = "unconnected"
  BY <1>1 DEF Disconnect
<1>2. CASE c.sock # "unconnected" /\ c.unsent
  BY <1>2 DEF Disconnect, Coherent, Connection, CanWrite
<1>3. CASE c.sock # "unconnected" /\ ~c.unsent
  BY <1>3, SocketDownCoherent DEF Disconnect, Coherent
<1> QED
  BY <1>1, <1>2, <1>3

\* sendReq and sendAns on a connection of m_connections: either the message
\* is written, behind a version and before any end, or the connection cannot
\* be written to, or it is deleted because the write failed.
LEMMA SendCoherent ==
    ASSUME Coherent(conn, sent), broken \in BOOLEAN,
           conn.cd = "listed",
           NEW m \in WireMessage, m.type \in {"req", "ans"},
           Send(conn, m)
    PROVE  /\ Coherent(conn', sent')
           /\ conn'.peerEnded = conn.peerEnded
           /\ conn'.cd = "deleted" => broken
<1>1. CASE ~CanWrite(conn)
  <2>1. conn' = [conn EXCEPT !.weEnded = TRUE] /\ sent' = sent
    BY <1>1 DEF Send, Written
  <2> QED
    BY <2>1 DEF Coherent, Connection, CanWrite
<1>2. CASE CanWrite(conn) /\ broken
  <2>1. conn' = SocketDown(conn) /\ sent' = sent
    BY <1>2 DEF Send, Written
  <2> QED
    BY <1>2, <2>1, SocketDownCoherent DEF Coherent
<1>3. CASE CanWrite(conn) /\ ~broken
  <2>1. PICK full \in BOOLEAN : conn' = [conn EXCEPT !.unsent = full]
    BY <1>3 DEF Send, Written
  <2>2. sent' = Append(sent, m)
    BY <1>3 DEF Send
  <2>3. sent # << >> /\ ~HasEnd(sent)
    BY <1>3 DEF Coherent
  <2>4. /\ sent' \in Seq(WireMessage)
        /\ sent' # << >>
        /\ Ordered(sent')
        /\ ~HasEnd(sent')
    BY <2>2, <2>3, AppendOrdered DEF Coherent
  <2> QED
    BY <2>1, <2>4 DEF Coherent, Connection, CanWrite
<1> QED
  BY <1>1, <1>2, <1>3

\* connectionEstablished: the version is written first, if anything can be
\* written at all.
LEMMA EstablishedCoherent ==
    ASSUME Coherent(conn, sent), broken \in BOOLEAN, conn.cd = "unlisted",
           Send([conn EXCEPT !.cd = "listed"], Other("ver"))
    PROVE  /\ Coherent(conn', sent')
           /\ conn'.cd = "deleted" => broken /\ sent' = << >>
<1> DEFINE c == [conn EXCEPT !.cd = "listed"]
<1>1. /\ c \in Connection /\ c.cd = "listed"
      /\ c.sock = conn.sock /\ c.weEnded = conn.weEnded
      /\ c.missed = conn.missed
      /\ CanWrite(c) <=> CanWrite(conn)
  BY DEF Coherent, Connection, CanWrite
<1> HIDE DEF c
<1>2. Send(c, Other("ver"))
  BY DEF c
<1>3. CASE ~CanWrite(c)
  <2>1. conn' = [c EXCEPT !.weEnded = TRUE] /\ sent' = sent
    BY <1>2, <1>3 DEF Send, Written
  <2> QED
    BY <1>1, <1>3, <2>1 DEF Coherent, Connection, CanWrite
<1>4. CASE CanWrite(c) /\ broken
  <2>1. conn' = SocketDown(c) /\ sent' = sent
    BY <1>2, <1>4 DEF Send, Written
  <2>2. sent = << >>
    BY <1>1, <1>4 DEF Coherent, CanWrite
  <2> QED
    BY <1>1, <1>4, <2>1, <2>2, SocketDownCoherent DEF Coherent
<1>5. CASE CanWrite(c) /\ ~broken
  <2>1. PICK full \in BOOLEAN : conn' = [c EXCEPT !.unsent = full]
    BY <1>2, <1>5 DEF Send, Written
  <2>2. sent' = Append(sent, Other("ver"))
    BY <1>2, <1>5 DEF Send
  <2>3. sent = << >> /\ ~HasEnd(sent)
    BY <1>1, <1>5 DEF Coherent, CanWrite
  <2>4. /\ sent' \in Seq(WireMessage)
        /\ sent' # << >>
        /\ Ordered(sent')
        /\ ~HasEnd(sent')
    BY <2>2, <2>3, AppendOrdered, WireMessages DEF Coherent
  <2> QED
    BY <1>1, <2>1, <2>4 DEF Coherent, Connection, CanWrite
<1> QED
  BY <1>3, <1>4, <1>5

\* The end of the peer: an end is written at most once, and nothing after it.
LEMMA TakeEndCoherent ==
    ASSUME Coherent(conn, sent), broken \in BOOLEAN, conn.cd # "deleted",
           TakeEnd
    PROVE  Coherent(conn', sent') /\ conn'.peerEnded
<1> DEFINE c == [conn EXCEPT !.peerEnded = TRUE]
<1>1. /\ Coherent(c, sent)
      /\ c.peerEnded /\ c.cd = conn.cd
      /\ c.weEnded => ~CanWrite(c)
  BY DEF Coherent, Connection, CanWrite
<1>2. \/ c.weEnded /\ conn' = Disconnect(c) /\ sent' = sent
      \/ /\ ~c.weEnded
         /\ sent' = IF CanWrite(c) /\ ~broken
                      THEN Append(sent, Other("end")) ELSE sent
         /\ \E w \in Written(c) :
              conn' = IF w.cd = "deleted" THEN w
                      ELSE Disconnect([w EXCEPT !.weEnded = TRUE])
  BY DEF TakeEnd
<1> HIDE DEF c
<1>3. CASE c.weEnded
  <2>1. conn' = Disconnect(c) /\ sent' = sent
    BY <1>2, <1>3
  <2> QED
    BY <1>1, <1>3, <2>1, DisconnectCoherent
<1>4. CASE ~c.weEnded
  <2>1. PICK w \in Written(c) :
           conn' = IF w.cd = "deleted" THEN w
                   ELSE Disconnect([w EXCEPT !.weEnded = TRUE])
    BY <1>2, <1>4
  <2>2. sent' = IF CanWrite(c) /\ ~broken
                  THEN Append(sent, Other("end")) ELSE sent
    BY <1>2, <1>4
  <2>3. /\ w \in Connection /\ w.peerEnded
        /\ w.cd = "deleted" => Coherent(w, sent')
        /\ w.cd # "deleted" => Coherent([w EXCEPT !.weEnded = TRUE], sent')
    <3>1. CASE ~CanWrite(c)
      <4>1. w = [c EXCEPT !.weEnded = TRUE] /\ sent' = sent
        BY <2>2, <3>1 DEF Written
      <4> QED
        BY <1>1, <3>1, <4>1 DEF Coherent, Connection, CanWrite
    <3>2. CASE CanWrite(c) /\ broken
      <4>1. w = SocketDown(c) /\ sent' = sent
        BY <2>2, <3>2 DEF Written
      <4>2. Coherent(w, sent) /\ w.peerEnded
        BY <1>1, <4>1, SocketDownCoherent DEF Coherent
      <4> QED
        BY <4>1, <4>2 DEF Coherent, Connection, CanWrite
    <3>3. CASE CanWrite(c) /\ ~broken
      <4>1. PICK full \in BOOLEAN : w = [c EXCEPT !.unsent = full]
        BY <3>3 DEF Written
      <4>2. sent' = Append(sent, Other("end")) /\ ~HasEnd(sent)
        BY <1>1, <2>2, <3>3 DEF Coherent
      <4>3. /\ sent' \in Seq(WireMessage)
            /\ sent' # << >>
            /\ Ordered(sent')
        BY <1>1, <4>2, AppendOrdered, WireMessages DEF Coherent
      <4>4. w.cd # "deleted"
        BY <1>1, <4>1 DEF Coherent, Connection
      <4> QED
        BY <1>1, <4>1, <4>3, <4>4 DEF Coherent, Connection, CanWrite
    <3> QED
      BY <3>1, <3>2, <3>3
  <2>4. CASE w.cd = "deleted"
    BY <2>1, <2>3, <2>4
  <2>5. CASE w.cd # "deleted"
    <3> DEFINE v == [w EXCEPT !.weEnded = TRUE]
    <3>1. Coherent(v, sent') /\ ~CanWrite(v) /\ v.peerEnded
      BY <2>3, <2>5 DEF Connection, CanWrite
    <3>2. conn' = Disconnect(v)
      BY <2>1, <2>5
    <3> HIDE DEF v
    <3> QED
      BY <3>1, <3>2, DisconnectCoherent
  <2> QED
    BY <2>4, <2>5
<1> QED
  BY <1>3, <1>4

\* What becomes of a message.
LEMMA MessagesTaken ==
    ASSUME NEW m, TakeMessage(m)
    PROVE  /\ m \in Answered /\ conn.cd = "listed" => Send(conn, Answer(m))
           /\ ~(m \in Answered /\ conn.cd = "listed") /\ m # End =>
                 UNCHANGED <<conn, sent>>
           /\ m = End => TakeEnd
<1>1. CASE m \in Requests
  BY <1>1, MessagesAssumption DEF TakeMessage, TakeRequest, Answered
<1>2. CASE m \in Malformed
  BY <1>2, MessagesAssumption DEF TakeMessage, TakeAnswer, Answered
<1>3. CASE m \notin Requests \cup Malformed
  BY <1>3, MessagesAssumption DEF TakeMessage, Answered
<1> QED
  BY <1>1, <1>2, <1>3

\* Whatever message the loop of readyRead has found, a handler that it leads
\* to the deletion of was deleted by an end or by a write that failed.
LEMMA TakeMessageCoherent ==
    ASSUME Coherent(conn, sent), broken \in BOOLEAN, conn.cd # "deleted",
           NEW m, TakeMessage(m)
    PROVE  /\ Coherent(conn', sent')
           /\ conn'.cd = "deleted" => broken \/ conn'.peerEnded
<1>1. CASE m \in Answered /\ conn.cd = "listed"
  <2>1. Send(conn, Answer(m))
    BY <1>1, MessagesTaken
  <2> QED
    BY <1>1, <2>1, WireMessages, SendCoherent DEF Answered
<1>2. CASE ~(m \in Answered /\ conn.cd = "listed") /\ m # End
  <2>1. UNCHANGED <<conn, sent>>
    BY <1>2, MessagesTaken
  <2> QED
    BY <2>1
<1>3. CASE m = End
  BY <1>3, TakeEndCoherent, MessagesTaken
<1> QED
  BY <1>1, <1>2, <1>3

-----------------------------------------------------------------------------
\* A connection that was just accepted is coherent.
LEMMA InitInvariant == Init => IInv
<1> SUFFICES ASSUME Init PROVE IInv
  OBVIOUS
<1>1. conn \in Connection /\ conn.cd = "unlisted" /\ conn.sock = "connected"
  BY DEF Init, Connection
<1>2. /\ << >> \in Seq(WireMessage)
      /\ Ordered(<< >>)
      /\ ~HasEnd(<< >>)
  BY DEF Ordered, HasEnd
<1>3. Coherent(conn, sent)
  BY <1>1, <1>2 DEF Init, Coherent
<1> QED
  BY <1>3 DEF Init, IInv, UndefinedBehaviourCauses

\* Every event and every turn of the loop keeps the invariant.
LEMMA NextInvariant == IInv /\ [Next]_vars => IInv'
<1> SUFFICES ASSUME IInv, [Next]_vars PROVE IInv'
  OBVIOUS
<1> USE DEF IInv, UndefinedBehaviourCauses
<1>1. CASE UNCHANGED vars
  BY <1>1 DEF vars, Coherent, CanWrite
<1>2. CASE ub = "none" /\ Established
  <2>1. Coherent(conn', sent') /\ (conn'.cd = "deleted" => broken /\ sent' = << >>)
    BY <1>2, EstablishedCoherent DEF Established
  <2> QED
    BY <1>2, <2>1 DEF Established, Coherent, CanWrite
<1>3. ASSUME NEW n, ub = "none", ReadyRead(n) PROVE IInv'
  BY <1>3 DEF ReadyRead, Coherent, CanWrite
<1>4. CASE ub = "none" /\ Flushed
  <2> DEFINE c == [conn EXCEPT !.unsent = FALSE]
  <2>1. Coherent(c, sent) /\ c \in Connection
    BY DEF Coherent, Connection, CanWrite
  <2>2. conn' = IF conn.sock = "closing" THEN SocketDown(c) ELSE c
    BY <1>4 DEF Flushed
  <2> HIDE DEF c
  <2>3. Coherent(SocketDown(c), sent)
    BY <2>1, SocketDownCoherent DEF Coherent
  <2>4. Coherent(conn', sent)
    BY <2>1, <2>2, <2>3
  <2> QED
    BY <1>4, <2>4 DEF Flushed, Coherent, CanWrite
<1>5. CASE ub = "none" /\ Break
  BY <1>5 DEF Break, Coherent, CanWrite
<1>6. CASE ub = "none" /\ Lost
  <2>1. Coherent(conn', sent)
    BY <1>6, SocketDownCoherent DEF Lost, Coherent
  <2> QED
    BY <1>6, <2>1 DEF Lost, Coherent, CanWrite
<1>7. CASE ub = "none" /\ SendUpdate
  <2>1. Coherent(conn', sent')
    BY <1>7, WireMessages, SendCoherent DEF SendUpdate
  <2> QED
    BY <1>7, <2>1 DEF SendUpdate, Coherent, CanWrite
<1>8. CASE ub = "none" /\ NextTurn
  <2> DEFINE found == ProcessBuffer(buf)
  <2>1. /\ reading /\ conn.cd # "deleted" /\ reading' = MoreToDo(buf, found.rest)
        /\ UNCHANGED <<broken, ub>>
        /\ UNCHANGED <<conn, sent>> \/ TakeMessage(found.message)
    BY <1>8 DEF NextTurn
  <2> HIDE DEF found
  <2>2. reading' \in BOOLEAN
    BY <2>1 DEF MoreToDo
  <2>3. /\ Coherent(conn', sent')
        /\ conn'.cd = "deleted" => broken \/ conn'.peerEnded
    BY <2>1, TakeMessageCoherent
  <2> QED
    BY <1>8, <2>1, <2>2, <2>3 DEF Coherent, CanWrite
<1>9. CASE ub = "none" /\ UseDeletedHandler
  BY <1>9 DEF UseDeletedHandler, Coherent, CanWrite
<1> QED
  BY <1>1, <1>2, <1>3, <1>4, <1>5, <1>6, <1>7, <1>8, <1>9 DEF Next, Step

\* Connection, wire and handler stay coherent (JsonProtocolHandler and the
\* slots of BridgeTCPServer it calls).
THEOREM Invariant == Spec => []IInv
<1>1. Init => IInv
  BY InitInvariant
<1>2. IInv /\ [Next]_vars => IInv'
  BY NextInvariant
<1> QED
  BY <1>1, <1>2, PTL DEF Spec

\* On the wire the version comes first, once, and nothing follows the end,
\* whatever the client sends and whenever the network fails (sendVer, end,
\* weEnded).
THEOREM WireOrderHolds == Spec => []WireOrder
<1>1. IInv => WireOrder
  BY DEF IInv, Coherent, Ordered, WireOrder
<1> QED
  BY <1>1, Invariant, PTL

\* A handler is used after its deletion only when the client has ended the
\* session or a write has failed, a ConnectionData only when the very first
\* write has (end, readyRead, connectionEstablished).
THEOREM UndefinedBehaviourHasCause == Spec => []UndefinedBehaviourCauses
<1>1. IInv => UndefinedBehaviourCauses
  BY DEF IInv
<1> QED
  BY <1>1, Invariant, PTL

\* m_connections keeps a connection whose socket is down only if that
\* happened before connectionEstablished (protoFinished, protoError).
THEOREM DeadConnectionsForgotten == Spec => []DeadConnectionsAreForgotten
<1>1. IInv => DeadConnectionsAreForgotten
  BY DEF IInv, Coherent, DeadConnectionsAreForgotten
<1> QED
  BY <1>1, Invariant, PTL

-----------------------------------------------------------------------------
(* The pieces of a stream put together.                                    *)

\* Where a piece ends in the text of its stream.
EndOf(s, i) == Len(Joined(s)[i])
WholeText(s) == Joined(s)[Len(s)]

LEMMA PieceType ==
    ASSUME NEW s \in Streams
    PROVE  /\ Len(s) \in Nat
           /\ \A i \in 1..Len(s) : /\ s[i].text \in Seq(STRING)
                                   /\ s[i].says = Meaning(s[i].text)
<1> DEFINE Piece == [text : Seq(STRING), says : Messages \cup {NoMessage}]
<1>1. s \in Seq(Piece) /\ \A i \in 1..Len(s) : s[i].says = Meaning(s[i].text)
  BY StreamsAssumption
<1>2. Len(s) \in Nat
  BY <1>1
<1>3. ASSUME NEW i \in 1..Len(s) PROVE s[i].text \in Seq(STRING)
  <2>1. s[i] \in Piece
    <3> HIDE DEF Piece
    <3> QED
      BY <1>1, ElementOfSeq
  <2> QED
    BY <2>1
<1> QED
  BY <1>1, <1>2, <1>3

\* A piece that says something is a document.
LEMMA MessagePiece ==
    ASSUME NEW s \in Streams, NEW i \in 1..Len(s), s[i].says # NoMessage
    PROVE  IsDocument(s[i].text)
<1>1. \E m \in Messages : Text[m] = s[i].text
  BY PieceType DEF Meaning
<1> QED
  BY <1>1, TextAssumption

LEMMA JoinedFacts ==
    ASSUME NEW s \in Streams
    PROVE  /\ Joined(s)[0] = << >>
           /\ \A i \in 1..Len(s) : Joined(s)[i] = Joined(s)[i - 1] \o s[i].text
           /\ \A i \in 0..Len(s) : Joined(s)[i] \in Seq(STRING)
<1> DEFINE Values(f) == [i \in 0..Len(s) |->
                           IF i = 0 THEN << >> ELSE f[i - 1] \o s[i].text]
           joined == CHOOSE f : f = Values(f)
           last == Len(s)
           start == << >>
           steps == [i \in Nat |-> [t \in Seq(STRING) |->
                       IF i \in 1..last THEN t \o s[i].text ELSE t]]
<1>1. Joined(s) = joined
  BY DEF Joined
<1>2. last \in Nat /\ \A i \in 1..last : s[i].text \in Seq(STRING)
  BY PieceType
<1>3. start \in Seq(STRING)
  OBVIOUS
<1>4. steps \in Steps(Seq(STRING))
  <2>1. ASSUME NEW i \in Nat, NEW t \in Seq(STRING)
        PROVE  (IF i \in 1..last THEN t \o s[i].text ELSE t) \in Seq(STRING)
    <3>1. CASE i \in 1..last
      <4>1. s[i].text \in Seq(STRING)
        BY <1>2, <3>1
      <4>2. t \o s[i].text \in Seq(STRING)
        BY <4>1
      <4> QED
        BY <3>1, <4>2
    <3>2. CASE i \notin 1..last
      BY <3>2
    <3> QED
      BY <3>1, <3>2
  <2> HIDE DEF last
  <2> QED
    BY <2>1 DEF Steps
<1>5. PICK g \in [0..last -> Seq(STRING)] : Iterates(g, start, steps, last)
  <2> HIDE DEF steps, last, start, Values, joined
  <2> QED
    BY <1>2, <1>3, <1>4, Iteration
<1>6. ASSUME NEW i \in 1..last PROVE g[i] = g[i - 1] \o s[i].text
  <2> HIDE DEF last
  <2>1. g[i - 1] \in Seq(STRING) /\ i \in Nat
    BY <1>2
  <2>2. g[i] = steps[i][g[i - 1]]
    <3> HIDE DEF steps
    <3> QED
      BY <1>5 DEF Iterates
  <2> QED
    BY <2>1, <2>2
<1>7. g[0] = << >>
  BY <1>5 DEF Iterates
<1> HIDE DEF steps
<1>8. \E f : f = Values(f)
  <2>1. ASSUME NEW i \in 0..last PROVE g[i] = Values(g)[i]
    <3>1. CASE i = 0
      BY <1>2, <1>7, <3>1
    <3>2. CASE i # 0
      <4>1. i \in 1..last
        BY <1>2, <3>2
      <4>2. Values(g)[i] = g[i - 1] \o s[i].text
        BY <3>2
      <4> QED
        BY <1>6, <4>1, <4>2
    <3> QED
      BY <3>1, <3>2
  <2>2. g = Values(g)
    BY <2>1
  <2> QED
    BY <2>2
<1>9. joined = Values(joined)
  BY <1>8
<1> HIDE DEF joined
<1>10. joined[0] = << >>
  BY <1>2, <1>9
<1>11. ASSUME NEW i \in 1..last PROVE joined[i] = joined[i - 1] \o s[i].text
  <2>1. i \in 0..last /\ i # 0
    BY <1>2
  <2>2. Values(joined)[i] = joined[i - 1] \o s[i].text
    BY <2>1
  <2> HIDE DEF Values
  <2> QED
    BY <1>9, <2>2
<1>12. ASSUME NEW i \in 0..last PROVE joined[i] \in Seq(STRING)
  <2>1. ASSUME NEW j \in 1..i, joined[j - 1] \in Seq(STRING)
        PROVE  joined[j] \in Seq(STRING)
    <3>1. j \in 1..last
      BY <1>2
    <3>2. s[j].text \in Seq(STRING) /\ joined[j] = joined[j - 1] \o s[j].text
      <4> HIDE DEF last
      <4> QED
        BY <1>2, <1>11, <3>1
    <3> QED
      BY <2>1, <3>2
  <2>2. i \in Nat /\ joined[0] \in Seq(STRING)
    BY <1>2, <1>10
  <2> QED
    BY <2>1, <2>2, IterationStays
<1> QED
  BY <1>1, <1>10, <1>11, <1>12

\* The pieces of a stream put together are a text.
LEMMA CharactersType ==
    ASSUME stream \in Streams
    PROVE  Characters \in Seq(STRING)
<1>1. Len(stream) \in 0..Len(stream)
  BY PieceType
<1> QED
  BY <1>1, JoinedFacts DEF Characters

-----------------------------------------------------------------------------
(* Types, and what the buffer holds.                                       *)

HeardRecord == [message : Messages, taken : BOOLEAN]

TextInv ==
    /\ stream \in Streams
    /\ arrived \in 0..Len(Characters)
    /\ buf \in Seq(STRING)
    /\ Len(buf) <= arrived
    /\ heard \in Seq(HeardRecord)
    /\ ub \in {"none", "freedHandler", "freedConnection"}

LEMMA InitText == Init => TextInv
<1> SUFFICES ASSUME Init PROVE TextInv
  OBVIOUS
<1>1. stream \in Streams /\ Len(Characters) \in Nat
  BY CharactersType DEF Init
<1> QED
  BY <1>1 DEF Init, TextInv

LEMMA StepText == IInv /\ TextInv /\ [Next]_vars => TextInv'
<1> SUFFICES ASSUME IInv, TextInv, [Next]_vars PROVE TextInv'
  OBVIOUS
<1>1. Characters \in Seq(STRING) /\ Len(Characters) \in Nat
  BY CharactersType DEF TextInv
<1>2. stream' = stream => Characters' = Characters
  BY DEF Characters
<1>3. CASE UNCHANGED vars
  BY <1>2, <1>3 DEF vars, TextInv
<1>4. CASE \/ Established \/ Flushed \/ Break \/ Lost \/ SendUpdate
           \/ UseDeletedHandler
  <2>1. UNCHANGED <<stream, arrived, buf, heard>>
    BY <1>4 DEF Established, Flushed, Break, Lost, SendUpdate, UseDeletedHandler
  <2>2. ub' \in {"none", "freedHandler", "freedConnection"}
    BY <1>4 DEF TextInv, Established, Flushed, Break, Lost, SendUpdate,
                UseDeletedHandler
  <2> QED
    BY <1>2, <2>1, <2>2 DEF TextInv
<1>5. ASSUME NEW n \in 1..Len(Characters), ReadyRead(n) PROVE TextInv'
  <2>1. /\ UNCHANGED <<stream, heard, ub>>
        /\ arrived + n <= Len(Characters) /\ arrived' = arrived + n
        /\ buf' = buf \o SubSeq(Characters, arrived + 1, arrived + n)
    BY <1>5 DEF ReadyRead
  <2> DEFINE new == SubSeq(Characters, arrived + 1, arrived + n)
  <2>2. /\ arrived \in Nat /\ n \in Nat
        /\ new \in Seq(STRING) /\ Len(new) = n
    BY <1>1, <2>1 DEF TextInv
  <2> HIDE DEF new
  <2>3. buf' \in Seq(STRING) /\ Len(buf') = Len(buf) + n
    BY <2>1, <2>2 DEF TextInv, new
  <2> QED
    BY <1>1, <1>2, <2>1, <2>2, <2>3 DEF TextInv
<1>6. CASE NextTurn
  <2> DEFINE found == ProcessBuffer(buf)
  <2>1. /\ UNCHANGED <<stream, arrived, ub>>
        /\ buf' = found.rest
        /\ \/ heard' = heard
           \/ /\ found.message # NoMessage
              /\ heard' = Append(heard, [message |-> found.message,
                                         taken |-> conn.cd = "listed"])
    BY <1>6 DEF NextTurn
  <2>2. /\ found.message \in Messages \cup {NoMessage}
        /\ found.rest \in Seq(STRING) /\ Len(found.rest) <= Len(buf)
    BY ProcessBufferType DEF TextInv
  <2> HIDE DEF found
  <2>3. heard' \in Seq(HeardRecord)
    <3> DEFINE told == [message |-> found.message, taken |-> conn.cd = "listed"]
    <3>1. heard \in Seq(HeardRecord)
      BY DEF TextInv
    <3>2. found.message # NoMessage => told \in HeardRecord
      BY <2>2 DEF HeardRecord
    <3> HIDE DEF told
    <3>3. found.message # NoMessage => Append(heard, told) \in Seq(HeardRecord)
      BY <3>1, <3>2
    <3> QED
      BY <2>1, <3>1, <3>3 DEF told
  <2>4. Len(found.rest) \in Nat /\ Len(buf) \in Nat
    BY <2>2 DEF TextInv
  <2> QED
    BY <1>1, <1>2, <2>1, <2>2, <2>3, <2>4 DEF TextInv
<1> QED
  BY <1>3, <1>4, <1>5, <1>6 DEF Next, Step

THEOREM TextInvariant == Spec => [](IInv /\ TextInv)
<1>1. Init => IInv /\ TextInv
  BY InitInvariant, InitText
<1>2. (IInv /\ TextInv) /\ [Next]_vars => (IInv /\ TextInv)'
  BY NextInvariant, StepText
<1> QED
  BY <1>1, <1>2, PTL DEF Spec

\* Every variable keeps its type, and the buffer of a handler holds no more
\* than has arrived: of what processBuffer finds, everything is a message,
\* and what it leaves is never longer than what it was given.
THEOREM TypeCorrect == Spec => []TypeOK
<1>1. IInv /\ TextInv => TypeOK
  <2> SUFFICES ASSUME IInv, TextInv PROVE TypeOK
    OBVIOUS
  <2>1. ASSUME NEW i \in 1..Len(sent)
        PROVE  sent[i].type \in {"req", "ans", "ver", "end"}
    <3>1. sent[i] \in WireMessage
      BY DEF IInv, Coherent
    <3> QED
      BY <3>1 DEF WireMessage
  <2>2. ASSUME NEW i \in 1..Len(heard) PROVE heard[i].message \in Messages
    <3>1. heard[i] \in HeardRecord
      BY DEF TextInv
    <3> QED
      BY <3>1 DEF HeardRecord
  <2> QED
    BY <2>1, <2>2 DEF IInv, Coherent, TextInv, TypeOK
<1> QED
  BY <1>1, TextInvariant, PTL


-----------------------------------------------------------------------------
(* Answers and requests.                                                   *)

\* A member of a set of numbers up to n has a number in it that does not
\* change when n + 1 is added, which comes last.
LEMMA RankInSet ==
    ASSUME NEW n \in Nat, NEW S, S \subseteq 1..n
    PROVE  /\ Cardinality(S) \in Nat
           /\ Cardinality(S \cup {n + 1}) = Cardinality(S) + 1
           /\ Rank(S \cup {n + 1}, n + 1) = Cardinality(S) + 1
           /\ \A i \in S :
                /\ Rank(S, i) \in Nat /\ Rank(S, i) <= Cardinality(S)
                /\ Rank(S \cup {n + 1}, i) = Rank(S, i)
<1>1. IsFiniteSet(S) /\ Cardinality(S) \in Nat
  <2>1. IsFiniteSet(1..n)
    BY FS_Interval
  <2>2. IsFiniteSet(S)
    BY <2>1, FS_Subset
  <2> QED
    BY <2>2, FS_CardinalityType
<1>2. Cardinality(S \cup {n + 1}) = Cardinality(S) + 1
  <2>1. n + 1 \notin S
    OBVIOUS
  <2> QED
    BY <1>1, <2>1, FS_AddElement
<1>3. {k \in S \cup {n + 1} : k <= n + 1} = S \cup {n + 1}
  <2>1. \A k \in S \cup {n + 1} : k <= n + 1
    OBVIOUS
  <2> QED
    BY <2>1
<1>4. ASSUME NEW i \in S
      PROVE  /\ Rank(S, i) \in Nat /\ Rank(S, i) <= Cardinality(S)
             /\ Rank(S \cup {n + 1}, i) = Rank(S, i)
  <2>1. {k \in S : k <= i} \in SUBSET S
    OBVIOUS
  <2>2. /\ IsFiniteSet({k \in S : k <= i})
        /\ Cardinality({k \in S : k <= i}) <= Cardinality(S)
    BY <1>1, <2>1, FS_Subset
  <2>3. Cardinality({k \in S : k <= i}) \in Nat
    BY <2>2, FS_CardinalityType
  <2>4. {k \in S \cup {n + 1} : k <= i} = {k \in S : k <= i}
    OBVIOUS
  <2> QED
    BY <2>2, <2>3, <2>4 DEF Rank
<1> QED
  BY <1>1, <1>2, <1>3, <1>4 DEF Rank

\* Two sequences of which one answers the other in order, k answers behind.
InOrder(s, h) ==
    /\ Cardinality(Answers(s)) <= Cardinality(Taken(h))
    /\ \A i \in Answers(s), j \in Taken(h) :
          Rank(Answers(s), i) = Rank(Taken(h), j) => s[i] = Answer(h[j].message)

\* While the session lasts there is an answer to each message taken that is
\* to be answered; a handler that has ended has a socket that is not connected; an unlisted one has
\* taken nothing.
Follows(c, s, h) ==
    /\ InOrder(s, h)
    /\ c.sock = "connected" /\ c.cd = "listed" =>
          Cardinality(Answers(s)) = Cardinality(Taken(h))
    /\ c.weEnded => c.sock # "connected"
    /\ c.cd = "unlisted" => Answers(s) = {} /\ Taken(h) = {}

AnswerInv == Follows(conn, sent, heard)

LEMMA AnswersAppended ==
    ASSUME NEW s \in Seq(WireMessage), NEW m \in WireMessage
    PROVE  /\ Answers(s) \subseteq 1..Len(s)
           /\ Answers(Append(s, m)) =
                 IF m.type = "ans" THEN Answers(s) \cup {Len(s) + 1} ELSE Answers(s)
           /\ Append(s, m)[Len(s) + 1] = m
           /\ \A i \in Answers(s) : Append(s, m)[i] = s[i]
<1> DEFINE t == Append(s, m)
<1>1. /\ Len(s) \in Nat /\ Len(t) = Len(s) + 1 /\ t[Len(s) + 1] = m
      /\ \A i \in 1..Len(s) : t[i] = s[i]
  OBVIOUS
<1> HIDE DEF t
<1>2. Answers(t) = IF m.type = "ans" THEN Answers(s) \cup {Len(s) + 1} ELSE Answers(s)
  BY <1>1 DEF Answers
<1> QED
  BY <1>1, <1>2 DEF Answers, t

LEMMA TakenAppended ==
    ASSUME NEW h \in Seq(HeardRecord), NEW r \in HeardRecord
    PROVE  /\ Taken(h) \subseteq 1..Len(h)
           /\ Taken(Append(h, r)) =
                 IF r.taken /\ r.message \in Answered
                   THEN Taken(h) \cup {Len(h) + 1} ELSE Taken(h)
           /\ Append(h, r)[Len(h) + 1] = r
           /\ \A j \in Taken(h) : Append(h, r)[j] = h[j]
<1> DEFINE t == Append(h, r)
<1>1. /\ Len(h) \in Nat /\ Len(t) = Len(h) + 1 /\ t[Len(h) + 1] = r
      /\ \A i \in 1..Len(h) : t[i] = h[i]
  OBVIOUS
<1> HIDE DEF t
<1>2. Taken(t) = IF r.taken /\ r.message \in Answered
                   THEN Taken(h) \cup {Len(h) + 1} ELSE Taken(h)
  BY <1>1 DEF Taken
<1> QED
  BY <1>1, <1>2 DEF Taken, t

\* What is no answer and no message to be answered changes nothing, as long as
\* the connection does not come back.
LEMMA OthersFollow ==
    ASSUME NEW c, NEW s \in Seq(WireMessage), NEW h \in Seq(HeardRecord),
           Follows(c, s, h),
           NEW s2, s2 = s \/ \E m \in WireMessage : m.type # "ans" /\ s2 = Append(s, m),
           NEW h2,
           h2 = h \/ \E r \in HeardRecord :
                       /\ ~(r.taken /\ r.message \in Answered)
                       /\ h2 = Append(h, r),
           NEW d,
           d.sock = "connected" /\ d.cd = "listed" =>
               c.sock = "connected" /\ c.cd \in {"listed", "unlisted"},
           d.weEnded => d.sock # "connected",
           d.cd = "unlisted" => c.cd = "unlisted"
    PROVE  Follows(d, s2, h2)
<1>1. Answers(s2) = Answers(s) /\ \A i \in Answers(s) : s2[i] = s[i]
  <2>1. ASSUME NEW m \in WireMessage, m.type # "ans", s2 = Append(s, m)
        PROVE  Answers(s2) = Answers(s) /\ \A i \in Answers(s) : s2[i] = s[i]
    BY <2>1, AnswersAppended
  <2> QED
    BY <2>1
<1>2. Taken(h2) = Taken(h) /\ \A j \in Taken(h) : h2[j] = h[j]
  <2>1. ASSUME NEW r \in HeardRecord, h2 = Append(h, r),
               ~(r.taken /\ r.message \in Answered)
        PROVE  Taken(h2) = Taken(h) /\ \A j \in Taken(h) : h2[j] = h[j]
    BY <2>1, TakenAppended
  <2> QED
    BY <2>1
<1>3. InOrder(s2, h2)
  BY <1>1, <1>2 DEF Follows, InOrder
<1>4. d.sock = "connected" /\ d.cd = "listed" =>
         Cardinality(Answers(s)) = Cardinality(Taken(h))
  BY DEF Follows
<1> QED
  BY <1>1, <1>2, <1>3, <1>4 DEF Follows

\* A message that is to be answered is, or the connection is not what it was.
LEMMA AnswerFollows ==
    ASSUME NEW c, NEW s \in Seq(WireMessage), NEW h \in Seq(HeardRecord),
           Follows(c, s, h), c.cd = "listed",
           NEW m \in Answered, NEW s2, NEW d,
           s2 = Append(s, Answer(m)) => c.sock = "connected",
           s2 = Append(s, Answer(m)) \/ (s2 = s /\ d.sock # "connected"),
           d.weEnded => d.sock # "connected",
           d.cd # "unlisted"
    PROVE  Follows(d, s2, Append(h, [message |-> m, taken |-> TRUE]))
<1> DEFINE r == [message |-> m, taken |-> TRUE]
           h2 == Append(h, r)
           S == Answers(s)
           T == Taken(h)
<1>1. r \in HeardRecord /\ r.taken /\ r.message = m
  BY MessagesAssumption DEF HeardRecord, Answered
<1>2. Answer(m) \in WireMessage /\ Answer(m).type = "ans"
  BY WireMessages DEF Answered
<1> HIDE DEF r
<1>3. /\ T \subseteq 1..Len(h) /\ Taken(h2) = T \cup {Len(h) + 1}
      /\ h2[Len(h) + 1] = r /\ \A j \in T : h2[j] = h[j]
  BY <1>1, TakenAppended
<1>4. S \subseteq 1..Len(s) /\ Len(s) \in Nat /\ Len(h) \in Nat
  BY <1>2, AnswersAppended
<1>5. /\ Cardinality(S) <= Cardinality(T)
      /\ \A i \in S, j \in T : Rank(S, i) = Rank(T, j) => s[i] = Answer(h[j].message)
      /\ c.sock = "connected" => Cardinality(S) = Cardinality(T)
  BY DEF Follows, InOrder
<1>6. /\ Cardinality(T) \in Nat /\ Cardinality(Taken(h2)) = Cardinality(T) + 1
      /\ Rank(Taken(h2), Len(h) + 1) = Cardinality(T) + 1
      /\ \A j \in T : /\ Rank(T, j) \in Nat /\ Rank(T, j) <= Cardinality(T)
                      /\ Rank(Taken(h2), j) = Rank(T, j)
  <2> DEFINE n == Len(h)
  <2>1. n \in Nat /\ T \subseteq 1..n /\ Taken(h2) = T \cup {n + 1}
    BY <1>3, <1>4
  <2> HIDE DEF T, h2, n
  <2>2. /\ Cardinality(T) \in Nat
        /\ Cardinality(T \cup {n + 1}) = Cardinality(T) + 1
        /\ Rank(T \cup {n + 1}, n + 1) = Cardinality(T) + 1
        /\ \A j \in T : /\ Rank(T, j) \in Nat /\ Rank(T, j) <= Cardinality(T)
                        /\ Rank(T \cup {n + 1}, j) = Rank(T, j)
    BY <2>1, RankInSet
  <2> QED
    BY <2>1, <2>2 DEF n
<1>7. /\ Cardinality(S) \in Nat /\ Cardinality(S \cup {Len(s) + 1}) = Cardinality(S) + 1
      /\ Rank(S \cup {Len(s) + 1}, Len(s) + 1) = Cardinality(S) + 1
      /\ \A i \in S : /\ Rank(S, i) \in Nat /\ Rank(S, i) <= Cardinality(S)
                      /\ Rank(S \cup {Len(s) + 1}, i) = Rank(S, i)
  BY <1>4, RankInSet
<1> HIDE DEF h2
<1>8. CASE s2 = s /\ d.sock # "connected"
  <2>1. ASSUME NEW i \in S, NEW j \in Taken(h2), Rank(S, i) = Rank(Taken(h2), j)
        PROVE  s[i] = Answer(h2[j].message)
    <3>1. CASE j \in T
      BY <1>3, <1>5, <1>6, <2>1, <3>1
    <3>2. CASE j = Len(h) + 1
      BY <1>5, <1>6, <1>7, <2>1, <3>2
    <3> QED
      BY <1>3, <3>1, <3>2
  <2>2. InOrder(s2, h2)
    <3> HIDE DEF S
    <3>1. Cardinality(S) <= Cardinality(Taken(h2))
      BY <1>5, <1>6, <1>7
    <3> QED
      BY <1>8, <2>1, <3>1 DEF InOrder, S
  <2> QED
    BY <1>8, <2>2 DEF Follows, h2, r
<1>9. CASE s2 = Append(s, Answer(m))
  <2>1. /\ Answers(s2) = S \cup {Len(s) + 1} /\ s2[Len(s) + 1] = Answer(m)
        /\ \A i \in S : s2[i] = s[i]
    BY <1>2, <1>9, AnswersAppended
  <2>2. Cardinality(S) = Cardinality(T)
    BY <1>5, <1>9
  <2>3. ASSUME NEW i \in Answers(s2), NEW j \in Taken(h2),
               Rank(Answers(s2), i) = Rank(Taken(h2), j)
        PROVE  s2[i] = Answer(h2[j].message)
    <3> HIDE DEF S, T
    <3>1. CASE i \in S /\ j \in T
      BY <1>3, <1>5, <1>6, <1>7, <2>1, <2>3, <3>1
    <3>2. CASE i \in S /\ j = Len(h) + 1
      BY <1>6, <1>7, <2>1, <2>2, <2>3, <3>2
    <3>3. CASE i = Len(s) + 1 /\ j \in T
      BY <1>6, <1>7, <2>1, <2>2, <2>3, <3>3
    <3>4. CASE i = Len(s) + 1 /\ j = Len(h) + 1
      BY <1>1, <1>3, <2>1, <3>4
    <3> QED
      BY <1>3, <2>1, <3>1, <3>2, <3>3, <3>4
  <2>4. Cardinality(Answers(s2)) = Cardinality(Taken(h2))
    <3> HIDE DEF S, T
    <3> QED
      BY <1>6, <1>7, <2>1, <2>2
  <2>5. InOrder(s2, h2)
    <3>1. Cardinality(Answers(s2)) <= Cardinality(Taken(h2))
      <4> HIDE DEF S, T
      <4> QED
        BY <1>6, <2>4
    <3> QED
      BY <2>3, <3>1 DEF InOrder
  <2> QED
    BY <2>4, <2>5 DEF Follows, h2, r
<1> QED
  BY <1>8, <1>9


\* A socket that goes down, and one that is told to disconnect, are not
\* connected any more, and nobody is unlisted by that.
LEMMA GoesDown ==
    ASSUME NEW c \in Connection
    PROVE  /\ SocketDown(c) \in Connection /\ Disconnect(c) \in Connection
           /\ SocketDown(c).sock # "connected" /\ Disconnect(c).sock # "connected"
           /\ SocketDown(c).cd = "unlisted" => c.cd = "unlisted"
           /\ Disconnect(c).cd = "unlisted" => c.cd = "unlisted"
<1>1. /\ SocketDown(c) \in Connection
      /\ SocketDown(c).sock # "connected"
      /\ SocketDown(c).cd = "unlisted" => c.cd = "unlisted"
  BY DEF SocketDown, Connection
<1>2. CASE c.sock = "unconnected"
  BY <1>1, <1>2 DEF Disconnect
<1>3. CASE c.sock # "unconnected" /\ c.unsent
  BY <1>1, <1>3 DEF Disconnect, Connection
<1>4. CASE c.sock # "unconnected" /\ ~c.unsent
  BY <1>1, <1>4 DEF Disconnect
<1> QED
  BY <1>1, <1>2, <1>3, <1>4

\* What a write makes of a connection: it was connected and stays so, or it
\* is not connected any more.
LEMMA WrittenCases ==
    ASSUME NEW c \in Connection,
           c.weEnded \/ c.cd = "deleted" => c.sock # "connected",
           NEW w \in Written(c)
    PROVE  /\ w \in Connection
           /\ w.weEnded \/ w.cd = "deleted" => w.sock # "connected"
           /\ w.cd = "unlisted" => c.cd = "unlisted"
           /\ w.sock = "connected" => c.sock = "connected" /\ CanWrite(c) /\ ~broken
           /\ CanWrite(c) => c.sock = "connected"
<1>1. CASE ~CanWrite(c)
  <2>1. w = [c EXCEPT !.weEnded = TRUE]
    BY <1>1 DEF Written
  <2> QED
    BY <1>1, <2>1 DEF CanWrite, Connection
<1>2. CASE CanWrite(c) /\ broken
  <2>1. w = SocketDown(c)
    BY <1>2 DEF Written
  <2> QED
    BY <1>2, <2>1, GoesDown DEF CanWrite
<1>3. CASE CanWrite(c) /\ ~broken
  <2>1. PICK full \in BOOLEAN : w = [c EXCEPT !.unsent = full]
    BY <1>3 DEF Written
  <2> QED
    BY <1>3, <2>1 DEF CanWrite, Connection
<1> QED
  BY <1>1, <1>2, <1>3

\* The end of the peer closes the socket.
LEMMA TakeEndCloses ==
    ASSUME Coherent(conn, sent), conn.weEnded => conn.sock # "connected", TakeEnd
    PROVE  /\ conn'.sock # "connected"
           /\ conn'.cd = "unlisted" => conn.cd = "unlisted"
           /\ sent' = sent \/ sent' = Append(sent, Other("end"))
<1> DEFINE c == [conn EXCEPT !.peerEnded = TRUE]
<1>1. /\ c \in Connection /\ c.sock = conn.sock /\ c.cd = conn.cd
      /\ c.weEnded \/ c.cd = "deleted" => c.sock # "connected"
  BY DEF Coherent, Connection
<1>2. \/ c.weEnded /\ conn' = Disconnect(c) /\ sent' = sent
      \/ /\ sent' = IF CanWrite(c) /\ ~broken
                      THEN Append(sent, Other("end")) ELSE sent
         /\ \E w \in Written(c) :
              conn' = IF w.cd = "deleted" THEN w
                      ELSE Disconnect([w EXCEPT !.weEnded = TRUE])
  BY DEF TakeEnd
<1> HIDE DEF c
<1>3. CASE conn' = Disconnect(c) /\ sent' = sent
  BY <1>1, <1>3, GoesDown
<1>4. ASSUME NEW w \in Written(c),
             conn' = IF w.cd = "deleted" THEN w
                     ELSE Disconnect([w EXCEPT !.weEnded = TRUE])
      PROVE  /\ conn'.sock # "connected"
             /\ conn'.cd = "unlisted" => conn.cd = "unlisted"
  <2> DEFINE v == [w EXCEPT !.weEnded = TRUE]
  <2>1. w \in Connection /\ (w.cd = "unlisted" => c.cd = "unlisted")
    BY <1>1, WrittenCases
  <2>2. v \in Connection /\ v.cd = w.cd
    BY <2>1 DEF Connection
  <2>3. CASE w.cd # "deleted"
    <3>1. conn' = Disconnect(v)
      BY <1>4, <2>3
    <3> HIDE DEF v
    <3> QED
      BY <1>1, <2>1, <2>2, <3>1, GoesDown
  <2>4. CASE w.cd = "deleted"
    BY <1>1, <1>4, <2>4, WrittenCases
  <2> QED
    BY <2>3, <2>4
<1> QED
  BY <1>2, <1>3, <1>4

\* A message of readyRead leaves the answers in step with what is answered.
LEMMA TakeMessageFollows ==
    ASSUME IInv, TextInv, AnswerInv, conn.cd # "deleted",
           NEW m \in Messages, TakeMessage(m),
           heard' = Append(heard, [message |-> m, taken |-> conn.cd = "listed"])
    PROVE  AnswerInv'
<1> DEFINE r == [message |-> m, taken |-> conn.cd = "listed"]
<1>1. /\ conn \in Connection /\ sent \in Seq(WireMessage) /\ heard \in Seq(HeardRecord)
      /\ conn.weEnded \/ conn.cd = "deleted" => conn.sock # "connected"
      /\ Follows(conn, sent, heard)
      /\ r \in HeardRecord
  BY DEF IInv, Coherent, TextInv, AnswerInv, Follows, HeardRecord
<1>2. CASE conn.cd = "listed" /\ m \in Answered
  <2>1. Send(conn, Answer(m))
    BY <1>2, MessagesTaken
  <2>2. /\ conn' \in Written(conn)
        /\ sent' = IF CanWrite(conn) /\ ~broken THEN Append(sent, Answer(m)) ELSE sent
    BY <2>1 DEF Send
  <2>3. /\ conn'.weEnded => conn'.sock # "connected"
        /\ conn'.cd # "unlisted"
        /\ conn'.sock = "connected" => CanWrite(conn) /\ ~broken
        /\ CanWrite(conn) => conn.sock = "connected"
    BY <1>1, <1>2, <2>2, WrittenCases
  <2>4. sent' = Append(sent, Answer(m)) \/ (sent' = sent /\ conn'.sock # "connected")
    BY <2>2, <2>3
  <2>5. sent' = Append(sent, Answer(m)) => conn.sock = "connected"
    <3>1. Append(sent, Answer(m)) # sent
      <4>1. Answer(m) \in WireMessage
        BY <1>2, WireMessages DEF Answered
      <4>2. Len(Append(sent, Answer(m))) = Len(sent) + 1 /\ Len(sent) \in Nat
        BY <1>1, <4>1
      <4> QED
        BY <4>2
    <3> QED
      BY <2>2, <2>3, <3>1
  <2>6. Follows(conn', sent', Append(heard, [message |-> m, taken |-> TRUE]))
    BY <1>1, <1>2, <2>3, <2>4, <2>5, AnswerFollows
  <2>7. r = [message |-> m, taken |-> TRUE]
    BY <1>2
  <2> QED
    BY <2>6, <2>7 DEF AnswerInv
<1>3. CASE ~(conn.cd = "listed" /\ m \in Answered)
  <2>1. \E q \in HeardRecord : /\ ~(q.taken /\ q.message \in Answered)
                               /\ heard' = Append(heard, q)
    <3>1. ~(r.taken /\ r.message \in Answered) /\ heard' = Append(heard, r)
      BY <1>3
    <3> HIDE DEF r
    <3> QED
      BY <1>1, <3>1
  <2>2. CASE m = End
    <3>1. TakeEnd
      BY <2>2, MessagesTaken
    <3>2. /\ conn'.sock # "connected"
          /\ conn'.cd = "unlisted" => conn.cd = "unlisted"
          /\ sent' = sent \/ sent' = Append(sent, Other("end"))
      BY <1>1, <3>1, TakeEndCloses DEF IInv
    <3>3. Other("end") \in WireMessage /\ Other("end").type # "ans"
      BY WireMessages
    <3>4. sent' = sent \/ \E k \in WireMessage : k.type # "ans" /\ sent' = Append(sent, k)
      BY <3>2, <3>3
    <3> HIDE DEF r
    <3>5. Follows(conn', sent', heard')
      BY <1>1, <2>1, <3>2, <3>4, OthersFollow
    <3> QED
      BY <3>5 DEF AnswerInv
  <2>3. CASE m # End
    <3>1. UNCHANGED <<conn, sent>>
      BY <1>3, <2>3, MessagesTaken
    <3>2. /\ conn.sock = "connected" /\ conn.cd = "listed" =>
                conn.sock = "connected" /\ conn.cd \in {"listed", "unlisted"}
          /\ conn.weEnded => conn.sock # "connected"
      BY <1>1
    <3> HIDE DEF r
    <3>3. Follows(conn, sent, heard')
      BY <1>1, <2>1, <3>2, OthersFollow
    <3> QED
      BY <3>1, <3>3 DEF AnswerInv
  <2> QED
    BY <2>2, <2>3
<1> QED
  BY <1>2, <1>3

LEMMA InitAnswers == Init => AnswerInv
<1> SUFFICES ASSUME Init PROVE AnswerInv
  OBVIOUS
<1>1. Answers(<< >>) = {} /\ Taken(<< >>) = {}
  BY DEF Answers, Taken
<1>2. Cardinality({}) = 0
  BY FS_EmptySet
<1>3. sent = << >> /\ heard = << >> /\ ~conn.weEnded
  BY DEF Init
<1>4. ASSUME NEW s, NEW h, Answers(s) = {}, Taken(h) = {} PROVE InOrder(s, h)
  <2>1. Cardinality(Answers(s)) = 0 /\ Cardinality(Taken(h)) = 0
    BY <1>2, <1>4
  <2> QED
    BY <1>4, <2>1 DEF InOrder
<1> QED
  BY <1>1, <1>2, <1>3, <1>4 DEF AnswerInv, Follows

LEMMA StepAnswers == IInv /\ TextInv /\ AnswerInv /\ [Next]_vars => AnswerInv'
<1> SUFFICES ASSUME IInv, TextInv, AnswerInv, [Next]_vars PROVE AnswerInv'
  OBVIOUS
<1>1. /\ conn \in Connection /\ sent \in Seq(WireMessage) /\ heard \in Seq(HeardRecord)
      /\ conn.weEnded \/ conn.cd = "deleted" => conn.sock # "connected"
      /\ Follows(conn, sent, heard)
  BY DEF IInv, Coherent, TextInv, AnswerInv, Follows
<1>2. CASE UNCHANGED <<conn, sent, heard>>
  BY <1>2 DEF AnswerInv
<1>3. CASE UNCHANGED vars \/ Break \/ UseDeletedHandler
  BY <1>2, <1>3 DEF vars, Break, UseDeletedHandler
<1>4. ASSUME NEW n, ReadyRead(n) PROVE AnswerInv'
  BY <1>2, <1>4 DEF ReadyRead
<1>5. ASSUME NEW t \in {"ver", "req"}, UNCHANGED heard,
             NEW c \in Connection, c.sock = conn.sock, c.weEnded = conn.weEnded,
             c.cd \in {conn.cd, "listed"}, conn.cd # "deleted", Send(c, Other(t))
      PROVE  AnswerInv'
  <2>1. /\ conn' \in Written(c)
        /\ sent' = sent \/ sent' = Append(sent, Other(t))
    BY <1>5 DEF Send
  <2>2. /\ conn'.weEnded => conn'.sock # "connected"
        /\ conn'.cd = "unlisted" => c.cd = "unlisted"
        /\ conn'.sock = "connected" => c.sock = "connected"
    BY <1>1, <1>5, <2>1, WrittenCases
  <2>3. Other(t) \in WireMessage /\ Other(t).type # "ans"
    BY <1>5, WireMessages
  <2>4. conn.cd \in {"listed", "unlisted"}
    BY <1>1, <1>5 DEF Connection
  <2>5. conn'.cd = "unlisted" => conn.cd = "unlisted"
    BY <1>5, <2>2
  <2>6. conn'.sock = "connected" => conn.sock = "connected"
    BY <1>5, <2>2
  <2> DEFINE m == Other(t)
  <2> HIDE DEF m
  <2>7. Follows(conn', sent', heard)
    BY <1>1, <2>1, <2>2, <2>3, <2>4, <2>5, <2>6, OthersFollow DEF m
  <2> QED
    BY <1>5, <2>7 DEF AnswerInv
<1>6. CASE Established
  <2> DEFINE c == [conn EXCEPT !.cd = "listed"]
  <2>1. /\ c \in Connection /\ c.sock = conn.sock /\ c.weEnded = conn.weEnded
        /\ c.cd = "listed"
    BY <1>1 DEF Connection
  <2>2. conn.cd # "deleted" /\ Send(c, Other("ver")) /\ UNCHANGED heard
    BY <1>6 DEF Established
  <2> HIDE DEF c
  <2> QED
    BY <1>5, <2>1, <2>2
<1>7. CASE SendUpdate
  <2>1. conn.cd = "listed" /\ Send(conn, Other("req")) /\ UNCHANGED heard
    BY <1>7 DEF SendUpdate
  <2> QED
    BY <1>1, <1>5, <2>1
<1>8. CASE Flushed \/ Lost
  <2>1. /\ UNCHANGED <<sent, heard>>
        /\ conn'.weEnded => conn'.sock # "connected"
        /\ conn'.cd = "unlisted" => conn.cd = "unlisted"
        /\ conn'.sock = "connected" => conn.sock = "connected" /\ conn'.cd = conn.cd
    <3>1. CASE Lost
      BY <1>1, <3>1, GoesDown DEF Lost
    <3>2. CASE Flushed
      <4> DEFINE c == [conn EXCEPT !.unsent = FALSE]
      <4>1. /\ c \in Connection /\ c.sock = conn.sock /\ c.cd = conn.cd
            /\ c.weEnded = conn.weEnded
        BY <1>1 DEF Connection
      <4>2. /\ conn' = IF conn.sock = "closing" THEN SocketDown(c) ELSE c
            /\ UNCHANGED <<sent, heard>>
        BY <3>2 DEF Flushed
      <4> HIDE DEF c
      <4> QED
        BY <1>1, <4>1, <4>2, GoesDown
    <3> QED
      BY <1>8, <3>1, <3>2
  <2>2. Follows(conn', sent, heard)
    BY <1>1, <2>1, OthersFollow
  <2> QED
    BY <2>1, <2>2 DEF AnswerInv
<1>9. CASE NextTurn
  <2> DEFINE found == ProcessBuffer(buf)
  <2>1. found.message \in Messages \cup {NoMessage}
    BY ProcessBufferType DEF TextInv
  <2>2. \/ UNCHANGED <<conn, sent, heard>>
        \/ /\ found.message # NoMessage
           /\ TakeMessage(found.message)
           /\ heard' = Append(heard, [message |-> found.message,
                                      taken |-> conn.cd = "listed"])
    BY <1>9 DEF NextTurn
  <2>3. conn.cd # "deleted"
    BY <1>9 DEF NextTurn
  <2> DEFINE m == found.message
  <2> HIDE DEF m
  <2> QED
    BY <1>2, <2>1, <2>2, <2>3, TakeMessageFollows DEF m
<1> QED
  BY <1>3, <1>4, <1>6, <1>7, <1>8, <1>9 DEF Next, Step

\* The answers are those to the requests of known methods and to the malformed
\* answers taken, in the order in which these came, and while the session lasts
\* none is missing, however the network cuts the stream and whenever it breaks
\* (protoReqArrived, protoAnsArrived, sendAns).
THEOREM AnswersInOrder == Spec => []AnswersFollowRequests
<1>1. Init => IInv /\ TextInv /\ AnswerInv
  BY InitInvariant, InitText, InitAnswers
<1>2. (IInv /\ TextInv /\ AnswerInv) /\ [Next]_vars => (IInv /\ TextInv /\ AnswerInv)'
  BY NextInvariant, StepText, StepAnswers
<1>3. AnswerInv => AnswersFollowRequests
  BY DEF AnswerInv, Follows, InOrder, AnswersFollowRequests
<1> QED
  BY <1>1, <1>2, <1>3, PTL DEF Spec

-----------------------------------------------------------------------------
(* What processBuffer finds in a stream that is tidy.                      *)

\* Tidy, of any stream.
TidyStream(s) ==
    /\ \A i \in 1..Len(s) : IsDocument(s[i].text) \/ Open \notin Range(s[i].text)
    /\ \A i \in 2..Len(s) :
          NoMessage \in {s[i - 1].says, s[i].says} => s[i - 1].says # s[i].says

\* What the buffer holds when p pieces have been dealt with and a characters
\* have arrived.
Buffer(s, p, a) == SubSeq(WholeText(s), EndOf(s, p) + 1, a)

\* Those of the first p pieces that say something.
Says(s, p) == {i \in 1..p : s[i].says # NoMessage}

\* No message behind the first p pieces is complete.
NothingWhole(s, p, a) ==
    \A i \in 1..Len(s) : i > p /\ s[i].says # NoMessage => EndOf(s, i) > a

\* One piece more.
LEMMA PieceEnds ==
    ASSUME NEW s \in Streams
    PROVE  /\ EndOf(s, 0) = 0
           /\ \A i \in 0..Len(s) : EndOf(s, i) \in Nat
           /\ \A i \in 1..Len(s) : EndOf(s, i) = EndOf(s, i - 1) + Len(s[i].text)
<1>1. EndOf(s, 0) = 0
  <2>1. Joined(s)[0] = << >>
    BY JoinedFacts
  <2> QED
    BY <2>1 DEF EndOf
<1>2. ASSUME NEW i \in 0..Len(s) PROVE EndOf(s, i) \in Nat
  <2>1. Joined(s)[i] \in Seq(STRING)
    BY JoinedFacts
  <2> QED
    BY <2>1 DEF EndOf
<1>3. ASSUME NEW i \in 1..Len(s)
      PROVE  EndOf(s, i) = EndOf(s, i - 1) + Len(s[i].text)
  <2>1. i - 1 \in 0..Len(s)
    BY PieceType
  <2>2. Joined(s)[i - 1] \in Seq(STRING) /\ s[i].text \in Seq(STRING)
    BY <2>1, JoinedFacts, PieceType
  <2>3. Joined(s)[i] = Joined(s)[i - 1] \o s[i].text
    BY JoinedFacts
  <2> QED
    BY <2>2, <2>3 DEF EndOf
<1> QED
  BY <1>1, <1>2, <1>3

LEMMA Concatenated ==
    ASSUME NEW t \in Seq(STRING), NEW u \in Seq(STRING)
    PROVE  /\ Len(t \o u) = Len(t) + Len(u)
           /\ \A n \in 1..Len(t) : (t \o u)[n] = t[n]
           /\ \A k \in 1..Len(u) : (t \o u)[Len(t) + k] = u[k]
  OBVIOUS

\* What i pieces make is the beginning of what m pieces make.
Keeps(s, i, m) ==
    /\ EndOf(s, i) <= EndOf(s, m)
    /\ \A n \in 1..EndOf(s, i) : Joined(s)[m][n] = Joined(s)[i][n]

\* The pieces follow each other, and what has been put together stays.
LEMMA JoinedGrows ==
    ASSUME NEW s \in Streams, NEW i \in 0..Len(s), NEW j \in i..Len(s)
    PROVE  Keeps(s, i, j)
<1> DEFINE P == {k \in 0..(j - i) : Keeps(s, i, i + k)}
<1>1. Len(s) \in Nat /\ i \in Nat /\ j \in Nat /\ j - i \in Nat
  BY PieceType
<1>2. EndOf(s, i) \in Nat
  BY PieceEnds
<1>3. 0 \in P
  <2>1. i + 0 = i /\ 0 \in 0..(j - i)
    BY <1>1
  <2>2. Keeps(s, i, i)
    BY <1>2 DEF Keeps
  <2> QED
    BY <2>1, <2>2
<1>4. ASSUME NEW k \in 1..(j - i), k - 1 \in P PROVE k \in P
  <2>1. /\ i + k \in 1..Len(s) /\ (i + k) - 1 = i + (k - 1)
        /\ i + (k - 1) \in 0..Len(s)
    BY <1>1
  <2> DEFINE m == i + (k - 1)
  <2>2. Keeps(s, i, m)
    BY <1>4
  <2>3. m \in 0..Len(s) /\ i + k \in 0..Len(s) /\ (i + k) - 1 = m
    BY <1>1, <2>1
  <2> HIDE DEF m
  <2>4. /\ Joined(s)[i + k] = Joined(s)[m] \o s[i + k].text
        /\ Joined(s)[m] \in Seq(STRING) /\ s[i + k].text \in Seq(STRING)
    BY <2>1, <2>3, JoinedFacts, PieceType
  <2>5. EndOf(s, m) \in Nat /\ Len(s[i + k].text) \in Nat
    BY <2>3, <2>4, PieceEnds
  <2>6. /\ EndOf(s, i + k) = EndOf(s, m) + Len(s[i + k].text)
        /\ \A n \in 1..EndOf(s, m) : Joined(s)[i + k][n] = Joined(s)[m][n]
    <3> DEFINE t == Joined(s)[m]
               u == s[i + k].text
    <3>1. t \in Seq(STRING) /\ u \in Seq(STRING) /\ Joined(s)[i + k] = t \o u
      BY <2>4
    <3> HIDE DEF t, u
    <3>2. /\ Len(Joined(s)[i + k]) = Len(t) + Len(u)
          /\ \A n \in 1..Len(t) : Joined(s)[i + k][n] = t[n]
      BY <3>1, Concatenated
    <3> QED
      BY <3>2 DEF EndOf, t, u
  <2>7. Keeps(s, i, i + k)
    <3>1. EndOf(s, i) <= EndOf(s, m) /\ EndOf(s, i) <= EndOf(s, i + k)
      BY <1>2, <2>2, <2>5, <2>6 DEF Keeps
    <3>2. ASSUME NEW n \in 1..EndOf(s, i) PROVE Joined(s)[i + k][n] = Joined(s)[i][n]
      <4>1. n \in 1..EndOf(s, m)
        BY <1>2, <2>5, <3>1
      <4> QED
        BY <2>2, <2>6, <4>1 DEF Keeps
    <3> QED
      BY <3>1, <3>2 DEF Keeps
  <2> QED
    BY <2>7
<1>5. j - i \in P
  <2> HIDE DEF P
  <2>1. j - i \in 0..(j - i)
    BY <1>1
  <2> QED
    BY <1>1, <1>3, <1>4, <2>1, Climbing
<1>6. i + (j - i) = j
  BY <1>1
<1> QED
  BY <1>5, <1>6

\* Where the characters of a piece are in the whole text.
LEMMA PieceInText ==
    ASSUME NEW s \in Streams, NEW i \in 1..Len(s), NEW k \in 1..Len(s[i].text)
    PROVE  /\ WholeText(s)[EndOf(s, i - 1) + k] = s[i].text[k]
           /\ EndOf(s, i - 1) + k <= EndOf(s, Len(s))
<1>1. Len(s) \in Nat /\ i - 1 \in 0..Len(s) /\ i \in 0..Len(s) /\ Len(s) \in i..Len(s)
  BY PieceType
<1>2. /\ Joined(s)[i - 1] \in Seq(STRING) /\ s[i].text \in Seq(STRING)
      /\ Joined(s)[i] = Joined(s)[i - 1] \o s[i].text
  BY <1>1, JoinedFacts, PieceType
<1>3. /\ EndOf(s, i - 1) \in Nat /\ EndOf(s, i) \in Nat /\ EndOf(s, Len(s)) \in Nat
      /\ EndOf(s, i) = EndOf(s, i - 1) + Len(s[i].text)
  BY <1>1, PieceEnds
<1>4. Len(s[i].text) \in Nat
  BY <1>2
<1> DEFINE n == EndOf(s, i - 1) + k
<1>5. n \in 1..EndOf(s, i)
  BY <1>3, <1>4
<1>6. Joined(s)[i][n] = s[i].text[k]
  <2> DEFINE t == Joined(s)[i - 1]
             u == s[i].text
  <2>1. t \in Seq(STRING) /\ u \in Seq(STRING) /\ Joined(s)[i] = t \o u
    BY <1>2
  <2>2. k \in 1..Len(u)
    OBVIOUS
  <2> HIDE DEF t, u
  <2>3. Joined(s)[i][Len(t) + k] = u[k]
    BY <2>1, <2>2, Concatenated
  <2> QED
    BY <2>3 DEF EndOf, t, u
<1> HIDE DEF n
<1>7. Joined(s)[Len(s)][n] = Joined(s)[i][n] /\ EndOf(s, i) <= EndOf(s, Len(s))
  BY <1>1, <1>5, JoinedGrows DEF Keeps
<1>8. n <= EndOf(s, Len(s))
  BY <1>3, <1>5, <1>7
<1> QED
  BY <1>6, <1>7, <1>8 DEF n, WholeText

LEMMA BufferFacts ==
    ASSUME NEW s \in Streams, NEW p \in 0..Len(s),
           NEW a \in EndOf(s, p)..EndOf(s, Len(s))
    PROVE  /\ Buffer(s, p, a) \in Seq(STRING)
           /\ Len(Buffer(s, p, a)) = a - EndOf(s, p)
           /\ \A k \in 1..(a - EndOf(s, p)) :
                Buffer(s, p, a)[k] = WholeText(s)[EndOf(s, p) + k]
<1>1. Len(s) \in 0..Len(s)
  BY PieceType
<1>2. EndOf(s, p) \in Nat /\ EndOf(s, Len(s)) \in Nat
  BY <1>1, PieceEnds
<1>3. WholeText(s) \in Seq(STRING) /\ Len(WholeText(s)) = EndOf(s, Len(s))
  BY <1>1, JoinedFacts DEF WholeText, EndOf
<1> DEFINE e == EndOf(s, p)
           t == WholeText(s)
<1>4. e \in Nat /\ a \in e..Len(t) /\ t \in Seq(STRING)
  BY <1>2, <1>3
<1> HIDE DEF e, t
<1>5. /\ SubSeq(t, e + 1, a) \in Seq(STRING)
      /\ Len(SubSeq(t, e + 1, a)) = a - e
      /\ \A k \in 1..(a - e) : SubSeq(t, e + 1, a)[k] = t[e + k]
  BY <1>4
<1> QED
  BY <1>5 DEF Buffer, e, t

\* The buffer of q pieces is the end of the buffer of fewer.
LEMMA BufferEnds ==
    ASSUME NEW s \in Streams, NEW p \in 0..Len(s), NEW q \in p..Len(s),
           NEW a \in EndOf(s, q)..EndOf(s, Len(s))
    PROVE  SubSeq(Buffer(s, p, a), EndOf(s, q) - EndOf(s, p) + 1,
                  Len(Buffer(s, p, a))) = Buffer(s, q, a)
<1> DEFINE b == Buffer(s, p, a)
           c == Buffer(s, q, a)
           f == EndOf(s, q) - EndOf(s, p)
           d == SubSeq(b, f + 1, Len(b))
<1>1. q \in 0..Len(s) /\ Len(s) \in 0..Len(s) /\ Len(s) \in Nat
  BY PieceType
<1>2. /\ EndOf(s, p) \in Nat /\ EndOf(s, q) \in Nat /\ EndOf(s, Len(s)) \in Nat
      /\ EndOf(s, p) <= EndOf(s, q)
  BY <1>1, PieceEnds, JoinedGrows DEF Keeps
<1>3. a \in EndOf(s, p)..EndOf(s, Len(s)) /\ f \in Nat
  BY <1>2
<1>4. /\ b \in Seq(STRING) /\ Len(b) = a - EndOf(s, p)
      /\ \A k \in 1..(a - EndOf(s, p)) : b[k] = WholeText(s)[EndOf(s, p) + k]
  BY <1>3, BufferFacts
<1>5. /\ c \in Seq(STRING) /\ Len(c) = a - EndOf(s, q)
      /\ \A k \in 1..(a - EndOf(s, q)) : c[k] = WholeText(s)[EndOf(s, q) + k]
  BY <1>1, BufferFacts
<1> HIDE DEF b, c
<1>6. f <= Len(b) /\ Len(b) \in Nat /\ Len(b) - f = a - EndOf(s, q)
  BY <1>2, <1>4
<1>7. /\ d \in Seq(STRING) /\ Len(d) = Len(b) - f
      /\ \A k \in 1..(Len(b) - f) : d[k] = b[f + k]
  <2> HIDE DEF f
  <2> QED
    BY <1>3, <1>4, <1>6
<1>8. ASSUME NEW k \in 1..Len(d) PROVE d[k] = c[k]
  <2>1. /\ k \in 1..(a - EndOf(s, q)) /\ f + k \in 1..(a - EndOf(s, p))
        /\ EndOf(s, p) + (f + k) = EndOf(s, q) + k
    <3>1. k \in 1..(a - EndOf(s, q))
      BY <1>6, <1>7
    <3> HIDE DEF d
    <3> QED
      BY <1>2, <3>1
  <2>2. d[k] = b[f + k]
    <3>1. k \in 1..(Len(b) - f)
      BY <1>7
    <3> HIDE DEF d, f
    <3> QED
      BY <1>7, <3>1
  <2> HIDE DEF d, f
  <2> QED
    BY <1>4, <1>5, <2>1, <2>2
<1>9. Len(d) = Len(c)
  BY <1>5, <1>6, <1>7
<1> HIDE DEF d
<1>10. d = c
  BY <1>5, <1>7, <1>8, <1>9, SeqEqual
<1> QED
  BY <1>10 DEF d, b, c


\* The part of the stream that the buffer of r pieces holds goes on with each
\* of the pieces behind them.
LEMMA BufferGoesOn ==
    ASSUME NEW s \in Streams, NEW r \in 0..Len(s), NEW i \in (r + 1)..Len(s),
           NEW a \in EndOf(s, i - 1)..EndOf(s, Len(s))
    PROVE  /\ EndOf(s, i - 1) - EndOf(s, r) \in 0..Len(Buffer(s, r, a))
           /\ GoesOnWith(Buffer(s, r, a), EndOf(s, i - 1) - EndOf(s, r), s[i].text)
<1> DEFINE b == Buffer(s, r, a)
           f == EndOf(s, i - 1) - EndOf(s, r)
           t == s[i].text
<1>1. /\ i - 1 \in 0..Len(s) /\ i - 1 \in r..Len(s) /\ i \in 1..Len(s)
      /\ Len(s) \in 0..Len(s)
  BY PieceType
<1>2. /\ EndOf(s, r) \in Nat /\ EndOf(s, i - 1) \in Nat /\ EndOf(s, Len(s)) \in Nat
      /\ EndOf(s, r) <= EndOf(s, i - 1)
  BY <1>1, PieceEnds, JoinedGrows DEF Keeps
<1>3. /\ b \in Seq(STRING) /\ Len(b) = a - EndOf(s, r)
      /\ \A k \in 1..(a - EndOf(s, r)) : b[k] = WholeText(s)[EndOf(s, r) + k]
  <2>1. a \in EndOf(s, r)..EndOf(s, Len(s))
    BY <1>2
  <2> QED
    BY <2>1, BufferFacts
<1> HIDE DEF b
<1>4. f \in 0..Len(b)
  BY <1>2, <1>3
<1>5. ASSUME NEW k \in 1..Len(t), f + k <= Len(b) PROVE b[f + k] = t[k]
  <2>1. t \in Seq(STRING)
    BY <1>1, PieceType
  <2>2. /\ f + k \in 1..(a - EndOf(s, r))
        /\ EndOf(s, r) + (f + k) = EndOf(s, i - 1) + k
    <3>1. k \in Nat /\ k >= 1
      BY <2>1
    <3>2. f \in Int /\ EndOf(s, r) + f = EndOf(s, i - 1)
      BY <1>2
    <3>3. f >= 0 /\ f + k <= a - EndOf(s, r)
      BY <1>3, <1>4, <1>5
    <3> HIDE DEF t, f
    <3> QED
      BY <1>2, <3>1, <3>2, <3>3
  <2>3. b[f + k] = WholeText(s)[EndOf(s, i - 1) + k]
    <3> HIDE DEF f
    <3> QED
      BY <1>3, <2>2
  <2> QED
    BY <1>1, <2>3, PieceInText
<1> QED
  BY <1>4, <1>5 DEF GoesOnWith, b, f, t

\* The scan of the buffer of r pieces at the beginning of piece i, a document:
\* it ends there, or knows what it says.
LEMMA ScanPiece ==
    ASSUME NEW s \in Streams, NEW r \in 0..Len(s), NEW i \in (r + 1)..Len(s),
           NEW a \in EndOf(s, i - 1)..EndOf(s, Len(s)),
           IsDocument(s[i].text),
           LET f == EndOf(s, i - 1) - EndOf(s, r)
           IN  After(Buffer(s, r, a))[f] = At(f, NoMessage)
    PROVE  /\ EndOf(s, i) > a =>
                /\ Scan(Buffer(s, r, a)).message = NoMessage
                /\ Scan(Buffer(s, r, a)).from = EndOf(s, i - 1) - EndOf(s, r)
           /\ EndOf(s, i) <= a =>
                LET f == EndOf(s, i) - EndOf(s, r)
                IN  /\ f \in 0..Len(Buffer(s, r, a))
                    /\ After(Buffer(s, r, a))[f] = At(f, s[i].says)
<1> DEFINE b == Buffer(s, r, a)
           f == EndOf(s, i - 1) - EndOf(s, r)
           g == EndOf(s, i) - EndOf(s, r)
           t == s[i].text
<1>1. /\ i - 1 \in 0..Len(s) /\ i - 1 \in r..Len(s) /\ i \in 1..Len(s)
      /\ i \in 0..Len(s) /\ Len(s) \in 0..Len(s)
  BY PieceType
<1>2. /\ EndOf(s, r) \in Nat /\ EndOf(s, i - 1) \in Nat /\ EndOf(s, i) \in Nat
      /\ EndOf(s, Len(s)) \in Nat
      /\ EndOf(s, r) <= EndOf(s, i - 1)
      /\ EndOf(s, i) = EndOf(s, i - 1) + Len(t)
  BY <1>1, PieceEnds, JoinedGrows DEF Keeps
<1>3. b \in Seq(STRING) /\ Len(b) = a - EndOf(s, r)
  <2>1. a \in EndOf(s, r)..EndOf(s, Len(s))
    BY <1>2
  <2> QED
    BY <2>1, BufferFacts
<1>4. f \in 0..Len(b) /\ GoesOnWith(b, f, t)
  BY BufferGoesOn
<1>5. t \in Seq(STRING) /\ Len(t) \in Nat /\ s[i].says = Meaning(t)
  BY <1>1, PieceType
<1>6. g = f + Len(t)
  BY <1>2, <1>5
<1>7. After(b)[f] = At(f, NoMessage) /\ IsDocument(t)
  OBVIOUS
<1>8. (f + Len(t) > Len(b) <=> EndOf(s, i) > a) /\ (f + Len(t) <= Len(b) <=> EndOf(s, i) <= a)
  <2> HIDE DEF b, t
  <2> QED
    BY <1>2, <1>3, <1>5
<1> HIDE DEF b, t, f
<1>9. f + Len(t) > Len(b) => Scan(b).message = NoMessage /\ Scan(b).from = f
  BY <1>3, <1>4, <1>7, ScanUnfinished
<1>10. f + Len(t) <= Len(b) => After(b)[f + Len(t)] = At(f + Len(t), Meaning(t))
  BY <1>3, <1>4, <1>7, ScanDocument
<1>11. f + Len(t) <= Len(b) => f + Len(t) \in 0..Len(b)
  BY <1>3, <1>4, <1>5
<1>12. f + Len(t) <= Len(b) => g \in 0..Len(b) /\ After(b)[g] = At(g, s[i].says)
  <2> HIDE DEF g
  <2> QED
    BY <1>5, <1>6, <1>10, <1>11
<1> QED
  BY <1>8, <1>9, <1>12 DEF b, f, g, t

LEMMA SaysMore ==
    ASSUME NEW s \in Streams, NEW i \in 1..Len(s)
    PROVE  /\ s[i].says = NoMessage => Says(s, i) = Says(s, i - 1)
           /\ s[i].says # NoMessage => Says(s, i) = Says(s, i - 1) \cup {i}
<1>1. Len(s) \in Nat
  BY PieceType
<1>2. 1..i = (1..(i - 1)) \cup {i} /\ i \notin 1..(i - 1)
  BY <1>1
<1> QED
  BY <1>2 DEF Says

\* If a piece is not complete, none behind it is; nor is a message behind
\* pieces that are just complete.
LEMMA NothingBehind ==
    ASSUME NEW s \in Streams, NEW p \in 0..Len(s), NEW a \in Int
    PROVE  /\ EndOf(s, p) = a => NothingWhole(s, p, a)
           /\ p < Len(s) /\ EndOf(s, p + 1) > a => NothingWhole(s, p, a)
<1>1. Len(s) \in Nat
  BY PieceType
<1>2. ASSUME NEW i \in 1..Len(s), i > p, s[i].says # NoMessage, EndOf(s, p) = a
      PROVE  EndOf(s, i) > a
  <2>1. i - 1 \in 0..Len(s) /\ i - 1 \in p..Len(s) /\ i \in 0..Len(s)
    BY <1>1, <1>2
  <2>2. /\ EndOf(s, p) <= EndOf(s, i - 1)
        /\ EndOf(s, i) = EndOf(s, i - 1) + Len(s[i].text)
        /\ EndOf(s, p) \in Nat /\ EndOf(s, i - 1) \in Nat
    BY <2>1, PieceEnds, JoinedGrows DEF Keeps
  <2>3. Len(s[i].text) > 0 /\ Len(s[i].text) \in Nat
    <3>1. IsDocument(s[i].text) /\ s[i].text \in Seq(STRING)
      BY <1>2, MessagePiece, PieceType
    <3> QED
      BY <3>1 DEF IsDocument
  <2> QED
    BY <1>2, <2>2, <2>3
<1>3. ASSUME NEW i \in 1..Len(s), i > p, p < Len(s), EndOf(s, p + 1) > a
      PROVE  EndOf(s, i) > a
  <2>1. p + 1 \in 0..Len(s) /\ i \in (p + 1)..Len(s) /\ i \in 0..Len(s)
    BY <1>1, <1>3
  <2>2. /\ EndOf(s, p + 1) <= EndOf(s, i)
        /\ EndOf(s, p + 1) \in Nat /\ EndOf(s, i) \in Nat
    BY <2>1, PieceEnds, JoinedGrows DEF Keeps
  <2> QED
    BY <1>3, <2>2
<1> QED
  BY <1>2, <1>3 DEF NothingWhole

\* What the handler knows when it goes on to piece q from piece p: nothing,
\* and then no message behind q is complete, or what piece q says.
Knows(s, p, q, a, m) ==
    \/ /\ m = NoMessage
       /\ Says(s, q) = Says(s, p)
       /\ NothingWhole(s, q, a)
    \/ /\ q > p
       /\ m = s[q].says /\ s[q].says # NoMessage
       /\ Says(s, q) = Says(s, p) \cup {q}


\* The scan of a buffer that begins with a document: at most one of the
\* documents it may find first says nothing.
LEMMA ScanBuffer ==
    ASSUME NEW s \in Streams, TidyStream(s),
           NEW r \in 0..Len(s), r < Len(s), IsDocument(s[r + 1].text),
           NEW a \in EndOf(s, r)..EndOf(s, Len(s))
    PROVE  \E q \in r..Len(s) :
              /\ EndOf(s, q) <= a
              /\ Scan(Buffer(s, r, a)).from = EndOf(s, q) - EndOf(s, r)
              /\ Knows(s, r, q, a, Scan(Buffer(s, r, a)).message)
<1> DEFINE b == Buffer(s, r, a)
           e(i) == EndOf(s, i) - EndOf(s, r)
           Goal(q) == /\ EndOf(s, q) <= a
                      /\ Scan(b).from = e(q)
                      /\ Knows(s, r, q, a, Scan(b).message)
<1> SUFFICES \E q \in r..Len(s) : Goal(q)
  OBVIOUS
<1>1. /\ Len(s) \in Nat /\ r \in Nat /\ r + 1 \in 1..Len(s) /\ r + 1 \in 0..Len(s)
      /\ r + 1 \in (r + 1)..Len(s) /\ r + 1 \in r..Len(s) /\ r \in r..Len(s)
      /\ Len(s) \in 0..Len(s) /\ (r + 1) - 1 = r
  BY PieceType
<1>2. /\ EndOf(s, r) \in Nat /\ EndOf(s, r + 1) \in Nat /\ EndOf(s, Len(s)) \in Nat
      /\ EndOf(s, r + 1) = EndOf(s, r) + Len(s[r + 1].text)
  BY <1>1, PieceEnds
<1>3. a \in Nat /\ a <= EndOf(s, Len(s)) /\ EndOf(s, r) <= a
  BY <1>2
<1>4. b \in Seq(STRING) /\ Len(b) \in Nat
  BY BufferFacts
<1>5. After(b)[0] = At(0, NoMessage) /\ e(r) = 0
  BY <1>2, <1>4, AfterFacts
<1>6. /\ EndOf(s, r + 1) > a => Scan(b).message = NoMessage /\ Scan(b).from = e(r)
      /\ EndOf(s, r + 1) <= a => /\ e(r + 1) \in 0..Len(b)
                                 /\ After(b)[e(r + 1)] = At(e(r + 1), s[r + 1].says)
  <2> DEFINE i == r + 1
  <2>1. /\ i \in (r + 1)..Len(s) /\ i - 1 = r /\ a \in EndOf(s, i - 1)..EndOf(s, Len(s))
        /\ IsDocument(s[i].text) /\ After(b)[e(i - 1)] = At(e(i - 1), NoMessage)
    BY <1>1, <1>5
  <2> HIDE DEF i
  <2>2. /\ EndOf(s, i) > a => Scan(b).message = NoMessage /\ Scan(b).from = e(i - 1)
        /\ EndOf(s, i) <= a => e(i) \in 0..Len(b) /\ After(b)[e(i)] = At(e(i), s[i].says)
    BY <2>1, ScanPiece
  <2> QED
    BY <2>1, <2>2 DEF i
<1> HIDE DEF b, e
<1>7. CASE EndOf(s, r + 1) > a
  <2>1. NothingWhole(s, r, a)
    BY <1>1, <1>3, <1>7, NothingBehind
  <2>2. Goal(r)
    BY <1>3, <1>6, <1>7, <2>1 DEF Knows
  <2> HIDE DEF Goal
  <2> QED
    BY <1>1, <2>2
<1>8. CASE EndOf(s, r + 1) <= a /\ s[r + 1].says # NoMessage
  <2>1. Scan(b) = At(e(r + 1), s[r + 1].says)
    BY <1>4, <1>6, <1>8, ScanStops DEF At
  <2>2. Says(s, r + 1) = Says(s, r) \cup {r + 1}
    BY <1>1, <1>8, SaysMore
  <2>3. Goal(r + 1)
    BY <1>1, <1>8, <2>1, <2>2 DEF At, Knows
  <2> HIDE DEF Goal
  <2> QED
    BY <1>1, <2>3
<1>9. CASE EndOf(s, r + 1) <= a /\ s[r + 1].says = NoMessage
  <2>1. After(b)[e(r + 1)] = At(e(r + 1), NoMessage) /\ e(r + 1) \in 0..Len(b)
    BY <1>6, <1>9
  <2>2. Says(s, r + 1) = Says(s, r)
    BY <1>1, <1>9, SaysMore
  <2>3. CASE EndOf(s, r + 1) = a
    <3>1. e(r + 1) = Len(b)
      BY <2>3, BufferFacts DEF b, e
    <3>2. Scan(b) = At(e(r + 1), NoMessage)
      BY <1>4, <2>1, <3>1, AfterFacts
    <3>3. NothingWhole(s, r + 1, a)
      BY <1>1, <1>3, <2>3, NothingBehind
    <3>4. Goal(r + 1)
      BY <1>9, <2>2, <3>2, <3>3 DEF At, Knows
    <3> HIDE DEF Goal
    <3> QED
      BY <1>1, <3>4
  <2>4. CASE EndOf(s, r + 1) # a
    <3> DEFINE i == r + 2
    <3>1. r + 1 # Len(s)
      BY <1>2, <1>3, <1>9, <2>4
    <3>2. /\ i \in 2..Len(s) /\ i \in 1..Len(s) /\ i \in 0..Len(s)
          /\ i \in (r + 1)..Len(s) /\ i \in r..Len(s) /\ i > r
          /\ i - 1 = r + 1
      BY <1>1, <3>1
    <3> HIDE DEF i
    <3>3. s[i].says # NoMessage
      <4>1. s[i - 1].says = NoMessage
        BY <1>9, <3>2
      <4> QED
        BY <3>2, <4>1 DEF TidyStream
    <3>4. IsDocument(s[i].text)
      BY <3>2, <3>3, MessagePiece
    <3>5. a \in EndOf(s, i - 1)..EndOf(s, Len(s))
      BY <1>2, <1>3, <1>9, <3>2
    <3>6. After(b)[e(i - 1)] = At(e(i - 1), NoMessage)
      BY <2>1, <3>2
    <3>7. /\ EndOf(s, i) > a => Scan(b).message = NoMessage /\ Scan(b).from = e(i - 1)
          /\ EndOf(s, i) <= a => /\ e(i) \in 0..Len(b)
                                 /\ After(b)[e(i)] = At(e(i), s[i].says)
      BY <3>2, <3>4, <3>5, <3>6, ScanPiece DEF b, e
    <3>8. CASE EndOf(s, i) > a
      <4>1. NothingWhole(s, r + 1, a)
        <5>1. r + 1 < Len(s) /\ EndOf(s, (r + 1) + 1) > a
          <6>1. (r + 1) + 1 = i
            BY <1>1 DEF i
          <6> QED
            BY <1>1, <3>1, <3>8, <6>1
        <5> QED
          BY <1>1, <1>3, <5>1, NothingBehind
      <4>2. Goal(r + 1)
        BY <1>9, <2>2, <3>2, <3>7, <3>8, <4>1 DEF Knows
      <4> HIDE DEF Goal
      <4> QED
        BY <1>1, <4>2
    <3>9. CASE EndOf(s, i) <= a
      <4>1. Scan(b) = At(e(i), s[i].says)
        BY <1>4, <3>3, <3>7, <3>9, ScanStops DEF At
      <4>2. Says(s, i) = Says(s, r) \cup {i}
        BY <2>2, <3>2, <3>3, SaysMore
      <4>3. Goal(i)
        BY <3>2, <3>3, <3>9, <4>1, <4>2 DEF At, Knows
      <4> HIDE DEF Goal
      <4> QED
        BY <3>2, <4>3
    <3> QED
      <4>1. EndOf(s, i) \in Nat
        BY <3>2, PieceEnds
      <4> QED
        BY <1>3, <3>8, <3>9, <4>1
  <2> QED
    BY <2>3, <2>4
<1> QED
  <2>1. s[r + 1].says = NoMessage \/ s[r + 1].says # NoMessage
    OBVIOUS
  <2> HIDE DEF Goal
  <2> QED
    BY <1>2, <1>3, <1>7, <1>8, <1>9, <2>1


\* A document that has begun in the buffer has its brace there.
LEMMA BraceInBuffer ==
    ASSUME NEW s \in Streams, NEW r \in 0..Len(s), NEW i \in (r + 1)..Len(s),
           NEW a \in EndOf(s, i - 1)..EndOf(s, Len(s)), EndOf(s, i - 1) < a,
           IsDocument(s[i].text)
    PROVE  LET n == EndOf(s, i - 1) - EndOf(s, r)
           IN  /\ n \in Nat /\ n < Len(Buffer(s, r, a))
               /\ Buffer(s, r, a)[n + 1] = Open
<1> DEFINE b == Buffer(s, r, a)
           n == EndOf(s, i - 1) - EndOf(s, r)
           t == s[i].text
<1>1. i - 1 \in 0..Len(s) /\ i \in 1..Len(s) /\ i - 1 \in r..Len(s) /\ Len(s) \in 0..Len(s)
  BY PieceType
<1>2. /\ EndOf(s, r) \in Nat /\ EndOf(s, i - 1) \in Nat /\ EndOf(s, Len(s)) \in Nat
      /\ EndOf(s, r) <= EndOf(s, i - 1)
  BY <1>1, PieceEnds, JoinedGrows DEF Keeps
<1>3. Len(b) = a - EndOf(s, r)
  <2>1. a \in EndOf(s, r)..EndOf(s, Len(s))
    BY <1>2
  <2> QED
    BY <2>1, BufferFacts
<1>4. n \in Nat /\ GoesOnWith(b, n, t)
  BY BufferGoesOn
<1>5. 1 \in 1..Len(t) /\ t[1] = Open
  <2>1. t \in Seq(STRING) /\ Len(t) > 0 /\ t[1] = Open
    BY DEF IsDocument
  <2> HIDE DEF t
  <2> QED
    BY <2>1
<1>6. n < Len(b) /\ n + 1 <= Len(b)
  <2> HIDE DEF b
  <2> QED
    BY <1>2, <1>3
<1>7. b[n + 1] = Open
  <2> HIDE DEF b, n, t
  <2> QED
    BY <1>4, <1>5, <1>6 DEF GoesOnWith
<1> QED
  BY <1>4, <1>6, <1>7

\* Skipping the trash leads to a document, if a brace has arrived: behind
\* text without one there is a message.
LEMMA Trimmed ==
    ASSUME NEW s \in Streams, TidyStream(s), NEW p \in 0..Len(s),
           NEW a \in EndOf(s, p)..EndOf(s, Len(s)),
           NEW j \in 1..Len(Buffer(s, p, a)), Buffer(s, p, a)[j] = Open
    PROVE  \E r \in p..Len(s) :
              /\ r < Len(s) /\ IsDocument(s[r + 1].text)
              /\ EndOf(s, r) <= a
              /\ SkipTrash(Buffer(s, p, a)) = Buffer(s, r, a)
              /\ Says(s, r) = Says(s, p)
<1> DEFINE b == Buffer(s, p, a)
           Goal(r) == /\ r < Len(s) /\ IsDocument(s[r + 1].text)
                      /\ EndOf(s, r) <= a
                      /\ SkipTrash(b) = Buffer(s, r, a)
                      /\ Says(s, r) = Says(s, p)
<1> SUFFICES \E r \in p..Len(s) : Goal(r)
  OBVIOUS
<1>1. Len(s) \in Nat /\ p \in Nat /\ Len(s) \in 0..Len(s)
  BY PieceType
<1>2. EndOf(s, p) \in Nat /\ EndOf(s, Len(s)) \in Nat
  BY <1>1, PieceEnds
<1>3. b \in Seq(STRING) /\ Len(b) = a - EndOf(s, p)
  BY BufferFacts
<1>4. EndOf(s, p) < a /\ p < Len(s)
  <2>1. EndOf(s, p) < a
    <3>1. j \in 1..Len(b)
      OBVIOUS
    <3> HIDE DEF b
    <3> QED
      BY <1>2, <1>3, <3>1
  <2>2. p # Len(s)
    BY <1>2, <2>1
  <2> QED
    BY <1>1, <2>1, <2>2
<1>5. ASSUME NEW r \in p..Len(s), r < Len(s), IsDocument(s[r + 1].text),
             EndOf(s, r) < a, Says(s, r) = Says(s, p),
             \A i \in 1..(EndOf(s, r) - EndOf(s, p)) : b[i] # Open
      PROVE  Goal(r)
  <2> DEFINE n == EndOf(s, r) - EndOf(s, p)
             i == r + 1
  <2>1. i \in (p + 1)..Len(s) /\ i - 1 = r /\ r \in 0..Len(s)
    BY <1>1, <1>5
  <2>2. EndOf(s, r) \in Nat /\ a \in EndOf(s, r)..EndOf(s, Len(s))
    BY <1>2, <1>5, <2>1, PieceEnds
  <2>3. n \in Nat /\ n < Len(b) /\ b[n + 1] = Open
    <3>1. /\ a \in EndOf(s, i - 1)..EndOf(s, Len(s)) /\ EndOf(s, i - 1) < a
          /\ IsDocument(s[i].text)
      BY <1>5, <2>1, <2>2
    <3> HIDE DEF i
    <3>2. LET m == EndOf(s, i - 1) - EndOf(s, p)
          IN  m \in Nat /\ m < Len(b) /\ b[m + 1] = Open
      BY <2>1, <3>1, BraceInBuffer
    <3> QED
      BY <2>1, <3>2
  <2>4. SubSeq(b, n + 1, Len(b)) = Buffer(s, r, a)
    BY <2>2, BufferEnds
  <2> HIDE DEF b, n
  <2>5. SkipTrash(b) = SubSeq(b, n + 1, Len(b))
    BY <1>3, <1>5, <2>3, TrashSkipped DEF n
  <2> QED
    BY <1>5, <2>2, <2>4, <2>5
<1>6. CASE IsDocument(s[p + 1].text)
  <2>1. 1..(EndOf(s, p) - EndOf(s, p)) = {}
    BY <1>2
  <2>2. p \in p..Len(s)
    BY <1>1
  <2>3. Goal(p)
    <3> HIDE DEF Goal, b
    <3> QED
      BY <1>4, <1>5, <1>6, <2>1, <2>2
  <2> HIDE DEF Goal
  <2> QED
    BY <2>2, <2>3
<1>7. CASE ~IsDocument(s[p + 1].text)
  <2> DEFINE r == p + 1
             t == s[r].text
  <2>1. /\ r \in 1..Len(s) /\ r \in p..Len(s) /\ r \in (p + 1)..Len(s)
        /\ r - 1 = p /\ r \in 0..Len(s)
    BY <1>1, <1>4
  <2>2. ~IsDocument(t) /\ Open \notin Range(t) /\ s[r].says = NoMessage
    <3>1. ~IsDocument(t)
      BY <1>7
    <3> HIDE DEF r
    <3> QED
      BY <2>1, <3>1, MessagePiece DEF TidyStream
  <2> HIDE DEF r
  <2>3. t \in Seq(STRING) /\ EndOf(s, r) = EndOf(s, p) + Len(t) /\ EndOf(s, r) \in Nat
    BY <2>1, PieceType, PieceEnds
  <2>4. \A i \in 1..Len(t) : i <= Len(b) => b[i] # Open
    <3>1. ASSUME NEW i \in 1..Len(t), i <= Len(b) PROVE b[i] # Open
      <4>1. GoesOnWith(b, EndOf(s, r - 1) - EndOf(s, p), t)
        <5>1. a \in EndOf(s, r - 1)..EndOf(s, Len(s))
          BY <2>1
        <5> QED
          BY <2>1, <5>1, BufferGoesOn
      <4>2. EndOf(s, r - 1) - EndOf(s, p) = 0
        BY <1>2, <2>1
      <4> HIDE DEF b, t
      <4>3. b[0 + i] = t[i]
        <5>1. 0 + i <= Len(b)
          BY <2>3, <3>1
        <5> QED
          BY <4>1, <4>2, <5>1 DEF GoesOnWith
      <4>4. 0 + i = i
        BY <2>3
      <4>5. t[i] \in Range(t)
        BY <2>3 DEF Range
      <4> QED
        BY <2>2, <4>3, <4>4, <4>5
    <3> QED
      BY <3>1
  <2>5. EndOf(s, r) < a
    <3> SUFFICES ASSUME a <= EndOf(s, r) PROVE FALSE
      BY <1>2, <2>3
    <3>1. j \in 1..Len(b) /\ b[j] = Open
      OBVIOUS
    <3> HIDE DEF b, t
    <3>2. j \in 1..Len(t) /\ j <= Len(b)
      BY <1>2, <1>3, <2>3, <3>1
    <3> QED
      BY <2>4, <3>1, <3>2
  <2>6. r < Len(s) /\ r + 1 \in 2..Len(s) /\ r + 1 \in 1..Len(s) /\ (r + 1) - 1 = r
    <3>1. r # Len(s)
      BY <1>2, <2>3, <2>5
    <3> QED
      BY <1>1, <2>1, <3>1
  <2>7. IsDocument(s[r + 1].text)
    <3> DEFINE i == r + 1
    <3>1. i \in 2..Len(s) /\ i \in 1..Len(s) /\ s[i - 1].says = NoMessage
      BY <2>2, <2>6
    <3> HIDE DEF i
    <3>2. s[i].says # NoMessage
      BY <3>1 DEF TidyStream
    <3>3. IsDocument(s[i].text)
      BY <3>1, <3>2, MessagePiece
    <3> QED
      BY <3>3 DEF i
  <2>8. Says(s, r) = Says(s, p)
    BY <2>1, <2>2, SaysMore
  <2>9. \A i \in 1..(EndOf(s, r) - EndOf(s, p)) : b[i] # Open
    <3>1. EndOf(s, r) - EndOf(s, p) = Len(t) /\ Len(t) <= Len(b) /\ Len(t) \in Nat
      <4> HIDE DEF b, t
      <4> QED
        BY <1>2, <1>3, <2>3, <2>5
    <3> HIDE DEF b, t
    <3> QED
      BY <2>4, <3>1
  <2>10. Goal(r)
    <3> HIDE DEF Goal, b, t
    <3> QED
      BY <1>5, <2>1, <2>5, <2>6, <2>7, <2>8, <2>9
  <2> HIDE DEF Goal
  <2> QED
    BY <2>1, <2>10
<1> QED
  BY <1>6, <1>7

\* One call of processBuffer on a buffer that begins with a piece.
LEMMA ReadsStream ==
    ASSUME NEW s \in Streams, TidyStream(s), NEW p \in 0..Len(s),
           NEW a \in EndOf(s, p)..EndOf(s, Len(s))
    PROVE  \E q \in p..Len(s) :
              /\ EndOf(s, q) <= a
              /\ ProcessBuffer(Buffer(s, p, a)).rest = Buffer(s, q, a)
              /\ Knows(s, p, q, a, ProcessBuffer(Buffer(s, p, a)).message)
<1> DEFINE b == Buffer(s, p, a)
<1>1. Len(s) \in Nat /\ p \in Nat /\ Len(s) \in 0..Len(s) /\ p \in p..Len(s)
  BY PieceType
<1>2. EndOf(s, p) \in Nat /\ EndOf(s, Len(s)) \in Nat
  BY <1>1, PieceEnds
<1>3. CASE ~\E i \in 1..Len(b) : b[i] = Open
  <2>1. ProcessBuffer(b) = [message |-> NoMessage, rest |-> b]
    BY <1>3 DEF ProcessBuffer
  <2>2. NothingWhole(s, p, a)
    <3>1. ASSUME NEW i \in 1..Len(s), i > p, s[i].says # NoMessage,
                 ~(EndOf(s, i) > a)
          PROVE  FALSE
      <4>1. i - 1 \in 0..Len(s) /\ i \in 0..Len(s) /\ i \in (p + 1)..Len(s)
        BY <1>1, <3>1
      <4>2. IsDocument(s[i].text)
        BY <3>1, MessagePiece
      <4>3. /\ EndOf(s, i - 1) \in Nat /\ EndOf(s, i) \in Nat
            /\ EndOf(s, i) = EndOf(s, i - 1) + Len(s[i].text)
        BY <4>1, PieceEnds
      <4>4. Len(s[i].text) > 0 /\ Len(s[i].text) \in Nat
        <5>1. s[i].text \in Seq(STRING)
          BY PieceType
        <5> QED
          BY <4>2, <5>1 DEF IsDocument
      <4>5. EndOf(s, i - 1) < a /\ a \in EndOf(s, i - 1)..EndOf(s, Len(s))
        BY <1>2, <3>1, <4>3, <4>4
      <4> DEFINE n == EndOf(s, i - 1) - EndOf(s, p)
      <4>6. n \in Nat /\ n < Len(b) /\ b[n + 1] = Open
        BY <4>1, <4>2, <4>5, BraceInBuffer
      <4>7. b \in Seq(STRING)
        BY BufferFacts
      <4> HIDE DEF n, b
      <4>8. n + 1 \in 1..Len(b)
        BY <4>6, <4>7
      <4> QED
        BY <1>3, <4>6, <4>8
    <3> QED
      BY <3>1 DEF NothingWhole
  <2> HIDE DEF b
  <2>3. Knows(s, p, p, a, NoMessage)
    BY <2>2 DEF Knows
  <2>4. ProcessBuffer(b).rest = b /\ ProcessBuffer(b).message = NoMessage
    BY <2>1
  <2> QED
    BY <1>1, <1>2, <2>3, <2>4 DEF b
<1>4. CASE \E i \in 1..Len(b) : b[i] = Open
  <2>1. PICK j \in 1..Len(b) : b[j] = Open
    BY <1>4
  <2>2. PICK r \in p..Len(s) :
           /\ r < Len(s) /\ IsDocument(s[r + 1].text)
           /\ EndOf(s, r) <= a
           /\ SkipTrash(b) = Buffer(s, r, a)
           /\ Says(s, r) = Says(s, p)
    BY <2>1, Trimmed
  <2> DEFINE c == Buffer(s, r, a)
             found == Scan(c)
  <2>3. ProcessBuffer(b) = [message |-> found.message,
                            rest |-> SubSeq(c, found.from + 1, Len(c))]
    <3> HIDE DEF b, c
    <3> QED
      BY <1>4, <2>2 DEF ProcessBuffer, c
  <2>4. r \in 0..Len(s) /\ a \in EndOf(s, r)..EndOf(s, Len(s))
    <3>1. r \in 0..Len(s)
      BY <1>1
    <3>2. EndOf(s, r) \in Nat
      BY <3>1, PieceEnds
    <3> QED
      BY <1>2, <2>2, <3>1, <3>2
  <2>5. PICK q \in r..Len(s) :
           /\ EndOf(s, q) <= a
           /\ found.from = EndOf(s, q) - EndOf(s, r)
           /\ Knows(s, r, q, a, found.message)
    BY <2>2, <2>4, ScanBuffer
  <2>6. q \in 0..Len(s) /\ q \in p..Len(s) /\ a \in EndOf(s, q)..EndOf(s, Len(s))
    <3>1. q \in 0..Len(s) /\ q \in p..Len(s)
      BY <1>1, <2>4
    <3>2. EndOf(s, q) \in Nat
      BY <3>1, PieceEnds
    <3> QED
      BY <1>2, <2>5, <3>1, <3>2
  <2>7. SubSeq(c, EndOf(s, q) - EndOf(s, r) + 1, Len(c)) = Buffer(s, q, a)
    BY <2>4, <2>6, BufferEnds
  <2> DEFINE m == found.message
  <2>8. Knows(s, p, q, a, m)
    <3>1. q \in Nat /\ r \in Nat /\ r >= p /\ q >= r
      BY <1>1, <2>4, <2>6
    <3>2. Knows(s, r, q, a, m)
      BY <2>5
    <3> HIDE DEF m
    <3> QED
      BY <1>1, <2>2, <3>1, <3>2 DEF Knows
  <2>9. ProcessBuffer(b).message = m /\ ProcessBuffer(b).rest = Buffer(s, q, a)
    <3> HIDE DEF b, c
    <3> QED
      BY <2>3, <2>5, <2>7
  <2> HIDE DEF m
  <2> QED
    BY <2>5, <2>6, <2>8, <2>9
<1> QED
  BY <1>3, <1>4


-----------------------------------------------------------------------------
(* The messages found.                                                     *)

\* HeardAre, of any stream and any history.
HeardOf(s, h, S) ==
    /\ Len(h) = Cardinality(S)
    /\ \A i \in S : h[Rank(S, i)].message = s[i].says

\* The first p pieces have been dealt with: what they say has been heard, and
\* the buffer holds what has arrived of the others; when the loop has ended
\* there is no message in it.
Framed(s, a, b, h, loop) ==
    \E p \in 0..Len(s) :
        /\ EndOf(s, p) <= a
        /\ b = Buffer(s, p, a)
        /\ HeardOf(s, h, Says(s, p))
        /\ loop \/ NothingWhole(s, p, a)

FrameInv == TidyStream(stream) => Framed(stream, arrived, buf, heard, reading)

\* Characters that arrive go to the end of the buffer.
LEMMA BufferGrows ==
    ASSUME NEW s \in Streams, NEW p \in 0..Len(s),
           NEW a \in EndOf(s, p)..EndOf(s, Len(s)), NEW n \in Nat,
           a + n <= EndOf(s, Len(s))
    PROVE  Buffer(s, p, a) \o SubSeq(WholeText(s), a + 1, a + n) = Buffer(s, p, a + n)
<1> DEFINE b == Buffer(s, p, a)
           c == Buffer(s, p, a + n)
           t == WholeText(s)
           new == SubSeq(t, a + 1, a + n)
           e == EndOf(s, p)
<1>1. Len(s) \in 0..Len(s)
  BY PieceType
<1>2. e \in Nat /\ EndOf(s, Len(s)) \in Nat /\ a \in Nat /\ e <= a
  <2>1. EndOf(s, p) \in Nat /\ EndOf(s, Len(s)) \in Nat
    BY <1>1, PieceEnds
  <2> QED
    BY <2>1
<1>3. t \in Seq(STRING) /\ Len(t) = EndOf(s, Len(s))
  BY <1>1, JoinedFacts DEF WholeText, EndOf
<1>4. b \in Seq(STRING) /\ Len(b) = a - e /\ \A k \in 1..(a - e) : b[k] = t[e + k]
  BY BufferFacts
<1>5. /\ c \in Seq(STRING) /\ Len(c) = a + n - e
      /\ \A k \in 1..(a + n - e) : c[k] = t[e + k]
  <2> DEFINE m == a + n
  <2>1. m \in EndOf(s, p)..EndOf(s, Len(s))
    BY <1>2
  <2> HIDE DEF m
  <2>2. /\ Buffer(s, p, m) \in Seq(STRING) /\ Len(Buffer(s, p, m)) = m - e
        /\ \A k \in 1..(m - e) : Buffer(s, p, m)[k] = t[e + k]
    BY <2>1, BufferFacts
  <2>3. m = a + n
    BY DEF m
  <2>4. c = Buffer(s, p, m)
    BY <2>3
  <2> HIDE DEF c, e, t
  <2>5. a + n - e = m - e
    BY <1>2, <2>3
  <2> QED
    BY <2>2, <2>4, <2>5
<1> HIDE DEF b, c, t, e
<1>6. /\ new \in Seq(STRING) /\ Len(new) = n
      /\ \A k \in 1..n : new[k] = t[a + k]
  BY <1>2, <1>3
<1> HIDE DEF new
<1>7. b \o new \in Seq(STRING) /\ Len(b \o new) = Len(c)
  <2>1. Len(b \o new) = Len(b) + Len(new)
    BY <1>4, <1>6, Concatenated
  <2> QED
    BY <1>2, <1>4, <1>5, <1>6, <2>1
<1>8. ASSUME NEW k \in 1..Len(c) PROVE (b \o new)[k] = c[k]
  <2>1. k \in 1..(a + n - e) /\ c[k] = t[e + k]
    BY <1>5
  <2>2. CASE k <= a - e
    <3>1. k \in 1..(a - e) /\ k \in 1..Len(b)
      BY <1>2, <1>4, <2>1, <2>2
    <3>2. (b \o new)[k] = b[k]
      BY <1>4, <1>6, <3>1, Concatenated
    <3> QED
      BY <1>4, <2>1, <3>1, <3>2
  <2>3. CASE k > a - e
    <3> DEFINE i == k - (a - e)
    <3>1. i \in 1..n /\ Len(b) + i = k /\ a + i = e + k
      BY <1>2, <1>4, <2>1, <2>3
    <3> HIDE DEF i
    <3>2. (b \o new)[Len(b) + i] = new[i]
      BY <1>4, <1>6, <3>1, Concatenated
    <3>3. new[i] = t[a + i]
      BY <1>6, <3>1
    <3> QED
      BY <2>1, <3>1, <3>2, <3>3
  <2>4. k <= a - e \/ k > a - e
    BY <1>2, <2>1
  <2> QED
    BY <2>2, <2>3, <2>4
<1>9. b \o new = c
  <2> DEFINE d == b \o new
  <2>1. d \in Seq(STRING) /\ Len(d) = Len(c) /\ \A k \in 1..Len(d) : d[k] = c[k]
    BY <1>7, <1>8
  <2> HIDE DEF d
  <2>2. d = c
    BY <1>5, <2>1, SeqEqual
  <2> QED
    BY <2>2 DEF d
<1> QED
  BY <1>9 DEF b, c, new, t

\* A message heard after those of the pieces up to p is that of a piece behind.
LEMMA HeardMore ==
    ASSUME NEW s \in Streams, NEW p \in 0..Len(s), NEW q \in 1..Len(s), q > p,
           NEW h \in Seq(HeardRecord), HeardOf(s, h, Says(s, p)),
           NEW r, r.message = s[q].says
    PROVE  HeardOf(s, Append(h, r), Says(s, p) \cup {q})
<1> DEFINE S == Says(s, p)
           g == Append(h, r)
           n == q - 1
<1>1. n \in Nat /\ n + 1 = q /\ S \subseteq 1..n
  <2>1. Len(s) \in Nat
    BY PieceType
  <2> QED
    BY <2>1 DEF Says
<1>2. /\ Len(h) \in Nat /\ Len(g) = Len(h) + 1 /\ g[Len(h) + 1] = r
      /\ \A i \in 1..Len(h) : g[i] = h[i]
  OBVIOUS
<1>3. Len(h) = Cardinality(S) /\ \A i \in S : h[Rank(S, i)].message = s[i].says
  BY DEF HeardOf
<1> HIDE DEF S, g, n
<1>4. /\ Cardinality(S \cup {q}) = Cardinality(S) + 1
      /\ Rank(S \cup {q}, q) = Cardinality(S) + 1
      /\ \A i \in S : /\ Rank(S, i) \in Nat /\ Rank(S, i) <= Cardinality(S)
                      /\ Rank(S \cup {q}, i) = Rank(S, i)
  <2>1. /\ Cardinality(S \cup {n + 1}) = Cardinality(S) + 1
        /\ Rank(S \cup {n + 1}, n + 1) = Cardinality(S) + 1
        /\ \A i \in S : /\ Rank(S, i) \in Nat /\ Rank(S, i) <= Cardinality(S)
                        /\ Rank(S \cup {n + 1}, i) = Rank(S, i)
    BY <1>1, RankInSet
  <2> QED
    BY <1>1, <2>1
<1>5. ASSUME NEW i \in S PROVE Rank(S, i) # 0
  <2> DEFINE T == {k \in S : k <= i}
  <2>1. IsFiniteSet(T)
    <3>1. IsFiniteSet(1..n)
      BY <1>1, FS_Interval
    <3>2. T \subseteq 1..n
      BY <1>1
    <3> QED
      BY <3>1, <3>2, FS_Subset
  <2>2. i \in T
    BY <1>1
  <2>3. Cardinality(T) # 0
    <3> HIDE DEF T
    <3> QED
      BY <2>1, <2>2, FS_EmptySet
  <2> QED
    BY <2>3 DEF Rank
<1>6. ASSUME NEW i \in S \cup {q}
      PROVE  g[Rank(S \cup {q}, i)].message = s[i].says
  <2>1. CASE i = q
    BY <1>2, <1>3, <1>4, <2>1
  <2>2. CASE i \in S
    <3>1. Rank(S, i) \in 1..Len(h)
      BY <1>2, <1>3, <1>4, <1>5, <2>2
    <3> QED
      BY <1>2, <1>3, <1>4, <2>2, <3>1
  <2> QED
    BY <2>1, <2>2
<1>7. Len(g) = Cardinality(S \cup {q})
  BY <1>2, <1>3, <1>4
<1>8. HeardOf(s, g, S \cup {q})
  BY <1>6, <1>7 DEF HeardOf
<1> QED
  BY <1>8 DEF S, g

LEMMA InitFrame == Init => FrameInv
<1> SUFFICES ASSUME Init, TidyStream(stream)
             PROVE  Framed(stream, arrived, buf, heard, reading)
  BY DEF FrameInv
<1>1. stream \in Streams /\ arrived = 0 /\ buf = << >> /\ heard = << >>
  BY DEF Init
<1>2. Len(stream) \in Nat /\ 0 \in 0..Len(stream) /\ EndOf(stream, 0) = 0
  BY <1>1, PieceType, PieceEnds
<1>3. Len(stream) \in 0..Len(stream) /\ EndOf(stream, Len(stream)) \in Nat
  BY <1>1, <1>2, PieceEnds
<1>4. buf = Buffer(stream, 0, arrived)
  <2>1. arrived \in EndOf(stream, 0)..EndOf(stream, Len(stream))
    BY <1>1, <1>2, <1>3
  <2>2. /\ Buffer(stream, 0, arrived) \in Seq(STRING)
        /\ Len(Buffer(stream, 0, arrived)) = 0
    BY <1>1, <1>2, <2>1, BufferFacts
  <2> QED
    BY <1>1, <2>2
<1>5. HeardOf(stream, heard, Says(stream, 0))
  <2>1. Says(stream, 0) = {}
    BY DEF Says
  <2>2. Cardinality({}) = 0 /\ Len(<< >>) = 0
    BY FS_EmptySet
  <2> QED
    BY <1>1, <2>1, <2>2 DEF HeardOf
<1>6. NothingWhole(stream, 0, arrived)
  BY <1>1, <1>2, NothingBehind
<1> QED
  BY <1>1, <1>2, <1>4, <1>5, <1>6 DEF Framed

LEMMA StepFrame == IInv /\ TextInv /\ FrameInv /\ [Next]_vars => FrameInv'
<1> SUFFICES ASSUME IInv, TextInv, FrameInv, [Next]_vars PROVE FrameInv'
  OBVIOUS
<1>1. stream \in Streams /\ heard \in Seq(HeardRecord)
  BY DEF TextInv
<1>2. Len(stream) \in Nat /\ Len(stream) \in 0..Len(stream)
  BY <1>1, PieceType
<1>3. EndOf(stream, Len(stream)) \in Nat /\ Characters = WholeText(stream)
  BY <1>1, <1>2, PieceEnds DEF Characters, WholeText
<1>4. arrived \in 0..EndOf(stream, Len(stream))
  BY <1>3 DEF TextInv, WholeText, EndOf
<1>5. CASE UNCHANGED <<stream, arrived, buf, heard, reading>>
  BY <1>5 DEF FrameInv
<1>6. CASE \/ UNCHANGED vars \/ Established \/ Flushed \/ Break \/ Lost
           \/ SendUpdate \/ UseDeletedHandler
  BY <1>5, <1>6 DEF vars, Established, Flushed, Break, Lost, SendUpdate,
                    UseDeletedHandler
<1> SUFFICES ASSUME TidyStream(stream), stream' = stream,
                    \/ \E n \in 1..Len(Characters) : ReadyRead(n)
                    \/ NextTurn
             PROVE  Framed(stream, arrived', buf', heard', reading')
  <2>1. (\E n \in 1..Len(Characters) : ReadyRead(n)) \/ NextTurn => stream' = stream
    BY DEF ReadyRead, NextTurn
  <2> QED
    BY <1>6, <2>1 DEF Next, Step, FrameInv
<1>7. PICK p \in 0..Len(stream) :
         /\ EndOf(stream, p) <= arrived
         /\ buf = Buffer(stream, p, arrived)
         /\ HeardOf(stream, heard, Says(stream, p))
  BY DEF FrameInv, Framed
<1>8. EndOf(stream, p) \in Nat /\ arrived \in EndOf(stream, p)..EndOf(stream, Len(stream))
  <2>1. EndOf(stream, p) \in Nat
    BY <1>1, PieceEnds
  <2> QED
    BY <1>3, <1>4, <1>7, <2>1
<1>9. ASSUME NEW n \in 1..Len(Characters), ReadyRead(n)
      PROVE  Framed(stream, arrived', buf', heard', reading')
  <2>1. /\ UNCHANGED <<stream, heard>> /\ reading' = TRUE
        /\ arrived + n <= Len(Characters) /\ arrived' = arrived + n
        /\ buf' = buf \o SubSeq(Characters, arrived + 1, arrived + n)
    BY <1>9 DEF ReadyRead
  <2>2. n \in Nat /\ arrived + n <= EndOf(stream, Len(stream))
    BY <1>3, <2>1 DEF WholeText, EndOf
  <2>3. buf' = Buffer(stream, p, arrived')
    BY <1>1, <1>3, <1>7, <1>8, <2>1, <2>2, BufferGrows
  <2>4. EndOf(stream, p) <= arrived'
    BY <1>4, <1>7, <1>8, <2>1, <2>2
  <2> QED
    BY <1>7, <2>1, <2>3, <2>4 DEF Framed
<1>10. CASE NextTurn
  <2> DEFINE found == ProcessBuffer(buf)
             m == found.message
             told == [message |-> m, taken |-> conn.cd = "listed"]
  <2>1. /\ UNCHANGED <<stream, arrived>>
        /\ buf' = found.rest
        /\ reading' = (Len(found.rest) # Len(buf))
        /\ IF m = NoMessage THEN heard' = heard ELSE heard' = Append(heard, told)
    BY <1>10 DEF NextTurn, MoreToDo
  <2>2. PICK q \in p..Len(stream) :
           /\ EndOf(stream, q) <= arrived
           /\ found.rest = Buffer(stream, q, arrived)
           /\ Knows(stream, p, q, arrived, m)
    BY <1>1, <1>7, <1>8, ReadsStream
  <2>3. told.message = m
    OBVIOUS
  <2> HIDE DEF found, m, told
  <2>4. q \in 0..Len(stream)
    BY <1>2
  <2>5. CASE /\ m = NoMessage
             /\ Says(stream, q) = Says(stream, p)
             /\ NothingWhole(stream, q, arrived)
    <3>1. heard' = heard
      BY <2>1, <2>5
    <3> QED
      BY <1>7, <2>1, <2>2, <2>4, <2>5, <3>1 DEF Framed
  <2>6. CASE /\ q > p
             /\ m = stream[q].says /\ stream[q].says # NoMessage
             /\ Says(stream, q) = Says(stream, p) \cup {q}
    <3>1. q \in 1..Len(stream) /\ q - 1 \in 0..Len(stream) /\ q - 1 \in p..Len(stream)
      BY <1>2, <2>4, <2>6
    <3>2. heard' = Append(heard, told)
      BY <2>1, <2>6
    <3>3. HeardOf(stream, heard', Says(stream, q))
      <4>1. HeardOf(stream, Append(heard, told), Says(stream, p) \cup {q})
        BY <1>1, <1>7, <2>3, <2>6, <3>1, HeardMore
      <4> QED
        BY <2>6, <3>2, <4>1
    <3>4. reading' = TRUE
      <4>1. /\ EndOf(stream, p) <= EndOf(stream, q - 1)
            /\ EndOf(stream, q) = EndOf(stream, q - 1) + Len(stream[q].text)
            /\ EndOf(stream, q - 1) \in Nat /\ EndOf(stream, q) \in Nat
        BY <1>1, <2>4, <3>1, PieceEnds, JoinedGrows DEF Keeps
      <4>2. Len(stream[q].text) > 0 /\ Len(stream[q].text) \in Nat
        <5>1. IsDocument(stream[q].text) /\ stream[q].text \in Seq(STRING)
          BY <1>1, <2>6, <3>1, MessagePiece, PieceType
        <5> QED
          BY <5>1 DEF IsDocument
      <4>3. arrived \in EndOf(stream, q)..EndOf(stream, Len(stream))
        BY <1>4, <2>2, <4>1
      <4>4. /\ Len(found.rest) = arrived - EndOf(stream, q)
            /\ Len(buf) = arrived - EndOf(stream, p)
        BY <1>1, <1>7, <1>8, <2>2, <2>4, <4>3, BufferFacts
      <4>5. Len(found.rest) # Len(buf)
        BY <1>4, <1>8, <4>1, <4>2, <4>4
      <4> QED
        BY <2>1, <4>5
    <3> QED
      BY <2>1, <2>2, <2>4, <3>3, <3>4 DEF Framed
  <2> QED
    BY <2>2, <2>5, <2>6 DEF Knows
<1> QED
  BY <1>9, <1>10

\* However the network cuts a tidy stream, whatever documents and text stand
\* between its messages and wherever the connection breaks: when the handler
\* goes back to the event loop it has found the messages that are complete,
\* all of them, in order, and nothing else (processBuffer, readyRead).
THEOREM TidyMessagesAreFound == Spec => [](Tidy => MessagesAreFound)
<1>1. Init => IInv /\ TextInv /\ FrameInv
  BY InitInvariant, InitText, InitFrame
<1>2. (IInv /\ TextInv /\ FrameInv) /\ [Next]_vars => (IInv /\ TextInv /\ FrameInv)'
  BY NextInvariant, StepText, StepFrame
<1>3. TextInv /\ FrameInv => (Tidy => MessagesAreFound)
  <2> SUFFICES ASSUME TextInv, FrameInv, Tidy, ~reading PROVE HeardAre(Whole(arrived))
    BY DEF MessagesAreFound
  <2>1. stream \in Streams /\ TidyStream(stream)
    BY DEF TextInv, Tidy, TidyStream
  <2>2. PICK p \in 0..Len(stream) :
           /\ EndOf(stream, p) <= arrived
           /\ HeardOf(stream, heard, Says(stream, p))
           /\ NothingWhole(stream, p, arrived)
    BY <2>1 DEF FrameInv, Framed
  <2>3. Whole(arrived) = Says(stream, p)
    <3>1. Len(stream) \in Nat /\ arrived \in Int
      <4>1. arrived \in 0..Len(Characters)
        BY DEF TextInv
      <4> QED
        BY <2>1, <4>1, PieceType
    <3>2. ASSUME NEW i \in 1..Len(stream), i <= p PROVE EndOf(stream, i) <= arrived
      <4>1. i \in 0..Len(stream) /\ p \in i..Len(stream)
        BY <3>1, <3>2
      <4>2. /\ EndOf(stream, i) <= EndOf(stream, p)
            /\ EndOf(stream, i) \in Nat /\ EndOf(stream, p) \in Nat
        BY <2>1, <4>1, PieceEnds, JoinedGrows DEF Keeps
      <4> QED
        BY <2>2, <3>1, <4>2
    <3>3. ASSUME NEW i \in 1..Len(stream), i > p, stream[i].says # NoMessage
          PROVE  ~(EndOf(stream, i) <= arrived)
      <4>1. EndOf(stream, i) > arrived /\ EndOf(stream, i) \in Nat
        <5>1. i \in 0..Len(stream)
          BY <3>1
        <5> QED
          BY <2>1, <2>2, <3>3, <5>1, PieceEnds DEF NothingWhole
      <4> QED
        BY <3>1, <4>1
    <3>4. Whole(arrived) = {i \in 1..Len(stream) : /\ EndOf(stream, i) <= arrived
                                                   /\ stream[i].says # NoMessage}
      BY DEF Whole, EndOf
    <3>5. ASSUME NEW i
          PROVE  i \in Whole(arrived) <=> i \in Says(stream, p)
      <4>1. i \in 1..p <=> i \in 1..Len(stream) /\ i <= p
        BY <3>1
      <4> QED
        BY <3>1, <3>2, <3>3, <3>4, <4>1 DEF Says
    <3> QED
      BY <3>5
  <2> QED
    BY <2>2, <2>3 DEF HeardOf, HeardAre
<1> QED
  BY <1>1, <1>2, <1>3, PTL DEF Spec

=============================================================================
