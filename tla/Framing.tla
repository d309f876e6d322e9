-------------------------------- MODULE Framing --------------------------------
(***************************************************************************)
(* How JsonProtocolHandler cuts the stream of a client into messages       *)
(* (JsonProtocolHandler::processBuffer).  The stream has no lengths and no *)
(* separators: a document ends where its braces balance outside strings.   *)
(*                                                                         *)
(* A character is a brace, a quote, a backslash or anything else.  What a  *)
(* document says is not modelled: the texts of the messages are given, and *)
(* QJsonDocument::fromJson together with the tests of "id" and "type" is   *)
(* the comparison of a document with these texts.                          *)
(***************************************************************************)
EXTENDS Integers, SequencesExt, FiniteSetsExt

CONSTANTS
    Messages,  \* what a client may say
    Text       \* Text[m]: the characters of message m

Open == "{"
Close == "}"
Quote == "\""
Backslash == "\\"

NoMessage == "no message"

-----------------------------------------------------------------------------
(* The scan of processBuffer, one character at a time.                     *)

Meaning(document) ==
    IF \E m \in Messages : Text[m] = document
      THEN CHOOSE m \in Messages : Text[m] = document
      ELSE NoMessage

\* Where the scan is: the characters read, those of them thrown away, what
\* has been found, and the counters of the document being read.
Position == [at : Nat, from : Nat, message : Messages \cup {NoMessage},
             depth : Int, inString : BOOLEAN, inEsc : BOOLEAN]
At(n, m) == [at |-> n, from |-> n, message |-> m,
             depth |-> 0, inString |-> FALSE, inEsc |-> FALSE]

Turn(ch) == CASE ch = Open -> 1 [] ch = Close -> -1 [] OTHER -> 0

\* A string ends at a quote that is not escaped, and braces count outside
\* strings.
Nesting(s, ch) ==
    [s EXCEPT !.inString = (ch = Quote /\ ~s.inEsc) # @,
              !.inEsc = s.inString /\ ch = Backslash /\ ~@,
              !.depth = IF s.inString THEN @ ELSE @ + Turn(ch)]

\* The counters after each character of a text.
Counters(text) ==
    LET step == [ch \in STRING |-> [s \in Position |-> Nesting(s, ch)]]
        counters[n \in 0..Len(text)] ==
            IF n = 0 THEN At(0, NoMessage) ELSE step[text[n]][counters[n - 1]]
    IN  counters

\* A document: its braces balance outside strings at its end and not before.
EndsAt(text, n) ==
    /\ text[n] = Close
    /\ ~Counters(text)[n - 1].inString
    /\ Counters(text)[n].depth = 0
IsDocument(text) ==
    /\ text \in Seq(STRING) /\ Len(text) > 0
    /\ text[1] = Open
    /\ \A n \in 1..Len(text) : EndsAt(text, n) <=> n = Len(text)

\* Messages are JSON objects.
ASSUME TextAssumption ==
    /\ \A m \in Messages : IsDocument(Text[m])
    /\ NoMessage \notin Messages

\* A document ends at a closing brace outside strings with which the count
\* comes to 0.  One that is no message is thrown away, and the scan goes on
\* behind it with its counters reset.
ReadChar(text, s) ==
    LET ch == text[s.at + 1]
        t == Nesting(s, ch)
        ends == ch = Close /\ ~s.inString /\ t.depth = 0
    IN  IF ends
          THEN At(s.at + 1, Meaning(SubSeq(text, s.from + 1, s.at + 1)))
          ELSE [t EXCEPT !.at = @ + 1]

\* Up to the first message or the end of the text.
Scan(text) ==
    LET step == [s \in Position |->
                   IF s.message # NoMessage THEN s ELSE ReadChar(text, s)]
        after[n \in 0..Len(text)] ==
            IF n = 0 THEN At(0, NoMessage) ELSE step[after[n - 1]]
    IN  after[Len(text)]

\* Everything before the first brace is thrown away; without a brace the
\* buffer waits for more.
SkipTrash(text) ==
    LET braces == {i \in 1..Len(text) : text[i] = Open}
    IN  SubSeq(text, Min(braces), Len(text))

\* processBuffer: at most one message, and what is left of the buffer.
ProcessBuffer(text) ==
    LET trimmed == SkipTrash(text)
        found == Scan(trimmed)
    IN  IF \E i \in 1..Len(text) : text[i] = Open
          THEN [message |-> found.message,
                rest |-> SubSeq(trimmed, found.from + 1, Len(trimmed))]
          ELSE [message |-> NoMessage, rest |-> text]
=============================================================================
