------------------------------ MODULE MCSession ------------------------------
(* Instances of Session for TLC.                                           *)
EXTENDS Session

\* The second request holds a brace and an escaped quote in a string, the
\* third a nested object.
MCText == [ver |-> <<Open, "v", Close>>,
           req1 |-> <<Open, "1", Close>>,
           req2 |-> <<Open, Quote, Close, Backslash, Quote, Open, Quote, Close>>,
           req3 |-> <<Open, Open, "3", Close, Close>>,
           ans |-> <<Open, "a", Close>>,
           bad |-> <<Open, "b", Close>>,
           end |-> <<Open, "e", Close>>]

Say(m) == [text |-> MCText[m], says |-> m]
Noise(text) == [text |-> text, says |-> NoMessage]

\* Documents that are no messages, stray characters before and between the
\* messages, and messages after the end; in the third stream a document that
\* is thrown away is followed by a stray brace.
MCStreams == {
    <<Say("ver"), Say("req2"), Noise(<<Open, Close>>),
      Say("req1"), Say("end"), Say("bad"), Say("end")>>,
    <<Noise(<<Quote, "x">>), Say("req1"), Noise(<<Close>>), Say("req3"),
      Say("ans"), Say("bad"), Noise(<<Open, Open, Close, Close>>), Say("req2")>>,
    <<Noise(<<Open, Close>>), Noise(<<Close>>), Say("req1"), Say("req3"),
      Say("ver"), Say("end")>>}
=============================================================================
