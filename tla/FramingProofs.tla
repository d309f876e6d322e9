----------------------------- MODULE FramingProofs -----------------------------
(* Proofs about Framing, for every set of messages and every text they may  *)
(* have: what the scan of processBuffer finds in a text that begins with a  *)
(* document.                                                                *)
EXTENDS Framing, SequenceTheorems, FiniteSetTheorems, TLAPS

\* A set of numbers that is not empty has a least element.  The intervals
\* 0..i are finite sets, among which inclusion is well-founded.
LEMMA LeastElement ==
    ASSUME NEW S, S \subseteq Nat, S # {}
    PROVE  Min(S) \in S /\ \A j \in S : Min(S) <= j
<1> DEFINE T == {0..i : i \in S}
<1>1. T \subseteq FiniteSubsetsOf(Nat)
  <2>1. \A i \in Nat : IsFiniteSet(0..i)
    BY FS_Interval
  <2> QED
    BY <2>1 DEF FiniteSubsetsOf
<1>2. T # {}
  OBVIOUS
<1>3. \E x \in T : \A y \in T : ~(<<y, x>> \in StrictSubsetOrdering(Nat))
  <2> HIDE DEF T
  <2> QED
    BY <1>1, <1>2, FS_StrictSubsetOrderingWellFounded, WFMin
<1>4. PICK i \in S : \A j \in S :
          ~(<<0..j, 0..i>> \in StrictSubsetOrdering(Nat))
  BY <1>3
<1>5. \A j \in S : i =< j
  <2> SUFFICES ASSUME NEW j \in S, j < i PROVE FALSE
    OBVIOUS
  <2>1. 0..j \subseteq 0..i /\ 0..j # 0..i /\ 0..j \subseteq Nat /\ 0..i \subseteq Nat
    <3>1. i \in 0..i /\ i \notin 0..j
      OBVIOUS
    <3> QED
      BY <3>1
  <2> QED
    BY <1>4, <2>1 DEF StrictSubsetOrdering
<1> QED
  BY <1>5 DEF Min

Steps(S) == [Nat -> [S -> S]]

\* f goes on from a in n steps.
Iterates(f, a, step, n) ==
    f[0] = a /\ \A i \in 1..n : f[i] = step[i][f[i - 1]]

\* There is such a function for every n: the first number for which there is
\* none would follow one for which there is.
LEMMA Iteration ==
    ASSUME NEW n \in Nat, NEW S, NEW a \in S, NEW step \in Steps(S)
    PROVE  \E f \in [0..n -> S] : Iterates(f, a, step, n)
<1> USE DEF Steps, Iterates
<1> DEFINE bad == {m \in Nat : ~\E f \in [0..m -> S] : Iterates(f, a, step, m)}
<1>1. SUFFICES bad = {}
  OBVIOUS
<1>2. SUFFICES ASSUME bad # {} PROVE FALSE
  OBVIOUS
<1>3. PICK m \in bad : \A j \in bad : m <= j
  <2>1. bad \subseteq Nat
    OBVIOUS
  <2> HIDE DEF bad
  <2> QED
    BY <1>2, <2>1, LeastElement
<1>4. m \in Nat /\ ~\E f \in [0..m -> S] : Iterates(f, a, step, m)
  OBVIOUS
<1>5. m # 0
  <2> HIDE DEF bad
  <2> SUFFICES ASSUME m = 0 PROVE FALSE
    OBVIOUS
  <2>1. [i \in 0..0 |-> a] \in [0..0 -> S] /\ Iterates([i \in 0..0 |-> a], a, step, 0)
    OBVIOUS
  <2> QED
    BY <1>4, <2>1
<1>6. PICK f \in [0..(m - 1) -> S] : Iterates(f, a, step, m - 1)
  <2>1. m - 1 \in Nat /\ m - 1 \notin bad
    <3> HIDE DEF bad
    <3>1. m - 1 \in Nat /\ ~(m <= m - 1)
      BY <1>4, <1>5
    <3> QED
      BY <1>3, <3>1
  <2> QED
    BY <2>1
<1> DEFINE g == [i \in 0..m |-> IF i = m THEN step[m][f[m - 1]] ELSE f[i]]
<1>7. step[m][f[m - 1]] \in S
  <2>1. f[m - 1] \in S
    BY <1>4, <1>5
  <2> QED
    BY <1>4, <2>1
<1>8. g \in [0..m -> S]
  BY <1>4, <1>7
<1>9. Iterates(g, a, step, m)
  <2>1. g[0] = a
    BY <1>4, <1>5, <1>6
  <2>2. ASSUME NEW i \in 1..m PROVE g[i] = step[i][g[i - 1]]
    <3>1. i - 1 \in 0..m /\ i - 1 # m /\ g[i - 1] = f[i - 1]
      BY <1>4
    <3>2. CASE i = m
      BY <1>4, <3>1, <3>2
    <3>3. CASE i # m
      <4>1. i \in 1..(m - 1)
        BY <1>4, <3>3
      <4>2. f[i] = step[i][f[i - 1]]
        BY <1>6, <4>1
      <4> QED
        BY <1>4, <3>1, <3>3, <4>2
    <3> QED
      BY <3>2, <3>3
  <2> QED
    BY <2>1, <2>2
<1> QED
  BY <1>4, <1>8, <1>9

\* A function that is given by its first value and its step keeps in S what
\* the step keeps in S.
LEMMA IterationStays ==
    ASSUME NEW n \in Nat, NEW S, NEW f, f[0] \in S,
           \A i \in 1..n : f[i - 1] \in S => f[i] \in S
    PROVE  f[n] \in S
<1> DEFINE bad == {i \in 0..n : f[i] \notin S}
<1> SUFFICES ASSUME bad # {} PROVE FALSE
  OBVIOUS
<1>1. PICK m \in bad : \A j \in bad : m <= j
  <2>1. bad \subseteq Nat
    OBVIOUS
  <2> HIDE DEF bad
  <2> QED
    BY <2>1, LeastElement
<1>2. m \in 1..n
  OBVIOUS
<1>3. m - 1 \in 0..n /\ m - 1 \notin bad
  BY <1>1, <1>2
<1> QED
  BY <1>2, <1>3

\* Induction, of a set instead of a property.
LEMMA Climbing ==
    ASSUME NEW n \in Nat, NEW P, 0 \in P, \A i \in 1..n : i - 1 \in P => i \in P
    PROVE  0..n \subseteq P
<1> DEFINE bad == {i \in 0..n : i \notin P}
<1> SUFFICES ASSUME bad # {} PROVE FALSE
  OBVIOUS
<1>1. PICK m \in bad : \A j \in bad : m <= j
  <2>1. bad \subseteq Nat
    OBVIOUS
  <2> HIDE DEF bad
  <2> QED
    BY <2>1, LeastElement
<1>2. m \in 1..n
  OBVIOUS
<1>3. m - 1 \in 0..n /\ m - 1 \notin bad
  BY <1>1, <1>2
<1> QED
  BY <1>2, <1>3

\* What a document says is a message or nothing.
LEMMA MeaningType ==
    ASSUME NEW document
    PROVE  Meaning(document) \in Messages \cup {NoMessage}
<1>1. CASE \E m \in Messages : Text[m] = document
  BY <1>1 DEF Meaning
<1>2. CASE ~\E m \in Messages : Text[m] = document
  BY <1>2 DEF Meaning
<1> QED
  BY <1>1, <1>2

\* What a character does to the counters.
LEMMA NestingType ==
    ASSUME NEW s \in Position, NEW ch
    PROVE  /\ Nesting(s, ch) \in Position
           /\ Nesting(s, ch).at = s.at
           /\ Nesting(s, ch).from = s.from
           /\ Nesting(s, ch).message = s.message
<1>1. Turn(ch) \in Int
  BY DEF Turn
<1> DEFINE quoted == (ch = Quote /\ ~s.inEsc) # s.inString
           escaped == s.inString /\ ch = Backslash /\ ~s.inEsc
           depth == IF s.inString THEN s.depth ELSE s.depth + Turn(ch)
<1>2. quoted \in BOOLEAN /\ escaped \in BOOLEAN
  OBVIOUS
<1>3. depth \in Int
  BY <1>1 DEF Position
<1>4. Nesting(s, ch) = [s EXCEPT !.inString = quoted, !.inEsc = escaped, !.depth = depth]
  BY DEF Nesting
<1> HIDE DEF quoted, escaped, depth
<1> QED
  BY <1>2, <1>3, <1>4 DEF Position

\* The scan goes from position to position, whatever it reads.
LEMMA ReadCharType ==
    ASSUME NEW text, NEW s \in Position
    PROVE  ReadChar(text, s) \in Position
<1> DEFINE ch == text[s.at + 1]
           t == Nesting(s, ch)
           ends == ch = Close /\ ~s.inString /\ t.depth = 0
           m == Meaning(SubSeq(text, s.from + 1, s.at + 1))
<1>1. t \in Position
  BY NestingType
<1>2. m \in Messages \cup {NoMessage}
  BY MeaningType
<1>3. ReadChar(text, s) = IF ends THEN At(s.at + 1, m) ELSE [t EXCEPT !.at = @ + 1]
  BY DEF ReadChar
<1> HIDE DEF ch, t, m, ends
<1>4. At(s.at + 1, m) \in Position
  BY <1>2 DEF At, Position
<1>5. [t EXCEPT !.at = @ + 1] \in Position
  BY <1>1 DEF Position
<1> QED
  BY <1>3, <1>4, <1>5

\* Where the scan is after each character.
After(text) ==
    LET step == [s \in Position |->
                   IF s.message # NoMessage THEN s ELSE ReadChar(text, s)]
        after[n \in 0..Len(text)] ==
            IF n = 0 THEN At(0, NoMessage) ELSE step[after[n - 1]]
    IN  after

\* It begins at the first character, and each character is read once.
LEMMA AfterFacts ==
    ASSUME NEW text, Len(text) \in Nat
    PROVE  /\ Scan(text) = After(text)[Len(text)]
           /\ After(text)[0] = At(0, NoMessage)
           /\ \A n \in 0..Len(text) : After(text)[n] \in Position
           /\ \A n \in 1..Len(text) :
                After(text)[n] =
                    IF After(text)[n - 1].message # NoMessage
                      THEN After(text)[n - 1]
                      ELSE ReadChar(text, After(text)[n - 1])
<1> DEFINE step == [s \in Position |->
                      IF s.message # NoMessage THEN s ELSE ReadChar(text, s)]
           Values(f) == [n \in 0..Len(text) |->
                           IF n = 0 THEN At(0, NoMessage) ELSE step[f[n - 1]]]
           after == CHOOSE f : f = Values(f)
<1>1. Scan(text) = after[Len(text)] /\ After(text) = after
  BY DEF Scan, After
<1>2. step \in [Position -> Position]
  BY ReadCharType
<1>3. At(0, NoMessage) \in Position
  BY DEF At, Position
<1>4. \E f : f = Values(f)
  <2> DEFINE steps == [i \in Nat |-> step]
  <2>1. steps \in Steps(Position)
    <3> HIDE DEF step
    <3> QED
      BY <1>2 DEF Steps
  <2>2. PICK f \in [0..Len(text) -> Position] :
           f[0] = At(0, NoMessage)
           /\ \A i \in 1..Len(text) : f[i] = steps[i][f[i - 1]]
    <3> DEFINE start == At(0, NoMessage)
               last == Len(text)
    <3>1. start \in Position /\ last \in Nat
      BY <1>3
    <3> HIDE DEF steps, step, Values, after, start, last
    <3>2. \E f \in [0..last -> Position] : Iterates(f, start, steps, last)
      BY <2>1, <3>1, Iteration
    <3> QED
      BY <3>2 DEF start, last, Iterates
  <2> HIDE DEF step
  <2>3. ASSUME NEW i \in 1..Len(text) PROVE f[i] = step[f[i - 1]]
    <3>1. f[i - 1] \in Position /\ i \in Nat
      OBVIOUS
    <3> QED
      BY <2>2, <3>1
  <2>4. ASSUME NEW i \in 0..Len(text) PROVE f[i] = Values(f)[i]
    BY <2>2, <2>3
  <2>5. f = Values(f)
    BY <2>4
  <2> QED
    BY <2>5
<1>5. after = Values(after)
  BY <1>4
<1> HIDE DEF after
<1>6. ASSUME NEW n \in 0..Len(text) PROVE after[n] \in Position
  <2> HIDE DEF step
  <2>1. after[0] \in Position
    BY <1>3, <1>5
  <2>2. ASSUME NEW i \in 1..n, after[i - 1] \in Position
        PROVE  after[i] \in Position
    BY <1>2, <1>5, <2>2
  <2> QED
    BY <2>1, <2>2, IterationStays
<1>7. after[0] = At(0, NoMessage)
  BY <1>5
<1>8. ASSUME NEW n \in 1..Len(text)
      PROVE  after[n] = IF after[n - 1].message # NoMessage
                          THEN after[n - 1] ELSE ReadChar(text, after[n - 1])
  <2>1. after[n] = step[after[n - 1]]
    <3> HIDE DEF step
    <3> QED
      BY <1>5
  <2>2. after[n - 1] \in Position
    <3> HIDE DEF step
    <3> QED
      BY <1>6
  <2> QED
    BY <2>1, <2>2
<1> QED
  BY <1>1, <1>6, <1>7, <1>8

\* processBuffer scans to a position.
LEMMA ScanType ==
    ASSUME NEW text, Len(text) \in Nat
    PROVE  Scan(text) \in Position
  BY AfterFacts

\* What is found stays found.
LEMMA ScanStops ==
    ASSUME NEW text, Len(text) \in Nat, NEW n \in 0..Len(text),
           After(text)[n].message # NoMessage
    PROVE  Scan(text) = After(text)[n]
<1> DEFINE after == After(text)
           rest == [i \in 0..(Len(text) - n) |-> after[n + i]]
           S == {after[n]}
<1>1. rest[0] \in S
  OBVIOUS
<1>2. ASSUME NEW i \in 1..(Len(text) - n), rest[i - 1] \in S PROVE rest[i] \in S
  <2>1. /\ rest[i - 1] = after[n + i - 1] /\ rest[i] = after[n + i]
        /\ (n + i) - 1 = n + i - 1 /\ n + (i - 1) = n + i - 1 /\ n + i \in 1..Len(text)
    OBVIOUS
  <2> QED
    BY <1>2, <2>1, AfterFacts
<1>3. rest[Len(text) - n] \in S
  <2> HIDE DEF rest, S
  <2>1. Len(text) - n \in Nat
    OBVIOUS
  <2> QED
    BY <1>1, <1>2, <2>1, IterationStays
<1>4. rest[Len(text) - n] = after[Len(text)]
  <2>1. n + (Len(text) - n) = Len(text) /\ Len(text) - n \in 0..(Len(text) - n)
    OBVIOUS
  <2> HIDE DEF after
  <2> QED
    BY <2>1
<1> QED
  BY <1>3, <1>4, AfterFacts

\* The counters are those of the characters so far.
LEMMA CountersFacts ==
    ASSUME NEW text \in Seq(STRING)
    PROVE  /\ Counters(text)[0] = At(0, NoMessage)
           /\ \A n \in 1..Len(text) :
                Counters(text)[n] = Nesting(Counters(text)[n - 1], text[n])
           /\ \A n \in 0..Len(text) : Counters(text)[n] \in Position
<1> DEFINE step == [ch \in STRING |-> [s \in Position |-> Nesting(s, ch)]]
           Values(f) == [n \in 0..Len(text) |->
                           IF n = 0 THEN At(0, NoMessage)
                                    ELSE step[text[n]][f[n - 1]]]
           counters == CHOOSE f : f = Values(f)
           last == Len(text)
<1>1. Counters(text) = counters
  BY DEF Counters
<1>2. last \in Nat /\ \A n \in 1..last : text[n] \in STRING
  OBVIOUS
<1>3. At(0, NoMessage) \in Position
  BY DEF At, Position
<1>4. \A s \in Position, ch \in STRING :
          step[ch][s] = Nesting(s, ch) /\ step[ch][s] \in Position
  BY NestingType
<1> HIDE DEF step
<1>5. \E f : f = Values(f)
  <2> DEFINE steps == [i \in Nat |-> [s \in Position |->
                         IF i \in 1..last THEN step[text[i]][s] ELSE s]]
             start == At(0, NoMessage)
  <2>1. steps \in Steps(Position)
    <3>1. ASSUME NEW i \in Nat, NEW s \in Position
          PROVE  (IF i \in 1..last THEN step[text[i]][s] ELSE s) \in Position
      <4> HIDE DEF last
      <4> QED
        BY <1>2, <1>4
    <3> HIDE DEF last
    <3> QED
      BY <3>1 DEF Steps
  <2>2. PICK f \in [0..last -> Position] : Iterates(f, start, steps, last)
    <3> HIDE DEF steps, start, last, Values, counters
    <3>1. start \in Position
      BY <1>3 DEF start
    <3> QED
      BY <1>2, <2>1, <3>1, Iteration
  <2>3. ASSUME NEW i \in 1..last PROVE f[i] = step[text[i]][f[i - 1]]
    <3>1. f[i - 1] \in Position /\ i \in Nat /\ i \in 1..last
      BY <1>2
    <3>2. f[i] = steps[i][f[i - 1]]
      <4> HIDE DEF steps, last
      <4> QED
        BY <2>2 DEF Iterates
    <3> HIDE DEF last
    <3> QED
      BY <3>1, <3>2
  <2>4. f[0] = At(0, NoMessage)
    BY <2>2 DEF Iterates
  <2> HIDE DEF steps
  <2>5. ASSUME NEW i \in 0..last PROVE f[i] = Values(f)[i]
    BY <1>2, <2>3, <2>4
  <2>6. f = Values(f)
    BY <2>5
  <2> QED
    BY <2>6
<1>6. counters = Values(counters)
  BY <1>5
<1> HIDE DEF counters
<1>7. counters[0] = At(0, NoMessage)
  BY <1>2, <1>6
<1>8. \A n \in 1..last : counters[n] = step[text[n]][counters[n - 1]]
  BY <1>2, <1>6
<1>9. ASSUME NEW n \in 0..last PROVE counters[n] \in Position
  <2>1. ASSUME NEW i \in 1..n, counters[i - 1] \in Position
        PROVE  counters[i] \in Position
    <3>1. i \in 1..last
      BY <1>2
    <3> HIDE DEF last
    <3> QED
      BY <1>2, <1>4, <1>8, <2>1, <3>1
  <2> HIDE DEF last
  <2>2. n \in Nat /\ counters[0] \in Position
    BY <1>2, <1>3, <1>7
  <2> QED
    BY <2>1, <2>2, IterationStays
<1>10. ASSUME NEW n \in 1..last
       PROVE  counters[n] = Nesting(counters[n - 1], text[n])
  <2>1. n - 1 \in 0..last
    BY <1>2
  <2> HIDE DEF last
  <2> QED
    BY <1>2, <1>4, <1>8, <1>9, <2>1
<1> QED
  BY <1>1, <1>7, <1>9, <1>10

\* It finds a message or nothing, and what it leaves is no longer than what
\* it was given.
LEMMA ProcessBufferType ==
    ASSUME NEW text \in Seq(STRING)
    PROVE  /\ ProcessBuffer(text).message \in Messages \cup {NoMessage}
           /\ ProcessBuffer(text).rest \in Seq(STRING)
           /\ Len(ProcessBuffer(text).rest) <= Len(text)
<1>1. CASE ~\E i \in 1..Len(text) : text[i] = Open
  BY <1>1 DEF ProcessBuffer
<1>2. CASE \E i \in 1..Len(text) : text[i] = Open
  <2> DEFINE braces == {i \in 1..Len(text) : text[i] = Open}
             trimmed == SkipTrash(text)
             found == Scan(trimmed)
  <2>1. ProcessBuffer(text) =
           [message |-> found.message,
            rest |-> SubSeq(trimmed, found.from + 1, Len(trimmed))]
    BY <1>2 DEF ProcessBuffer
  <2>2. Min(braces) \in 1..Len(text)
    <3>1. braces \subseteq Nat /\ braces # {} /\ braces \subseteq 1..Len(text)
      BY <1>2
    <3> HIDE DEF braces
    <3> QED
      BY <3>1, LeastElement
  <2>3. trimmed = SubSeq(text, Min(braces), Len(text))
    BY DEF SkipTrash
  <2>4. trimmed \in Seq(STRING) /\ Len(trimmed) \in Nat /\ Len(trimmed) <= Len(text)
    <3> HIDE DEF braces
    <3> QED
      BY <2>2, <2>3
  <2> HIDE DEF trimmed, braces
  <2>5. found \in Position
    BY <2>4, ScanType
  <2>6. found.message \in Messages \cup {NoMessage} /\ found.from \in Nat
    BY <2>5 DEF Position
  <2> HIDE DEF found
  <2>7. /\ SubSeq(trimmed, found.from + 1, Len(trimmed)) \in Seq(STRING)
        /\ Len(SubSeq(trimmed, found.from + 1, Len(trimmed))) <= Len(trimmed)
    BY <2>4, <2>6
  <2> QED
    BY <2>1, <2>4, <2>6, <2>7
<1> QED
  BY <1>1, <1>2

\* A document that begins where the scan is: s.at characters into the text,
\* with nothing read of it yet; i characters of it have been read.
Placed(c, at, from) == [c EXCEPT !.at = at, !.from = from]
Inside(document, f, i) == Placed(Counters(document)[i], f + i, f)

\* Counting does not find a message.
LEMMA CountersFindNothing ==
    ASSUME NEW text \in Seq(STRING), NEW n \in 0..Len(text)
    PROVE  Counters(text)[n].message = NoMessage
<1> DEFINE P == {i \in 0..Len(text) : Counters(text)[i].message = NoMessage}
<1>1. 0 \in P
  BY CountersFacts DEF At
<1>2. ASSUME NEW i \in 1..Len(text), i - 1 \in P PROVE i \in P
  <2>1. /\ Counters(text)[i] = Nesting(Counters(text)[i - 1], text[i])
        /\ Counters(text)[i - 1] \in Position
    BY CountersFacts
  <2>2. Counters(text)[i].message = Counters(text)[i - 1].message
    BY <2>1, NestingType
  <2> QED
    BY <1>2, <2>2
<1>3. 0..Len(text) \subseteq P
  <2> HIDE DEF P
  <2>1. Len(text) \in Nat
    OBVIOUS
  <2> QED
    BY <1>1, <1>2, <2>1, Climbing
<1> QED
  BY <1>3

\* One character of a document.
LEMMA ReadCharInside ==
    ASSUME NEW text, NEW c \in Position, NEW at \in Nat, NEW from \in Nat
    PROVE  ReadChar(text, Placed(c, at, from)) =
             IF /\ text[at + 1] = Close
                /\ ~c.inString
                /\ Nesting(c, text[at + 1]).depth = 0
               THEN At(at + 1, Meaning(SubSeq(text, from + 1, at + 1)))
               ELSE Placed(Nesting(c, text[at + 1]), at + 1, from)
<1> DEFINE s == Placed(c, at, from)
           ch == text[at + 1]
<1>1. s \in Position /\ s.at = at /\ s.from = from /\ s.inString = c.inString
  BY DEF Placed, Position
<1>2. Nesting(s, ch) = Placed(Nesting(c, ch), at, from)
  BY DEF Placed, Nesting, Position
<1>3. Nesting(c, ch) \in Position
  BY NestingType
<1>4. /\ Nesting(s, ch).depth = Nesting(c, ch).depth
      /\ [Nesting(s, ch) EXCEPT !.at = @ + 1] =
           Placed(Nesting(c, ch), at + 1, from)
  BY <1>2, <1>3 DEF Placed, Position
<1> HIDE DEF s, ch
<1>5. ReadChar(text, s) =
        IF text[s.at + 1] = Close /\ ~s.inString /\ Nesting(s, text[s.at + 1]).depth = 0
          THEN At(s.at + 1, Meaning(SubSeq(text, s.from + 1, s.at + 1)))
          ELSE [Nesting(s, text[s.at + 1]) EXCEPT !.at = @ + 1]
  BY DEF ReadChar
<1>6. text[s.at + 1] = ch
  BY <1>1 DEF ch
<1>7. ReadChar(text, s) =
        IF ch = Close /\ ~c.inString /\ Nesting(c, ch).depth = 0
          THEN At(at + 1, Meaning(SubSeq(text, from + 1, at + 1)))
          ELSE Placed(Nesting(c, ch), at + 1, from)
  BY <1>1, <1>4, <1>5, <1>6
<1> QED
  BY <1>7 DEF s, ch

\* The text goes on with a document, or with the beginning of one.
GoesOnWith(text, f, document) ==
    \A k \in 1..Len(document) : f + k <= Len(text) => text[f + k] = document[k]

\* Within a document the scan has its counters, and nothing is found.
LEMMA ScanInside ==
    ASSUME NEW text \in Seq(STRING), NEW f \in 0..Len(text),
           After(text)[f] = At(f, NoMessage),
           NEW document, IsDocument(document), GoesOnWith(text, f, document),
           NEW k \in 0..(Len(document) - 1), f + k <= Len(text)
    PROVE  After(text)[f + k] = Inside(document, f, k)
<1> DEFINE P == {i \in 0..k : After(text)[f + i] = Inside(document, f, i)}
<1>1. document \in Seq(STRING) /\ Len(document) \in Nat /\ Len(text) \in Nat
  BY DEF IsDocument
<1>2. 0 \in P
  <2>1. Counters(document)[0] = At(0, NoMessage)
    BY <1>1, CountersFacts
  <2>2. Inside(document, f, 0) = At(f, NoMessage)
    <3>1. f + 0 = f
      BY <1>1
    <3>2. Inside(document, f, 0) = Placed(At(0, NoMessage), f, f)
      BY <2>1, <3>1 DEF Inside
    <3>3. Placed(At(0, NoMessage), f, f) = At(f, NoMessage)
      <4> DEFINE start == At(0, NoMessage)
                 here == At(f, NoMessage)
      <4>1. start \in Position /\ here \in Position
        BY <1>1 DEF At, Position
      <4>2. /\ here.at = f /\ here.from = f /\ here.message = start.message
            /\ here.depth = start.depth /\ here.inString = start.inString
            /\ here.inEsc = start.inEsc
        BY DEF At
      <4> HIDE DEF start, here
      <4>3. Placed(start, f, f) = here
        BY <4>1, <4>2 DEF Placed, Position
      <4> QED
        BY <4>3 DEF start, here
    <3> QED
      BY <3>2, <3>3
  <2> QED
    BY <2>2
<1>3. ASSUME NEW i \in 1..k, i - 1 \in P PROVE i \in P
  <2> DEFINE c == Counters(document)[i - 1]
             s == After(text)[f + (i - 1)]
  <2>1. i - 1 \in 0..Len(document) /\ i \in 1..Len(document) /\ i # Len(document)
    BY <1>1
  <2>2. /\ c \in Position /\ c.message = NoMessage
        /\ Counters(document)[i] = Nesting(c, document[i])
    BY <1>1, <2>1, CountersFacts, CountersFindNothing
  <2> HIDE DEF c
  <2>3. s = Placed(c, f + (i - 1), f)
    BY <1>3 DEF Inside, c
  <2>4. /\ f + i \in 1..Len(text) /\ (f + i) - 1 = f + (i - 1)
        /\ (f + (i - 1)) + 1 = f + i /\ f + (i - 1) \in Nat /\ f \in Nat
    BY <1>1
  <2>5. After(text)[f + i] = IF s.message # NoMessage THEN s ELSE ReadChar(text, s)
    BY <1>1, <2>4, AfterFacts
  <2> HIDE DEF s
  <2>6. s.message = NoMessage
    BY <2>2, <2>3 DEF Position, Placed
  <2>7. text[f + i] = document[i]
    BY <2>1, <2>4 DEF GoesOnWith
  <2>8. ~EndsAt(document, i)
    BY <2>1 DEF IsDocument
  <2>9. ~(document[i] = Close /\ ~c.inString /\ Nesting(c, document[i]).depth = 0)
    BY <2>2, <2>8 DEF EndsAt, c
  <2>10. ReadChar(text, s) = Placed(Nesting(c, document[i]), f + i, f)
    <3> DEFINE at == f + (i - 1)
    <3>1. at \in Nat /\ at + 1 = f + i /\ s = Placed(c, at, f)
      BY <2>3, <2>4
    <3> HIDE DEF at
    <3>2. ReadChar(text, Placed(c, at, f)) =
            IF /\ text[at + 1] = Close
               /\ ~c.inString
               /\ Nesting(c, text[at + 1]).depth = 0
              THEN At(at + 1, Meaning(SubSeq(text, f + 1, at + 1)))
              ELSE Placed(Nesting(c, text[at + 1]), at + 1, f)
      BY <2>2, <2>4, <3>1, ReadCharInside
    <3> QED
      BY <2>7, <2>9, <3>1, <3>2
  <2>11. After(text)[f + i] = Inside(document, f, i)
    BY <2>2, <2>5, <2>6, <2>10 DEF Inside
  <2> QED
    BY <2>11
<1>4. k \in P
  <2> HIDE DEF P
  <2>1. k \in Nat /\ k \in 0..k
    BY <1>1
  <2> QED
    BY <1>2, <1>3, <2>1, Climbing
<1> QED
  BY <1>4

\* At the end of a document the scan knows what it says and starts afresh.
LEMMA ScanDocument ==
    ASSUME NEW text \in Seq(STRING), NEW f \in 0..Len(text),
           After(text)[f] = At(f, NoMessage),
           NEW document, IsDocument(document), GoesOnWith(text, f, document),
           f + Len(document) <= Len(text)
    PROVE  After(text)[f + Len(document)] = At(f + Len(document), Meaning(document))
<1> DEFINE last == Len(document)
           c == Counters(document)[last - 1]
           s == After(text)[f + (last - 1)]
<1>1. document \in Seq(STRING) /\ last \in Nat /\ last > 0 /\ Len(text) \in Nat
  BY DEF IsDocument
<1>2. /\ last - 1 \in 0..last /\ last - 1 \in 0..(last - 1) /\ last \in 1..last
      /\ f + (last - 1) \in Nat /\ f + last \in 1..Len(text) /\ f \in Nat
      /\ (f + (last - 1)) + 1 = f + last /\ (f + last) - 1 = f + (last - 1)
      /\ f + (last - 1) <= Len(text)
  <2> HIDE DEF last
  <2>1. f + last <= Len(text)
    BY DEF last
  <2> QED
    BY <1>1, <2>1
<1>3. s = Placed(c, f + (last - 1), f)
  <2> DEFINE k == last - 1
  <2>1. k \in 0..(Len(document) - 1) /\ f + k <= Len(text)
    BY <1>2
  <2> HIDE DEF k
  <2>2. After(text)[f + k] = Inside(document, f, k)
    BY <2>1, ScanInside
  <2> QED
    BY <2>2 DEF k, Inside
<1>4. /\ c \in Position /\ c.message = NoMessage
      /\ Counters(document)[last] = Nesting(c, document[last])
  BY <1>1, <1>2, CountersFacts, CountersFindNothing
<1>5. EndsAt(document, last)
  BY <1>2 DEF IsDocument
<1>6. document[last] = Close /\ ~c.inString /\ Nesting(c, document[last]).depth = 0
  BY <1>4, <1>5 DEF EndsAt
<1>7. text[f + last] = document[last]
  BY <1>2 DEF GoesOnWith
<1>8. SubSeq(text, f + 1, f + last) = document
  <2> DEFINE part == SubSeq(text, f + 1, f + last)
  <2>1. /\ part \in Seq(STRING) /\ Len(part) = last
        /\ \A k \in 1..last : part[k] = text[f + k]
    <3> HIDE DEF last
    <3> QED
      BY <1>1, <1>2
  <2>2. ASSUME NEW k \in 1..last PROVE part[k] = document[k]
    <3>1. text[f + k] = document[k]
      <4>1. f + k <= Len(text)
        BY <1>1, <1>2
      <4> QED
        BY <4>1 DEF GoesOnWith
    <3> HIDE DEF part
    <3> QED
      BY <2>1, <3>1
  <2> HIDE DEF part
  <2>3. Len(part) = Len(document) /\ \A k \in 1..Len(part) : part[k] = document[k]
    BY <2>1, <2>2
  <2>4. document \in Seq(STRING) /\ part \in Seq(STRING)
    BY <1>1, <2>1
  <2> HIDE DEF last
  <2>5. part = document
    BY <2>3, <2>4, SeqEqual
  <2> QED
    BY <2>5 DEF part
<1>9. After(text)[f + last] = IF s.message # NoMessage THEN s ELSE ReadChar(text, s)
  BY <1>1, <1>2, AfterFacts
<1> HIDE DEF s, c, last
<1>10. s.message = NoMessage
  BY <1>3, <1>4 DEF Position, Placed
<1>11. ReadChar(text, s) = At(f + last, Meaning(document))
  <2> DEFINE at == f + (last - 1)
  <2>1. at \in Nat /\ at + 1 = f + last /\ s = Placed(c, at, f)
    BY <1>2, <1>3
  <2> HIDE DEF at
  <2>2. ReadChar(text, Placed(c, at, f)) =
          IF /\ text[at + 1] = Close
             /\ ~c.inString
             /\ Nesting(c, text[at + 1]).depth = 0
            THEN At(at + 1, Meaning(SubSeq(text, f + 1, at + 1)))
            ELSE Placed(Nesting(c, text[at + 1]), at + 1, f)
    BY <1>2, <1>4, <2>1, ReadCharInside
  <2> QED
    BY <1>6, <1>7, <1>8, <2>1, <2>2
<1> QED
  BY <1>9, <1>10, <1>11 DEF last

\* A text that ends within a document is scanned to its end; nothing is found
\* in it, and the document is kept.
LEMMA ScanUnfinished ==
    ASSUME NEW text \in Seq(STRING), NEW f \in 0..Len(text),
           After(text)[f] = At(f, NoMessage),
           NEW document, IsDocument(document), GoesOnWith(text, f, document),
           f + Len(document) > Len(text)
    PROVE  Scan(text).message = NoMessage /\ Scan(text).from = f
<1> DEFINE k == Len(text) - f
<1>1. document \in Seq(STRING) /\ Len(document) \in Nat /\ Len(text) \in Nat
  BY DEF IsDocument
<1>2. k \in 0..(Len(document) - 1) /\ f + k = Len(text) /\ k \in 0..Len(document)
  BY <1>1
<1> HIDE DEF k
<1>3. Scan(text) = Inside(document, f, k)
  <2>1. After(text)[f + k] = Inside(document, f, k)
    BY <1>2, ScanInside
  <2> QED
    BY <1>1, <1>2, <2>1, AfterFacts
<1>4. Counters(document)[k] \in Position /\ Counters(document)[k].message = NoMessage
  BY <1>1, <1>2, CountersFacts, CountersFindNothing
<1> QED
  BY <1>3, <1>4 DEF Inside, Placed, Position


\* What stands before the first opening brace is skipped.
LEMMA TrashSkipped ==
    ASSUME NEW text \in Seq(STRING), NEW n \in Nat, n < Len(text),
           text[n + 1] = Open, \A i \in 1..n : text[i] # Open
    PROVE  /\ \E i \in 1..Len(text) : text[i] = Open
           /\ SkipTrash(text) = SubSeq(text, n + 1, Len(text))
<1> DEFINE braces == {i \in 1..Len(text) : text[i] = Open}
<1>1. n + 1 \in braces
  OBVIOUS
<1>2. Min(braces) \in braces /\ \A j \in braces : Min(braces) <= j
  <2>1. braces \subseteq Nat
    OBVIOUS
  <2> HIDE DEF braces
  <2> QED
    BY <1>1, <2>1, LeastElement
<1>3. Min(braces) \in 1..Len(text) /\ text[Min(braces)] = Open /\ Min(braces) <= n + 1
  BY <1>1, <1>2
<1>4. Min(braces) = n + 1
  <2> HIDE DEF braces
  <2>1. Min(braces) \notin 1..n
    BY <1>3
  <2> QED
    BY <1>3, <2>1
<1> QED
  BY <1>1, <1>4 DEF SkipTrash

=============================================================================
