------------------------------ MODULE MCLuaCalls ------------------------------
(* Instances of LuaCalls for TLC.                                          *)
EXTENDS LuaValues

Number == Atom("number")
Scalars == {Number, Atom(Power), Null}

\* Values of one level above those of S.
Lists(S) == {List(s) : s \in UNION {[1..n -> S] : n \in 0..2}}
Maps(S) == {Map(f) : f \in UNION {[K -> S] : K \in SUBSET {"a", "b"}}}
Nested == {List(<<Number, Map([a |-> List(<<Number, Null, Number>>)])>>),
           Map([a |-> List(<<Map([b |-> Number])>>), b |-> Map(<< >>)])}
\* What changes on its way, also inside of something and as the name of a field.
Fragile == {Big, WithNul, Foreign}
Changing == {Atom(x) : x \in Fragile}
            \cup {List(<<Atom(x), Number>>) : x \in Fragile}
            \cup {Map((x :> Number) @@ [a |-> List(<<Atom(x)>>)]) :
                      x \in {WithNul, Foreign}}
Values == Scalars \cup Lists(Scalars) \cup Maps(Scalars) \cup Nested
          \cup Changing

MCArguments == {<< >>, <<BridgeCallable, Number>>}
               \cup {<<v>> : v \in Values}
               \cup {<<v, Null, Number>> : v \in Nested}

\* Tables of Lua: with holes, mixed, and with a function at several depths.
Tables == {Table(<< >>, << >>), Table(<<Number, Number>>, << >>),
           Table(<<Number, Function>>, << >>),
           Table((2 :> Number), << >>),
           Table(<<Number>>, [a |-> Number]),
           Table(<< >>, [a |-> Number, b |-> Table(<<Atom("text")>>, << >>)]),
           Table(<<Atom(Undefined), Atom(WithNul)>>, << >>),
           Table(<<Atom(Big)>>, (Undefined :> Number) @@ (WithNul :> Number))}
WithObjects == {CallTarget, Table(<<CallTarget>>, << >>),
                Table(<< >>, [a |-> CallTarget, b |-> Table(<<Function>>, << >>)])}
MCReturns == {<< >>, <<Number, Atom(Power)>>, <<Nil, Number, Nil>>}
             \cup {<<t>> : t \in WithObjects}
             \cup {<<t, Number>> : t \in Tables}
MCAnswers == {Null, Number, Map([a |-> Number]),
              List([i \in 1..12 |-> Number])}

\* All that these calls bring to either side, and the text of a failure.
MCVariants == UNION {Image(args) : args \in MCArguments}
MCCells == {CallTarget, Function, Atom("text")} \cup {PushVariant(v) : v \in MCVariants}
           \cup UNION {Image(list) : list \in MCReturns}
=============================================================================
