------------------------------- MODULE LuaValues -------------------------------
(***************************************************************************)
(* The conversions of quikcoast.cpp between QVariant, as it comes from and *)
(* goes into JSON, and the values of Lua: pushVariantToLuaStack and        *)
(* extractValueFromLuaStack.                                               *)
(*                                                                         *)
(* Truth values, numbers and texts are atoms, and so are the names of      *)
(* fields.  Most of them stay what they are.  Two kinds of numbers are     *)
(* read back as texts, and texts go through the local code page, of 8      *)
(* bits, and through C strings.  Lua is taken to go through the keys 1..n  *)
(* of a table in order, and the names in one table to stay different.      *)
(***************************************************************************)
EXTENDS LuaCalls, TLC

\* The atoms that do not stay what they are.
Power == "power"          \* a number that Lua writes like 1e-05
Big == "big"              \* an integer that is not the value of a double
WithNul == "with nul"     \* a text with a NUL in it
Foreign == "foreign"      \* a text of QVariant that the code page does not have
Undefined == "undefined"  \* bytes of Lua that the code page does not define

ToLocal8Bit(t) ==
    CASE t = Foreign -> "replaced" [] t = WithNul -> "cut" [] OTHER -> t
FromLocal8Bit(t) ==
    CASE t = Undefined -> Foreign [] t = WithNul -> "cut" [] OTHER -> t

Apply(Op(_), f) == [k \in DOMAIN f |-> Op(f[k])]
Renamed(Op(_), f) ==
    [name \in {Op(k) : k \in DOMAIN f} |->
        f[CHOOSE k \in DOMAIN f : Op(k) = name]]

-----------------------------------------------------------------------------
\* A key that is given nil does not exist.
RECURSIVE PushVariant(_)
PushVariant(v) ==
    LET pushed(f) == LET g == Apply(PushVariant, f)
                     IN  [k \in {j \in DOMAIN g : g[j] # Nil} |-> g[k]]
    IN  CASE v.type = "atom" -> Atom(ToLocal8Bit(v.is))
          [] v.type = "null" -> Nil
          [] v.type = "list" -> Table(pushed(v.items), << >>)
          [] v.type = "map" -> Table(<< >>, Renamed(ToLocal8Bit, pushed(v.fields)))
          [] v.type = "bridge callable" -> Function

IsList(t) == /\ DOMAIN t.fields = {}
             /\ DOMAIN t.items = 1..Cardinality(DOMAIN t.items)
HasFunction(t) == Function \in Image(t.items) \cup Image(t.fields)

\* A table with the keys 1..n is a list, one with a function in it an object,
\* any other a map, where the integer i is the key "[i]".
RECURSIVE ExtractValue(_)
ExtractValue(v) ==
    LET key(i) == "[" \o ToString(i) \o "]"
        items == Apply(ExtractValue, v.items)
        fields == Renamed(FromLocal8Bit, Apply(ExtractValue, v.fields))
        numbered == [k \in {key(i) : i \in DOMAIN items} |->
                        items[CHOOSE i \in DOMAIN items : key(i) = k]]
    IN  CASE v.type = "atom" ->
               Atom(IF v.is \in {Power, Big} THEN "text" ELSE FromLocal8Bit(v.is))
          [] v.type \in {"nil", "function"} -> Null
          [] v.type = "table" ->
               CASE IsList(v) -> List(items)
                 [] ~IsList(v) /\ HasFunction(v) -> QuikCallable
                 [] OTHER -> Map(fields @@ numbered)

\* QJsonArray::fromVariantList: an object inside of something is lost.
RECURSIVE FromVariant(_)
FromVariant(v) ==
    CASE v.type = "list" -> List(Apply(FromVariant, v.items))
      [] v.type = "map" -> Map(Apply(FromVariant, v.fields))
      [] v = QuikCallable -> Null
      [] OTHER -> v

\* The cells of the Lua stack that the conversions need while they work: a
\* table, a key and a value inside of it; a key, a value and what is in it.
RECURSIVE CellsToPush(_)
CellsToPush(v) ==
    LET inside(f) == IF DOMAIN f = {} THEN 1
                     ELSE 2 + Max({CellsToPush(x) : x \in Image(f)})
    IN  CASE v.type = "list" -> inside(v.items)
          [] v.type = "map" -> inside(v.fields)
          [] OTHER -> 1

RECURSIVE CellsToExtract(_)
CellsToExtract(v) ==
    IF v.type # "table" THEN 0
    ELSE LET values == Image(v.items) \cup Image(v.fields)
         IN  IF values = {} THEN 1
             ELSE 2 + Max({CellsToExtract(x) : x \in values})

-----------------------------------------------------------------------------
(* Properties.                                                             *)

RECURSIVE IsJson(_)
IsJson(v) ==
    \/ v.type \in {"null", "atom"}
    \/ v.type = "list" /\ \A x \in Image(v.items) : IsJson(x)
    \/ v.type = "map" /\ \A x \in Image(v.fields) : IsJson(x)

Changed == {Power, Big, WithNul, Foreign, Undefined}

\* What survives the way to Lua and back: no null inside, no empty map, no
\* number that is read as a text, and texts and names that C and the code page
\* can hold.
RECURSIVE Plain(_)
Plain(v) ==
    CASE v.type = "atom" -> v.is \notin Changed
      [] v.type = "list" -> \A x \in Image(v.items) : x # Null /\ Plain(x)
      [] v.type = "map" -> /\ DOMAIN v.fields # {}
                           /\ DOMAIN v.fields \cap Changed = {}
                           /\ \A x \in Image(v.fields) : x # Null /\ Plain(x)
      [] OTHER -> v = Null

\* The other way: a list or a table of named fields, without functions.
RECURSIVE PlainInLua(_)
PlainInLua(v) ==
    CASE v.type = "atom" -> v.is \notin Changed
      [] v.type = "table" ->
           /\ IsList(v) \/ DOMAIN v.items = {}
           /\ DOMAIN v.fields \cap Changed = {}
           /\ \A x \in Image(v.items) \cup Image(v.fields) :
                  x # Nil /\ PlainInLua(x)
      [] OTHER -> v = Nil

\* Whatever is lost on the way is lost at once.
Settled(v) == ToJson(Extract(Push(v))) = v

\* What goes to a client is JSON.  A function of QUIK that returns what it is
\* given returns to the client what it sent, value by value and in its order,
\* where the values are plain, whatever failed calls have left on the stack;
\* what changes on the way, a text that is cut or loses characters too, changes
\* once.  A client that answers a callback
\* with its arguments gives them back to Lua likewise (pushVariantToLuaStack,
\* popVariantFromLuaStack, universalCallbackHandler).
EchoReturns ==
    /\ done.kind = "answer" => \A v \in Image(done.res) : IsJson(v)
    /\ done.kind = "callback" => \A v \in Image(done.seen) : IsJson(v)
    /\ done.kind = "answer" /\ done.echo =>
           /\ Len(done.res) = Len(done.args)
           /\ \A i \in DOMAIN done.res :
                  /\ Plain(done.args[i]) => done.res[i] = done.args[i]
                  /\ Settled(done.res[i])
    /\ done.kind = "callback" /\ done.echo =>
           /\ Len(done.got) = Len(done.args)
           /\ \A i \in DOMAIN done.got :
                  PlainInLua(done.args[i]) => done.got[i] = done.args[i]
=============================================================================
