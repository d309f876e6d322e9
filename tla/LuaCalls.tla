------------------------------- MODULE LuaCalls -------------------------------
(***************************************************************************)
(* The calls between clients and QUIK's Lua (quikcoast.cpp): the requests  *)
(* invoke, which call a function or a method of an object on the Lua stack *)
(* of main, and the callbacks, each of which has a stack of its own.       *)
(*                                                                         *)
(* main does not return while the program runs, so what a call leaves on   *)
(* its stack stays there.  Nothing asks Lua for more cells than it gives   *)
(* every function (LUA_MINSTACK).                                          *)
(*                                                                         *)
(* What the conversions make of a value is a parameter here; LuaValues     *)
(* has them.                                                               *)
(***************************************************************************)
EXTENDS Integers, SequencesExt, FiniteSetsExt

CONSTANTS
    Variants,         \* the values of QVariant, and
    Cells,            \* those of Lua, that occur in calls
    Arguments,        \* argument lists of invoke requests
    Returns,          \* value lists that QUIK's functions and callbacks may have
    Answers,          \* what clients answer to callbacks
    StackLimit,       \* the cells a function of Lua may use
    Push(_),          \* pushVariantToLuaStack
    Extract(_),       \* extractValueFromLuaStack
    ToJson(_),        \* QJsonArray::fromVariantList, of one value
    PushCells(_),     \* the cells that the conversions need while they work
    ExtractCells(_)

Atom(x) == [type |-> "atom", is |-> x]

\* QVariant: invalid, a list, a map, and the two classes of callables, of
\* which the first comes from a client and the second from Lua.
Null == [type |-> "null"]
List(items) == [type |-> "list", items |-> items]
Map(fields) == [type |-> "map", fields |-> fields]
BridgeCallable == [type |-> "bridge callable"]
QuikCallable == [type |-> "quik callable"]

\* Lua: nil, a function, and a table with its integer and its other keys.
Nil == [type |-> "nil"]
Function == [type |-> "function"]
Table(items, fields) == [type |-> "table", items |-> items, fields |-> fields]

\* What lies on the stack below the arguments of a method.
CallTarget == Table(<< >>, [method |-> Function])

Image(f) == {f[k] : k \in DOMAIN f}
Pushed(list) == [k \in DOMAIN list |-> Push(list[k])]

ASSUME CallsAssumption ==
    /\ StackLimit \in Nat
    /\ Arguments \subseteq Seq(Variants) /\ Returns \subseteq Seq(Cells)
    /\ CallTarget \in Cells /\ Function \in Cells
    /\ \A v \in Variants : Push(v) \in Cells /\ PushCells(v) \in Nat
    /\ \A c \in Cells : ExtractCells(c) \in Nat

VARIABLES
    stack,   \* the Lua stack of main
    op,      \* the call being made, see Idle
    failed,  \* history: the number of method calls that have failed
    done,    \* the answer or the callback that the last step has completed
    ub       \* "none", or "overflow"

vars == <<stack, op, failed, done, ub>>

-----------------------------------------------------------------------------
\* at: where the call is; base: the height of the stack to which the results
\* are taken off, top in the source, and one more for a method.
Idle == [at |-> "idle", method |-> FALSE, args |-> << >>, pushed |-> 0,
         base |-> 0, echo |-> FALSE, res |-> << >>]

\* An answer: its request's arguments and results, and whether the function
\* has returned just what it was given.  A callback: its arguments, as Lua had
\* them and as the client got them, and what Lua got for the client's answer.
Nothing == [kind |-> "none"]
Answer(args, res, echo) ==
    [kind |-> "answer", args |-> args, res |-> res, echo |-> echo]
CallbackDone(args, seen, got, echo) ==
    [kind |-> "callback", args |-> args, seen |-> seen, got |-> got,
     echo |-> echo]

Init ==
    /\ stack = << >>
    /\ op = Idle
    /\ failed = 0
    /\ done = Nothing
    /\ ub = "none"

\* The highest the stack gets in a step.
Reaches(height) == ub' = IF height > StackLimit THEN "overflow" ELSE ub

-----------------------------------------------------------------------------
\* invokeQuik, invokeQuikObject up to their first argument: the function; or
\* the object, its method, and the object again.
Invoke(method, args) ==
    /\ op.at = "idle"
    /\ LET pushed == IF method THEN <<CallTarget, Function, CallTarget>>
                               ELSE <<Function>>
       IN  /\ stack' = stack \o pushed
           /\ op' = [Idle EXCEPT !.at = "push", !.method = method,
                        !.args = args,
                        !.base = Len(stack) + (IF method THEN 1 ELSE 0)]
           /\ Reaches(Len(stack'))
    /\ done' = Nothing
    /\ UNCHANGED failed

PushArgument ==
    /\ op.at = "push"
    /\ op.pushed < Len(op.args)
    /\ LET v == op.args[op.pushed + 1]
       IN  /\ stack' = Append(stack, Push(v))
           /\ Reaches(Len(stack) + PushCells(v))
    /\ op' = [op EXCEPT !.pushed = @ + 1]
    /\ done' = Nothing
    /\ UNCHANGED failed

\* What a function may return, which may be just what it was given.
Results(args) == Returns \cup {Pushed(args)}

\* lua_pcall: the function and its arguments make room for what it returns.
CallReturns ==
    /\ op.at = "push"
    /\ op.pushed = Len(op.args)
    /\ \E results \in Results(op.args) :
         /\ stack' = SubSeq(stack, 1, op.base) \o results
         /\ op' = [op EXCEPT !.at = "pop",
                             !.echo = (results = Pushed(op.args))]
    /\ done' = Nothing
    /\ UNCHANGED <<failed, ub>>

\* lua_pcall fails: its message is taken off the stack, and nothing else; the
\* client is answered with an empty list.  Mutant: the message is left.
CallFails_KeepsMessage ==
    /\ op.at = "push"
    /\ op.pushed = Len(op.args)
    /\ stack' = Append(SubSeq(stack, 1, op.base), Atom("text"))
    /\ failed' = IF op.method THEN failed + 1 ELSE failed
    /\ done' = Answer(op.args, << >>, FALSE)
    /\ op' = Idle
    /\ UNCHANGED ub
CallFails ==
    /\ op.at = "push"
    /\ op.pushed = Len(op.args)
    /\ stack' = SubSeq(stack, 1, op.base)
    /\ failed' = IF op.method THEN failed + 1 ELSE failed
    /\ done' = Answer(op.args, << >>, FALSE)
    /\ op' = Idle
    /\ UNCHANGED ub

\* popVariantFromLuaStack, from the last result to the first.
\* Mutants: the results are appended; those of a method are taken off down to
\* where the stack was before its object.
PopResult_Appends ==
    /\ op.at = "pop"
    /\ Len(stack) # op.base
    /\ op' = [op EXCEPT !.res = Append(@, Extract(Last(stack)))]
    /\ stack' = Front(stack)
    /\ Reaches(Len(stack) + ExtractCells(Last(stack)))
    /\ done' = Nothing
    /\ UNCHANGED failed
PopResult_ToTop ==
    /\ op.at = "pop"
    /\ Len(stack) # (IF op.method THEN op.base - 1 ELSE op.base)
    /\ op' = [op EXCEPT !.res = <<Extract(Last(stack))>> \o @]
    /\ stack' = Front(stack)
    /\ Reaches(Len(stack) + ExtractCells(Last(stack)))
    /\ done' = Nothing
    /\ UNCHANGED failed
PopResult ==
    /\ op.at = "pop"
    /\ Len(stack) # op.base
    /\ op' = [op EXCEPT !.res = <<Extract(Last(stack))>> \o @]
    /\ stack' = Front(stack)
    /\ Reaches(Len(stack) + ExtractCells(Last(stack)))
    /\ done' = Nothing
    /\ UNCHANGED failed

\* In the answer a callable result is a number.
Told(v) == IF v = QuikCallable THEN Atom("number") ELSE ToJson(v)

\* A method takes its object off the stack.
Finish ==
    /\ op.at = "pop"
    /\ Len(stack) = op.base
    /\ stack' = IF op.method THEN Front(stack) ELSE stack
    /\ done' = Answer(op.args, [k \in DOMAIN op.res |-> Told(op.res[k])], op.echo)
    /\ op' = Idle
    /\ UNCHANGED <<failed, ub>>

\* universalCallbackHandler on a stack that holds the arguments: a list as
\* answer is several results, null is none.
Given(vres) ==
    CASE vres = Null -> << >>
      [] vres.type = "list" -> Pushed(vres.items)
      [] OTHER -> <<Push(vres)>>

\* The most cells in use: those of args and of the results before the one
\* that is being converted.
CallbackCells(args, vres) ==
    LET items == IF vres.type = "list" THEN vres.items ELSE <<vres>>
    IN  Len(args) + Max({0} \cup {ExtractCells(v) : v \in Image(args)}
                            \cup {i - 1 + PushCells(items[i]) : i \in DOMAIN items})

\* What the client sees; it may answer with just that.
Seen(args) == [i \in DOMAIN args |-> ToJson(Extract(args[i]))]
Echo(args) == List(Seen(args))

Callback(args, vres) ==
    /\ op.at = "idle"
    /\ done' = CallbackDone(args, Seen(args), Given(vres), vres = Echo(args))
    /\ Reaches(CallbackCells(args, vres))
    /\ UNCHANGED <<stack, op, failed>>

Next ==
    /\ ub = "none"
    /\ \/ \E method \in BOOLEAN, args \in Arguments : Invoke(method, args)
       \/ PushArgument
       \/ CallReturns
       \/ CallFails
       \/ PopResult
       \/ Finish
       \/ \E args \in Returns : \E vres \in Answers \cup {Echo(args)} :
             Callback(args, vres)

Spec == Init /\ [][Next]_vars

-----------------------------------------------------------------------------
(* Properties.                                                             *)

\* Every variable keeps its type, and no call takes off the stack what was
\* there before its results (invokeQuik, invokeQuikObject).
TypeOK ==
    /\ stack \in Seq(Cells)
    /\ op.at \in {"idle", "push", "pop"}
    /\ op.args \in Arguments \cup {<< >>}
    /\ op.pushed \in 0..Len(op.args)
    /\ op.base \in 0..Len(stack)
    /\ failed \in Nat
    /\ done.kind \in {"none", "answer", "callback"}
    /\ ub \in {"none", "overflow"}

\* A call of a method that does not fit above n cells, by its targets, its
\* arguments or its results, and a callback that does not fit at all.
CallTooLarge(n) ==
    \/ n + 3 > StackLimit
    \/ \E args \in Arguments :
          \/ \E k \in DOMAIN args : n + 2 + k + PushCells(args[k]) > StackLimit
          \/ \E results \in Results(args) : \E k \in DOMAIN results :
                n + 1 + k + ExtractCells(results[k]) > StackLimit
CallbackTooLarge ==
    \E args \in Returns : \E vres \in Answers \cup {Echo(args)} :
        CallbackCells(args, vres) > StackLimit

\* Between calls the stack of main holds nothing but the objects of the
\* method calls that have failed, one for each.  They fill it in the end: the
\* first call or callback that does not fit is too large together with them
\* (invokeQuik, invokeQuikObject).
StackHoldsFailedCalls ==
    /\ op.at = "idle" => stack = [i \in 1..failed |-> CallTarget]
    /\ ub = "overflow" => CallTooLarge(failed) \/ CallbackTooLarge
=============================================================================
