---------------------------- MODULE LuaCallsProofs ----------------------------
(* Proofs about LuaCalls, for all values, whatever the conversions make of   *)
(* them, any size of the Lua stack and any number of calls.                  *)
EXTENDS LuaCalls, SequenceTheorems, TLAPS

Extracted == {Extract(c) : c \in Cells}

Operation ==
    [at : {"idle", "push", "pop"}, method : BOOLEAN, args : Seq(Variants),
     pushed : Nat, base : Nat, echo : BOOLEAN, res : Seq(Extracted)]

\* s holds nothing but n objects.
Objects(s, n) == Len(s) = n /\ \A i \in 1..n : s[i] = CallTarget

\* What has been taken off when n results are left.
Popped(results, n) == [k \in 1..(Len(results) - n) |-> Extract(results[n + k])]

\* The results of the call that are left on the stack s are the first of those
\* it had, and the others have been taken.
Popping(s, o) ==
    \E results \in Results(o.args) :
        /\ Len(s) - o.base <= Len(results)
        /\ \A k \in 1..(Len(s) - o.base) : s[o.base + k] = results[k]
        /\ o.res = Popped(results, Len(s) - o.base)
        /\ o.echo = (results = Pushed(o.args))

\* Under a call lie the objects of the failed ones, and its own; above, its
\* targets and the arguments pushed, or results.
Making(s, o, n) ==
    /\ o.args \in Arguments
    /\ o.base = n + (IF o.method THEN 1 ELSE 0) /\ o.base <= Len(s)
    /\ \A i \in 1..o.base : s[i] = CallTarget
    /\ o.pushed <= Len(o.args)
    /\ o.at = "push" => /\ Len(s) = o.base + (IF o.method THEN 2 ELSE 1) + o.pushed
                        /\ o.res = << >>
    /\ o.at = "pop" => Popping(s, o)

\* A client gets what it sent, each value converted to Lua and back, in the
\* order in which it sent them.
ConvertedInOrder ==
    /\ done.kind = "answer" /\ done.echo =>
          done.res = [k \in DOMAIN done.args |-> Told(Extract(Push(done.args[k])))]
    /\ done.kind = "callback" /\ done.echo =>
          done.got = [k \in DOMAIN done.args |-> Push(ToJson(Extract(done.args[k])))]

IInv ==
    /\ stack \in Seq(Cells) /\ op \in Operation /\ failed \in Nat
    /\ done.kind \in {"none", "answer", "callback"}
    /\ ub \in {"none", "overflow"}
    /\ op.at = "idle" => op = Idle /\ Objects(stack, failed)
    /\ op.at # "idle" => Making(stack, op, failed)
    /\ ub = "overflow" => CallTooLarge(failed) \/ CallbackTooLarge
    /\ ConvertedInOrder

-----------------------------------------------------------------------------
LEMMA PushedType ==
    ASSUME NEW list \in Seq(Variants)
    PROVE  /\ Pushed(list) \in Seq(Cells) /\ Len(Pushed(list)) = Len(list)
           /\ \A k \in 1..Len(list) : Pushed(list)[k] = Push(list[k])
<1>1. DOMAIN list = 1..Len(list) /\ Len(list) \in Nat
  OBVIOUS
<1>2. \A k \in 1..Len(list) : Push(list[k]) \in Cells
  <2>1. \A k \in 1..Len(list) : list[k] \in Variants
    OBVIOUS
  <2> QED
    BY <2>1, CallsAssumption
<1>3. Pushed(list) = [k \in 1..Len(list) |-> Push(list[k])]
  BY <1>1 DEF Pushed
<1> DEFINE n == Len(list)
           p == Pushed(list)
<1>4. n \in Nat /\ p \in [1..n -> Cells]
  BY <1>1, <1>2, <1>3
<1>5. p \in Seq(Cells) /\ Len(p) = n
  <2> HIDE DEF n, p
  <2> QED
    BY <1>4
<1> QED
  BY <1>3, <1>5

LEMMA ResultsType ==
    ASSUME NEW args \in Arguments, NEW results \in Results(args)
    PROVE  results \in Seq(Cells)
<1>1. args \in Seq(Variants)
  BY CallsAssumption
<1> QED
  BY <1>1, PushedType, CallsAssumption DEF Results

\* What lies where in two sequences put together.
LEMMA Concatenated ==
    ASSUME NEW S, NEW s \in Seq(S), NEW t \in Seq(S)
    PROVE  /\ s \o t \in Seq(S) /\ Len(s \o t) = Len(s) + Len(t)
           /\ \A i \in 1..Len(s) : (s \o t)[i] = s[i]
           /\ \A i \in 1..Len(t) : (s \o t)[Len(s) + i] = t[i]
  OBVIOUS

\* The stack without what lies on top of it.
LEMMA Shorter ==
    ASSUME NEW S, NEW s \in Seq(S), Len(s) > 0
    PROVE  /\ Front(s) \in Seq(S) /\ Len(Front(s)) = Len(s) - 1
           /\ \A i \in 1..(Len(s) - 1) : Front(s)[i] = s[i]
           /\ Last(s) = s[Len(s)] /\ Last(s) \in S
<1> DEFINE n == Len(s) - 1
<1>1. n \in Nat /\ n <= Len(s) /\ Len(s) \in Nat
  OBVIOUS
<1>2. Front(s) = SubSeq(s, 1, n)
  BY DEF Front
<1>3. SubSeq(s, 1, n) = [i \in 1..n |-> s[i]]
  BY <1>1
<1>4. \A i \in 1..n : s[i] \in S
  BY <1>1
<1> HIDE DEF n
<1>5. Front(s) \in [1..n -> S]
  BY <1>2, <1>3, <1>4
<1>6. Front(s) \in Seq(S) /\ Len(Front(s)) = n /\ \A i \in 1..n : Front(s)[i] = s[i]
  BY <1>1, <1>2, <1>3, <1>5
<1>7. Last(s) = s[Len(s)] /\ Last(s) \in S
  BY <1>1 DEF Last
<1> QED
  BY <1>6, <1>7 DEF n

\* The results that have been taken, and the next of them.
LEMMA PoppedMore ==
    ASSUME NEW results \in Seq(Cells), NEW n \in 1..Len(results)
    PROVE  /\ Popped(results, n) \in Seq(Extracted)
           /\ <<Extract(results[n])>> \o Popped(results, n) = Popped(results, n - 1)
<1> DEFINE m == Len(results) - n
           p == Popped(results, n)
           q == Popped(results, n - 1)
           e == Extract(results[n])
           r == <<e>> \o p
<1>1. n \in Nat /\ m \in Nat /\ m + 1 = Len(results) - (n - 1) /\ Len(results) \in Nat
  OBVIOUS
<1>2. \A k \in 1..Len(results) : Extract(results[k]) \in Extracted
  <2>1. \A k \in 1..Len(results) : results[k] \in Cells
    OBVIOUS
  <2> QED
    BY <2>1 DEF Extracted
<1>3. p = [k \in 1..m |-> Extract(results[n + k])]
  BY DEF Popped
<1>4. q = [k \in 1..(m + 1) |-> Extract(results[(n - 1) + k])]
  BY <1>1 DEF Popped
<1>5. \A k \in 1..m : n + k \in 1..Len(results)
  BY <1>1
<1>6. \A k \in 1..(m + 1) : (n - 1) + k \in 1..Len(results)
  BY <1>1
<1>7. e \in Extracted
  BY <1>2
<1> HIDE DEF m, p, q, e
<1>8. p \in [1..m -> Extracted] /\ q \in [1..(m + 1) -> Extracted]
  BY <1>2, <1>3, <1>4, <1>5, <1>6
<1>9. /\ p \in Seq(Extracted) /\ Len(p) = m
      /\ q \in Seq(Extracted) /\ Len(q) = m + 1
  BY <1>1, <1>8
<1>10. /\ r \in Seq(Extracted) /\ Len(r) = m + 1
       /\ r[1] = e /\ \A k \in 1..m : r[1 + k] = p[k]
  BY <1>1, <1>7, <1>9
<1>11. ASSUME NEW k \in 1..(m + 1) PROVE r[k] = q[k]
  <2>1. CASE k = 1
    <3>1. q[1] = e
      <4>1. (n - 1) + 1 = n /\ 1 \in 1..(m + 1)
        BY <1>1
      <4> QED
        BY <1>4, <4>1 DEF e
    <3> QED
      BY <1>10, <2>1, <3>1
  <2>2. CASE k # 1
    <3> DEFINE j == k - 1
    <3>1. j \in 1..m /\ 1 + j = k /\ n + j = (n - 1) + k
      BY <1>1, <2>2
    <3> HIDE DEF j
    <3>2. r[k] = p[j]
      BY <1>10, <3>1
    <3>3. p[j] = Extract(results[n + j])
      BY <1>3, <3>1
    <3>4. q[k] = Extract(results[(n - 1) + k])
      BY <1>4
    <3> QED
      BY <3>1, <3>2, <3>3, <3>4
  <2> QED
    BY <2>1, <2>2
<1> HIDE DEF r
<1>12. r = q
  BY <1>9, <1>10, <1>11, SeqEqual
<1> QED
  BY <1>9, <1>12 DEF r, p, q, e

-----------------------------------------------------------------------------
LEMMA InitCalls == Init => IInv
<1> SUFFICES ASSUME Init PROVE IInv
  OBVIOUS
<1>1. stack \in Seq(Cells) /\ Objects(stack, failed)
  BY DEF Init, Objects
<1>2. op \in Operation /\ op.at = "idle" /\ op = Idle
  BY DEF Init, Idle, Operation
<1>3. done.kind = "none"
  BY DEF Init, Nothing
<1> QED
  BY <1>1, <1>2, <1>3 DEF Init, IInv, ConvertedInOrder

\* A step of a call that completes nothing leaves done without a result.
LEMMA NothingDone ==
    ASSUME done' = Nothing
    PROVE  done'.kind = "none" /\ ConvertedInOrder'
  BY DEF Nothing, ConvertedInOrder

LEMMA InvokeCalls ==
    ASSUME IInv, ub = "none", NEW method \in BOOLEAN, NEW args \in Arguments,
           Invoke(method, args)
    PROVE  IInv'
<1> DEFINE pushed == IF method THEN <<CallTarget, Function, CallTarget>>
                               ELSE <<Function>>
           own == IF method THEN 1 ELSE 0
<1>1. /\ op = Idle /\ Objects(stack, failed) /\ stack \in Seq(Cells) /\ failed \in Nat
      /\ stack' = stack \o pushed /\ failed' = failed /\ done' = Nothing
      /\ op' = [Idle EXCEPT !.at = "push", !.method = method, !.args = args,
                            !.base = Len(stack) + own]
      /\ ub' = IF Len(stack') > StackLimit THEN "overflow" ELSE ub
  BY DEF IInv, Invoke, Reaches
<1>2. Len(stack) = failed /\ \A i \in 1..failed : stack[i] = CallTarget
  BY <1>1 DEF Objects
<1>3. /\ pushed \in Seq(Cells) /\ Len(pushed) = own + (IF method THEN 2 ELSE 1)
      /\ method => pushed[1] = CallTarget
      /\ own \in Nat /\ Len(pushed) <= 3 /\ Len(pushed) \in Nat
  BY CallsAssumption
<1> HIDE DEF pushed
<1>4. /\ stack' \in Seq(Cells) /\ Len(stack') = failed + Len(pushed)
      /\ \A i \in 1..failed : stack'[i] = CallTarget
      /\ method => stack'[failed + 1] = CallTarget
  <2>1. /\ stack' \in Seq(Cells) /\ Len(stack') = Len(stack) + Len(pushed)
        /\ \A i \in 1..Len(stack) : stack'[i] = stack[i]
        /\ \A i \in 1..Len(pushed) : stack'[Len(stack) + i] = pushed[i]
    <3> DEFINE whole == stack \o pushed
    <3>1. /\ whole \in Seq(Cells) /\ Len(whole) = Len(stack) + Len(pushed)
          /\ \A i \in 1..Len(stack) : whole[i] = stack[i]
          /\ \A i \in 1..Len(pushed) : whole[Len(stack) + i] = pushed[i]
      <4>1. stack \in Seq(Cells) /\ pushed \in Seq(Cells)
        BY <1>1, <1>3
      <4> QED
        BY <4>1, Concatenated
    <3>2. stack' = whole
      BY <1>1
    <3> HIDE DEF whole
    <3> QED
      BY <3>1, <3>2
  <2>2. method => 1 \in 1..Len(pushed)
    BY <1>3
  <2> QED
    BY <1>2, <1>3, <2>1, <2>2
<1>5. args \in Seq(Variants) /\ Len(args) \in Nat
  BY CallsAssumption
<1>6. /\ op' \in Operation /\ op'.at = "push" /\ op'.method = method /\ op'.args = args
      /\ op'.base = failed + own /\ op'.pushed = 0 /\ op'.res = << >>
  <2>1. op' = [at |-> "push", method |-> method, args |-> args, pushed |-> 0,
               base |-> failed + own, echo |-> FALSE, res |-> << >>]
    <3> HIDE DEF own
    <3> QED
      BY <1>1, <1>2 DEF Idle
  <2>2. failed + own \in Nat
    BY <1>1, <1>3
  <2> HIDE DEF own
  <2>3. op' \in Operation
    BY <1>5, <2>1, <2>2 DEF Operation
  <2> QED
    BY <2>1, <2>3
<1>7. Making(stack', op', failed')
  <2>1. ASSUME NEW i \in 1..(failed + own) PROVE stack'[i] = CallTarget
    <3>1. i \in 1..failed \/ (method /\ i = failed + 1)
      BY <1>1
    <3> QED
      BY <1>4, <3>1
  <2>2. Len(stack') = failed + own + (IF method THEN 2 ELSE 1) + 0
    BY <1>1, <1>3, <1>4
  <2>3. failed + own <= Len(stack')
    BY <1>1, <1>3, <1>4
  <2> HIDE DEF own
  <2> QED
    BY <1>1, <1>5, <1>6, <2>1, <2>2, <2>3 DEF Making, own
<1>8. ub' = "overflow" => CallTooLarge(failed')
  <2>1. Len(stack') > StackLimit => failed + 3 > StackLimit
    BY <1>1, <1>3, <1>4, CallsAssumption
  <2> QED
    BY <1>1, <2>1 DEF CallTooLarge
<1>9. ub' \in {"none", "overflow"}
  BY <1>1
<1> QED
  BY <1>1, <1>4, <1>6, <1>7, <1>8, <1>9, NothingDone DEF IInv

\* One argument more is pushed.
LEMMA Counted ==
    ASSUME NEW o \in Operation, NEW n \in Nat, NEW p, p = [o EXCEPT !.pushed = n]
    PROVE  /\ p \in Operation /\ p.pushed = n
           /\ p.at = o.at /\ p.method = o.method /\ p.args = o.args
           /\ p.base = o.base /\ p.res = o.res
  BY DEF Operation

LEMMA PushCalls ==
    ASSUME IInv, ub = "none", PushArgument
    PROVE  IInv'
<1> DEFINE v == op.args[op.pushed + 1]
<1>1. /\ op \in Operation /\ op.at = "push" /\ Making(stack, op, failed)
      /\ stack \in Seq(Cells) /\ failed \in Nat /\ op.pushed < Len(op.args)
      /\ stack' = Append(stack, Push(v)) /\ failed' = failed /\ done' = Nothing
      /\ op' = [op EXCEPT !.pushed = op.pushed + 1]
      /\ ub' = IF Len(stack) + PushCells(v) > StackLimit THEN "overflow" ELSE ub
  BY DEF IInv, PushArgument, Reaches
<1>2. /\ op.args \in Arguments /\ op.base <= Len(stack)
      /\ op.base = failed + (IF op.method THEN 1 ELSE 0)
      /\ \A i \in 1..op.base : stack[i] = CallTarget
      /\ Len(stack) = op.base + (IF op.method THEN 2 ELSE 1) + op.pushed
      /\ op.res = << >>
  BY <1>1 DEF Making
<1>3. op.pushed \in Nat /\ op.base \in Nat /\ op.method \in BOOLEAN
  BY <1>1 DEF Operation
<1>4. op.args \in Seq(Variants)
  BY <1>2, CallsAssumption
<1>5. op.pushed + 1 \in 1..Len(op.args) /\ v \in Variants
  BY <1>1, <1>3, <1>4
<1>6. Push(v) \in Cells /\ PushCells(v) \in Nat
  BY <1>5, CallsAssumption
<1> HIDE DEF v
<1>7. /\ stack' \in Seq(Cells) /\ Len(stack') = Len(stack) + 1
      /\ \A i \in 1..Len(stack) : stack'[i] = stack[i]
  BY <1>1, <1>6
<1>8. /\ op' \in Operation /\ op'.at = "push" /\ op'.method = op.method
      /\ op'.args = op.args /\ op'.base = op.base /\ op'.res = op.res
      /\ op'.pushed = op.pushed + 1
  <2>1. op.pushed + 1 \in Nat
    BY <1>3
  <2> QED
    BY <1>1, <2>1, Counted
<1>9. Making(stack', op', failed')
  <2>1. \A i \in 1..op.base : stack'[i] = CallTarget
    BY <1>2, <1>3, <1>7
  <2>2. op.base <= Len(stack') /\ op.pushed + 1 <= Len(op.args)
    BY <1>1, <1>2, <1>3, <1>5, <1>7
  <2>3. Len(stack') = op.base + (IF op.method THEN 2 ELSE 1) + (op.pushed + 1)
    BY <1>2, <1>3, <1>7
  <2> QED
    BY <1>1, <1>2, <1>8, <2>1, <2>2, <2>3 DEF Making
<1>10. ub' = "overflow" => CallTooLarge(failed')
  <2> DEFINE k == op.pushed + 1
  <2>1. ASSUME Len(stack) + PushCells(v) > StackLimit
        PROVE  failed + 2 + k + PushCells(v) > StackLimit
    <3>1. Len(stack) \in Nat /\ Len(stack) <= failed + 2 + k /\ StackLimit \in Nat
      <4>1. CASE op.method
        <5>1. op.base = failed + 1 /\ Len(stack) = op.base + 2 + op.pushed
          BY <1>2, <4>1
        <5> QED
          BY <1>1, <1>3, <5>1, CallsAssumption
      <4>2. CASE ~op.method
        <5>1. op.base = failed + 0 /\ Len(stack) = op.base + 1 + op.pushed
          BY <1>2, <4>2
        <5> QED
          BY <1>1, <1>3, <5>1, CallsAssumption
      <4> QED
        BY <4>1, <4>2
    <3> HIDE DEF k
    <3> QED
      BY <1>1, <1>6, <2>1, <3>1, <1>3 DEF k
  <2>2. k \in DOMAIN op.args /\ v = op.args[k]
    BY <1>4, <1>5 DEF v
  <2> HIDE DEF k
  <2> QED
    BY <1>1, <1>2, <2>1, <2>2 DEF CallTooLarge
<1>11. ub' \in {"none", "overflow"}
  BY <1>1
<1> QED
  BY <1>1, <1>7, <1>8, <1>9, <1>10, <1>11, NothingDone DEF IInv

\* The stack down to where the call began.
LEMMA Lower ==
    ASSUME NEW S, NEW s \in Seq(S), NEW n \in 0..Len(s)
    PROVE  /\ SubSeq(s, 1, n) \in Seq(S) /\ Len(SubSeq(s, 1, n)) = n
           /\ \A i \in 1..n : SubSeq(s, 1, n)[i] = s[i]
<1>1. SubSeq(s, 1, n) = [i \in 1..n |-> s[i]] /\ n \in Nat /\ n <= Len(s)
  OBVIOUS
<1>2. SubSeq(s, 1, n) \in [1..n -> S]
  <2>1. \A i \in 1..n : s[i] \in S
    OBVIOUS
  <2> QED
    BY <1>1, <2>1
<1> QED
  BY <1>1, <1>2

LEMMA ReturnCalls ==
    ASSUME IInv, ub = "none", CallReturns
    PROVE  IInv'
<1>1. PICK results \in Results(op.args) :
         /\ stack' = SubSeq(stack, 1, op.base) \o results
         /\ op' = [op EXCEPT !.at = "pop", !.echo = (results = Pushed(op.args))]
  BY DEF CallReturns
<1>2. /\ op \in Operation /\ op.at = "push" /\ Making(stack, op, failed)
      /\ stack \in Seq(Cells) /\ failed \in Nat
      /\ failed' = failed /\ done' = Nothing /\ ub' = "none"
  BY DEF IInv, CallReturns
<1>3. /\ op.args \in Arguments /\ op.base <= Len(stack)
      /\ op.base = failed + (IF op.method THEN 1 ELSE 0)
      /\ \A i \in 1..op.base : stack[i] = CallTarget
      /\ op.pushed <= Len(op.args) /\ op.res = << >>
  BY <1>2 DEF Making
<1>4. op.base \in Nat /\ op.base \in 0..Len(stack)
  BY <1>2, <1>3 DEF Operation
<1>5. results \in Seq(Cells)
  BY <1>1, <1>3, ResultsType
<1> DEFINE low == SubSeq(stack, 1, op.base)
           whole == low \o results
<1>6. /\ low \in Seq(Cells) /\ Len(low) = op.base
      /\ \A i \in 1..op.base : low[i] = stack[i]
  BY <1>2, <1>4, Lower
<1>7. stack' = whole
  BY <1>1
<1> HIDE DEF low
<1>8. /\ whole \in Seq(Cells) /\ Len(whole) = Len(low) + Len(results)
      /\ \A i \in 1..Len(low) : whole[i] = low[i]
      /\ \A i \in 1..Len(results) : whole[Len(low) + i] = results[i]
  BY <1>5, <1>6, Concatenated
<1> HIDE DEF whole
<1>9. /\ stack' \in Seq(Cells) /\ Len(stack') = op.base + Len(results)
      /\ \A i \in 1..op.base : stack'[i] = CallTarget
      /\ \A i \in 1..Len(results) : stack'[op.base + i] = results[i]
  BY <1>3, <1>6, <1>7, <1>8
<1> DEFINE echo == results = Pushed(op.args)
<1>10. echo \in BOOLEAN /\ op' = [op EXCEPT !.at = "pop", !.echo = echo]
  BY <1>1
<1>11. /\ op' \in Operation /\ op'.at = "pop" /\ op'.method = op.method
       /\ op'.args = op.args /\ op'.base = op.base /\ op'.res = op.res
       /\ op'.pushed = op.pushed /\ op'.echo = echo
  <2> HIDE DEF echo
  <2> QED
    BY <1>2, <1>10 DEF Operation
<1>12. Popping(stack', op')
  <2>1. Len(results) \in Nat /\ Len(stack') - op'.base = Len(results)
    BY <1>4, <1>5, <1>9, <1>11
  <2>2. Popped(results, Len(results)) = << >>
    BY <1>5 DEF Popped
  <2>3. op'.res = Popped(results, Len(stack') - op'.base)
    BY <1>3, <1>11, <2>1, <2>2
  <2>4. ASSUME NEW k \in 1..(Len(stack') - op'.base)
        PROVE  stack'[op'.base + k] = results[k]
    <3> DEFINE left == Len(stack') - op'.base
    <3>1. k \in 1..Len(results) /\ op'.base = op.base
      <4>1. k \in 1..left /\ left = Len(results)
        BY <2>1
      <4> HIDE DEF left
      <4> QED
        BY <1>11, <4>1
    <3> QED
      BY <1>9, <3>1
  <2>5. results \in Results(op'.args) /\ Len(stack') - op'.base <= Len(results)
    <3>1. results \in Results(op'.args)
      BY <1>1, <1>11
    <3>2. Len(stack') - op'.base <= Len(results)
      <4> DEFINE left == Len(stack') - op'.base
      <4>1. left = Len(results) /\ Len(results) \in Nat
        BY <2>1
      <4> HIDE DEF left
      <4>2. left <= Len(results)
        BY <4>1
      <4> QED
        BY <4>2 DEF left
    <3> QED
      BY <3>1, <3>2
  <2>6. op'.echo = (results = Pushed(op'.args))
    BY <1>11
  <2> QED
    BY <2>3, <2>4, <2>5, <2>6 DEF Popping
<1>13. Making(stack', op', failed')
  <2>1. op.base <= Len(stack')
    BY <1>4, <1>5, <1>9
  <2> QED
    BY <1>2, <1>3, <1>9, <1>11, <1>12, <2>1 DEF Making
<1> QED
  BY <1>2, <1>9, <1>11, <1>13, NothingDone DEF IInv

\* A call ends: the objects below it are left, one more for a method that has
\* failed.
LEMMA IdleAgain ==
    ASSUME op' = Idle
    PROVE  op' \in Operation /\ op'.at = "idle" /\ op' = Idle
  BY DEF Idle, Operation

LEMMA FailCalls ==
    ASSUME IInv, ub = "none", CallFails
    PROVE  IInv'
<1>1. /\ op \in Operation /\ op.at # "idle" /\ Making(stack, op, failed)
      /\ stack \in Seq(Cells) /\ failed \in Nat
      /\ stack' = SubSeq(stack, 1, op.base) /\ op' = Idle /\ ub' = "none"
      /\ failed' = IF op.method THEN failed + 1 ELSE failed
      /\ done' = Answer(op.args, << >>, FALSE)
  BY DEF IInv, CallFails
<1>2. /\ op.base = failed + (IF op.method THEN 1 ELSE 0) /\ op.base <= Len(stack)
      /\ \A i \in 1..op.base : stack[i] = CallTarget
  BY <1>1 DEF Making
<1>3. op.base \in 0..Len(stack)
  BY <1>1, <1>2 DEF Operation
<1>4. /\ stack' \in Seq(Cells) /\ Len(stack') = op.base
      /\ \A i \in 1..op.base : stack'[i] = CallTarget
  BY <1>1, <1>2, <1>3, Lower
<1>5. failed' = op.base /\ failed' \in Nat
  BY <1>1, <1>2
<1>6. Objects(stack', failed')
  BY <1>4, <1>5 DEF Objects
<1>7. done'.kind = "answer" /\ ~done'.echo
  BY <1>1 DEF Answer
<1>8. ConvertedInOrder'
  BY <1>7 DEF ConvertedInOrder
<1> QED
  BY <1>1, <1>4, <1>5, <1>6, <1>7, <1>8, IdleAgain DEF IInv


\* One result more is taken.
LEMMA Taken ==
    ASSUME NEW o \in Operation, NEW r \in Seq(Extracted), NEW p, p = [o EXCEPT !.res = r]
    PROVE  /\ p \in Operation /\ p.res = r
           /\ p.at = o.at /\ p.method = o.method /\ p.args = o.args
           /\ p.base = o.base /\ p.pushed = o.pushed /\ p.echo = o.echo
  BY DEF Operation

LEMMA PopCalls ==
    ASSUME IInv, ub = "none", PopResult
    PROVE  IInv'
<1>1. /\ op \in Operation /\ op.at = "pop" /\ Making(stack, op, failed)
      /\ stack \in Seq(Cells) /\ failed \in Nat /\ Len(stack) # op.base
      /\ op' = [op EXCEPT !.res = <<Extract(Last(stack))>> \o op.res]
      /\ stack' = Front(stack) /\ failed' = failed /\ done' = Nothing
      /\ ub' = IF Len(stack) + ExtractCells(Last(stack)) > StackLimit
               THEN "overflow" ELSE ub
  BY DEF IInv, PopResult, Reaches
<1>2. /\ op.args \in Arguments /\ op.base <= Len(stack)
      /\ op.base = failed + (IF op.method THEN 1 ELSE 0)
      /\ \A i \in 1..op.base : stack[i] = CallTarget
      /\ op.pushed <= Len(op.args) /\ Popping(stack, op)
  BY <1>1 DEF Making
<1>3. op.base \in Nat /\ op.method \in BOOLEAN
  BY <1>1 DEF Operation
<1>4. PICK results \in Results(op.args) :
         /\ Len(stack) - op.base <= Len(results)
         /\ \A k \in 1..(Len(stack) - op.base) : stack[op.base + k] = results[k]
         /\ op.res = Popped(results, Len(stack) - op.base)
         /\ op.echo = (results = Pushed(op.args))
  BY <1>2 DEF Popping
<1>5. results \in Seq(Cells)
  BY <1>2, <1>4, ResultsType
<1> DEFINE n == Len(stack) - op.base
           c == results[n]
<1>6. n \in 1..Len(results) /\ n \in Nat /\ n - 1 \in Nat /\ Len(stack) = op.base + n
  BY <1>1, <1>2, <1>3, <1>4, <1>5
<1>7. /\ stack' \in Seq(Cells) /\ Len(stack') = Len(stack) - 1
      /\ \A i \in 1..(Len(stack) - 1) : stack'[i] = stack[i]
      /\ Last(stack) = stack[Len(stack)]
  <2>1. Len(stack) > 0
    BY <1>3, <1>6
  <2> QED
    BY <1>1, <2>1, Shorter
<1>8. stack[op.base + n] = results[n] /\ op.res = Popped(results, n)
  BY <1>4, <1>6
<1> HIDE DEF n
<1>9. Last(stack) = c /\ c \in Cells
  BY <1>5, <1>6, <1>7, <1>8
<1>10. /\ Popped(results, n - 1) = <<Extract(Last(stack))>> \o op.res
       /\ Popped(results, n - 1) \in Seq(Extracted)
  <2>1. <<Extract(c)>> \o Popped(results, n) = Popped(results, n - 1)
    BY <1>5, <1>6, PoppedMore
  <2>2. CASE n = 1
    <3>1. \A k \in 1..Len(results) : Extract(results[k]) \in Extracted
      <4>1. \A k \in 1..Len(results) : results[k] \in Cells
        BY <1>5
      <4> QED
        BY <4>1 DEF Extracted
    <3>2. /\ Popped(results, n - 1) = [k \in 1..Len(results) |-> Extract(results[k])]
          /\ Len(results) \in Nat
      BY <1>5, <2>2 DEF Popped
    <3>3. [k \in 1..Len(results) |-> Extract(results[k])] \in Seq(Extracted)
      BY <3>1, <3>2
    <3> QED
      BY <1>8, <1>9, <2>1, <3>2, <3>3
  <2>3. CASE n # 1
    <3>1. n - 1 \in 1..Len(results)
      BY <1>5, <1>6, <2>3
    <3> QED
      BY <1>5, <1>8, <1>9, <2>1, <3>1, PoppedMore
  <2> QED
    BY <2>2, <2>3
<1>11. /\ op' \in Operation /\ op'.at = "pop" /\ op'.method = op.method
       /\ op'.args = op.args /\ op'.base = op.base /\ op'.echo = op.echo
       /\ op'.pushed = op.pushed /\ op'.res = Popped(results, n - 1)
  BY <1>1, <1>10, Taken
<1>12. Len(stack') - op'.base = n - 1 /\ Len(stack') = op.base + (n - 1)
  BY <1>3, <1>6, <1>7, <1>11
<1>13. Popping(stack', op')
  <2>1. results \in Results(op'.args) /\ op'.echo = (results = Pushed(op'.args))
    BY <1>4, <1>11
  <2>2. n - 1 <= Len(results)
    BY <1>5, <1>6
  <2>3. ASSUME NEW k \in 1..(n - 1) PROVE stack'[op'.base + k] = results[k]
    <3>1. op.base + k \in 1..(Len(stack) - 1) /\ k \in 1..n
      BY <1>3, <1>6
    <3>2. stack[op.base + k] = results[k]
      BY <1>4, <3>1 DEF n
    <3> QED
      BY <1>7, <1>11, <3>1, <3>2
  <2> QED
    BY <1>11, <1>12, <2>1, <2>2, <2>3 DEF Popping
<1>14. Making(stack', op', failed')
  <2>1. ASSUME NEW i \in 1..op.base PROVE stack'[i] = CallTarget
    <3>1. i \in 1..(Len(stack) - 1)
      BY <1>3, <1>6
    <3> QED
      BY <1>2, <1>7, <3>1
  <2>2. op.base <= Len(stack')
    BY <1>3, <1>6, <1>12
  <2> QED
    BY <1>1, <1>2, <1>11, <1>13, <2>1, <2>2 DEF Making
<1>15. ub' = "overflow" => CallTooLarge(failed')
  <2>1. ExtractCells(c) \in Nat
    BY <1>9, CallsAssumption
  <2>2. Len(stack) + ExtractCells(c) > StackLimit
           => failed + 1 + n + ExtractCells(c) > StackLimit
    <3>1. op.base <= failed + 1 /\ StackLimit \in Nat
      BY <1>1, <1>2, <1>3, CallsAssumption
    <3> HIDE DEF c
    <3> QED
      BY <1>1, <1>3, <1>6, <2>1, <3>1
  <2>3. n \in DOMAIN results
    BY <1>5, <1>6
  <2> QED
    BY <1>1, <1>2, <1>4, <1>9, <2>2, <2>3 DEF CallTooLarge
<1>16. ub' \in {"none", "overflow"}
  BY <1>1
<1> QED
  BY <1>1, <1>7, <1>11, <1>14, <1>15, <1>16, NothingDone DEF IInv

LEMMA FinishCalls ==
    ASSUME IInv, ub = "none", Finish
    PROVE  IInv'
<1>1. /\ op \in Operation /\ op.at = "pop" /\ Making(stack, op, failed)
      /\ stack \in Seq(Cells) /\ failed \in Nat /\ Len(stack) = op.base
      /\ stack' = IF op.method THEN Front(stack) ELSE stack
      /\ done' = Answer(op.args, [k \in DOMAIN op.res |-> Told(op.res[k])], op.echo)
      /\ op' = Idle /\ failed' = failed /\ ub' = "none"
  BY DEF IInv, Finish
<1>2. /\ op.args \in Arguments /\ op.base = failed + (IF op.method THEN 1 ELSE 0)
      /\ \A i \in 1..op.base : stack[i] = CallTarget
      /\ Popping(stack, op)
  BY <1>1 DEF Making
<1>3. stack' \in Seq(Cells) /\ Objects(stack', failed')
  <2>1. CASE op.method
    <3>1. Len(stack) = failed + 1 /\ stack' = Front(stack)
      BY <1>1, <1>2, <2>1
    <3>2. /\ stack' \in Seq(Cells) /\ Len(stack') = failed
          /\ \A i \in 1..failed : stack'[i] = stack[i]
      BY <1>1, <3>1, Shorter
    <3>3. \A i \in 1..failed : stack[i] = CallTarget
      BY <1>1, <1>2, <3>1
    <3> QED
      BY <1>1, <3>2, <3>3 DEF Objects
  <2>2. CASE ~op.method
    BY <1>1, <1>2, <2>2 DEF Objects
  <2> QED
    BY <2>1, <2>2
<1>4. done'.kind = "answer" /\ done'.args = op.args /\ done'.echo = op.echo
      /\ done'.res = [k \in DOMAIN op.res |-> Told(op.res[k])]
  BY <1>1 DEF Answer
<1>5. ASSUME op.echo
      PROVE  done'.res = [k \in DOMAIN done'.args |-> Told(Extract(Push(done'.args[k])))]
  <2>1. PICK results \in Results(op.args) :
           /\ op.res = Popped(results, Len(stack) - op.base)
           /\ op.echo = (results = Pushed(op.args))
    BY <1>2 DEF Popping
  <2>2. results = Pushed(op.args)
    BY <1>5, <2>1
  <2>3. op.args \in Seq(Variants) /\ DOMAIN op.args = 1..Len(op.args)
    BY <1>2, CallsAssumption
  <2>4. /\ results \in Seq(Cells) /\ Len(results) = Len(op.args)
        /\ \A k \in 1..Len(op.args) : results[k] = Push(op.args[k])
    BY <2>2, <2>3, PushedType
  <2>5. Len(stack) - op.base = 0
    BY <1>1
  <2>6. op.res = [k \in 1..Len(op.args) |-> Extract(results[k])]
    BY <2>1, <2>4, <2>5 DEF Popped
  <2>7. op.res = [k \in 1..Len(op.args) |-> Extract(Push(op.args[k]))]
    BY <2>4, <2>6
  <2>8. DOMAIN op.res = DOMAIN op.args
    BY <2>3, <2>7
  <2> QED
    BY <1>4, <2>3, <2>7, <2>8
<1>6. ConvertedInOrder'
  BY <1>4, <1>5 DEF ConvertedInOrder
<1> QED
  BY <1>1, <1>3, <1>4, <1>6, IdleAgain DEF IInv

\* A client that answers with its arguments gives each of them back.
LEMMA GivenBack ==
    ASSUME NEW args
    PROVE  Given(Echo(args)) = [k \in DOMAIN args |-> Push(ToJson(Extract(args[k])))]
<1> DEFINE seen == Seen(args)
<1>1. seen = [k \in DOMAIN args |-> ToJson(Extract(args[k]))]
  BY DEF Seen
<1>2. Echo(args) = List(seen)
  BY DEF Echo
<1> HIDE DEF seen
<1>3. Echo(args).type = "list" /\ Echo(args).items = seen
  BY <1>2 DEF List
<1>4. Null.type = "null"
  BY DEF Null
<1>5. Echo(args) # Null
  BY <1>3, <1>4
<1>6. Given(Echo(args)) = Pushed(seen)
  BY <1>3, <1>5 DEF Given
<1> QED
  BY <1>1, <1>6 DEF Pushed

LEMMA CallbackCalls ==
    ASSUME IInv, ub = "none", NEW args \in Returns,
           NEW vres \in Answers \cup {Echo(args)}, Callback(args, vres)
    PROVE  IInv'
<1>1. /\ op = Idle /\ op.at = "idle" /\ Objects(stack, failed)
      /\ stack \in Seq(Cells) /\ failed \in Nat /\ op \in Operation
      /\ stack' = stack /\ op' = op /\ failed' = failed
      /\ done' = CallbackDone(args, Seen(args), Given(vres), vres = Echo(args))
      /\ ub' = IF CallbackCells(args, vres) > StackLimit THEN "overflow" ELSE ub
  BY DEF IInv, Callback, Reaches
<1>2. /\ done'.kind = "callback" /\ done'.args = args /\ done'.got = Given(vres)
      /\ done'.echo = (vres = Echo(args))
  BY <1>1 DEF CallbackDone
<1>3. ConvertedInOrder'
  BY <1>2, GivenBack DEF ConvertedInOrder
<1>4. /\ ub' \in {"none", "overflow"}
      /\ ub' = "overflow" => CallbackTooLarge
  BY <1>1 DEF CallbackTooLarge
<1> QED
  BY <1>1, <1>2, <1>3, <1>4 DEF IInv

-----------------------------------------------------------------------------
LEMMA StepCalls == IInv /\ [Next]_vars => IInv'
<1> SUFFICES ASSUME IInv, [Next]_vars PROVE IInv'
  OBVIOUS
<1>1. ASSUME ub = "none", NEW method \in BOOLEAN, NEW args \in Arguments,
             Invoke(method, args)
      PROVE  IInv'
  BY <1>1, InvokeCalls
<1>2. CASE ub = "none" /\ PushArgument
  BY <1>2, PushCalls
<1>3. CASE ub = "none" /\ CallReturns
  BY <1>3, ReturnCalls
<1>4. CASE ub = "none" /\ CallFails
  BY <1>4, FailCalls
<1>5. CASE ub = "none" /\ PopResult
  BY <1>5, PopCalls
<1>6. CASE ub = "none" /\ Finish
  BY <1>6, FinishCalls
<1>7. ASSUME ub = "none", NEW args \in Returns,
             NEW vres \in Answers \cup {Echo(args)}, Callback(args, vres)
      PROVE  IInv'
  BY <1>7, CallbackCalls
<1>8. CASE UNCHANGED vars
  <2>1. stack' = stack /\ op' = op /\ failed' = failed /\ done' = done /\ ub' = ub
    BY <1>8 DEF vars
  <2> QED
    BY <2>1 DEF IInv, ConvertedInOrder
<1> QED
  BY <1>1, <1>2, <1>3, <1>4, <1>5, <1>6, <1>7, <1>8 DEF Next

\* What the proofs of the properties rest on: what lies on the stack during a
\* call, and which of its results have been taken (invokeQuik,
\* invokeQuikObject).
THEOREM CallsInvariant == Spec => []IInv
<1>1. Init => IInv
  BY InitCalls
<1>2. IInv /\ [Next]_vars => IInv'
  BY StepCalls
<1> QED
  BY <1>1, <1>2, PTL DEF Spec

\* Every variable keeps its type, and no call takes off the stack what was
\* there before its results, whatever is converted, however many cells there
\* are and however many calls have failed.
THEOREM CallsTypeCorrect == Spec => []TypeOK
<1>1. IInv => TypeOK
  <2> SUFFICES ASSUME IInv PROVE TypeOK
    OBVIOUS
  <2>1. /\ stack \in Seq(Cells) /\ op \in Operation /\ failed \in Nat
        /\ done.kind \in {"none", "answer", "callback"} /\ ub \in {"none", "overflow"}
    BY DEF IInv
  <2>2. op.at \in {"idle", "push", "pop"} /\ op.pushed \in Nat /\ op.base \in Nat
        /\ op.args \in Seq(Variants)
    BY <2>1 DEF Operation
  <2>3. CASE op.at = "idle"
    <3>1. op.args = << >> /\ op.pushed = 0 /\ op.base = 0
      BY <2>3 DEF IInv, Idle
    <3> QED
      BY <2>1, <2>2, <3>1 DEF TypeOK
  <2>4. CASE op.at # "idle"
    <3>1. op.args \in Arguments /\ op.pushed <= Len(op.args) /\ op.base <= Len(stack)
      BY <2>4 DEF IInv, Making
    <3> QED
      BY <2>1, <2>2, <3>1 DEF TypeOK
  <2> QED
    BY <2>3, <2>4
<1> QED
  BY <1>1, CallsInvariant, PTL

\* Between calls the stack of main holds the objects of the method calls that
\* have failed, one for each, and nothing else; and only they, or a call or a
\* callback that is too large together with them, make it overflow, for every
\* size of the stack (invokeQuik, invokeQuikObject).
THEOREM StackHoldsFailed == Spec => []StackHoldsFailedCalls
<1>1. IInv => StackHoldsFailedCalls
  <2> SUFFICES ASSUME IInv PROVE StackHoldsFailedCalls
    OBVIOUS
  <2>1. ASSUME op.at = "idle" PROVE stack = [i \in 1..failed |-> CallTarget]
    <3>1. stack \in Seq(Cells) /\ failed \in Nat /\ Objects(stack, failed)
      BY <2>1 DEF IInv
    <3>2. stack = [i \in 1..Len(stack) |-> stack[i]]
      BY <3>1
    <3> QED
      BY <3>1, <3>2 DEF Objects
  <2>2. ub = "overflow" => CallTooLarge(failed) \/ CallbackTooLarge
    BY DEF IInv
  <2> QED
    BY <2>1, <2>2 DEF StackHoldsFailedCalls
<1> QED
  BY <1>1, CallsInvariant, PTL

\* A function that returns what it was given answers the client with what it
\* sent, each value converted to Lua and back, all of them and in their order,
\* though they are pushed from the first to the last and taken off from the
\* last to the first; and a client that answers a callback with its arguments
\* gives Lua each of them back (invokeQuik, universalCallbackHandler).
THEOREM ValuesConvertedInOrder == Spec => []ConvertedInOrder
<1>1. IInv => ConvertedInOrder
  BY DEF IInv
<1> QED
  BY <1>1, CallsInvariant, PTL

=============================================================================
