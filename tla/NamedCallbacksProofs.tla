-------------------------- MODULE NamedCallbacksProofs --------------------------
(* Proofs about NamedCallbacks for every number of clients, threads, names  *)
(* and calls: how far the missing locks and the order of the end reach.     *)
EXTENDS NamedCallbacks, SequenceTheorems, FiniteSetTheorems, TLAPS

CallsOK == calls \in Seq(CallRecord) /\ Len(calls) <= MaxCalls

\* A thread that is on its way is so for a call of its own that has not
\* returned.
ThreadsOK ==
    /\ DOMAIN thread = Threads
    /\ \A t \in Threads :
         /\ DOMAIN thread[t] = {"at", "call", "todo"}
         /\ thread[t].at \in Stages
         /\ thread[t].at # "idle" =>
               /\ thread[t].call \in DOMAIN calls
               /\ calls[thread[t].call].thread = t
               /\ ~calls[thread[t].call].done

\* A thread that has no entry in recentStackMap is on the way of its first
\* call, before or in setRecentStack.
StacksOK ==
    \A n \in DOMAIN calls : calls[n].thread \notin stacks =>
        /\ thread[calls[n].thread].at \in {"bridge", "stacks"}
        /\ thread[calls[n].thread].call = n

\* As long as there is no bridge, no call has got anywhere.
BridgeOK ==
    bridge = "null" =>
        /\ \A t \in Threads : thread[t].at \in {"idle", "bridge"}
        /\ \A n \in DOMAIN calls : ~calls[n].done

\* A callback gets past callbackRequest of the bridge only when the server has
\* registered names, which begins after main has; the event loop ends, and
\* the server and the bridge go, only when an OnStop has returned.
PhasesOK ==
    /\ phase \in Phases
    /\ handlers = active
    /\ phase = "init" =>
         /\ active = {}
         /\ \A t \in Threads : thread[t].at \notin {"active", "copy", "send"}
    /\ phase \notin {"init", "starting"} => ToSet(Reserved) \subseteq active
    /\ phase \in {"closing", "serverGone", "done"} => quit
    /\ quit => \E m \in DOMAIN calls : calls[m].name = Stop /\ calls[m].done
    /\ bridge = "deleted" => phase = "done"

Safe == CallsOK /\ ThreadsOK /\ StacksOK /\ BridgeOK /\ PhasesOK
IInv == Safe /\ UndefinedBehaviourCauses

-----------------------------------------------------------------------------
\* What is recorded as undefined behaviour was one of the risks of the step.
LEMMA RiskCause ==
    ASSUME NEW STATE faults, ub = "none", Risk(faults)
    PROVE  ub' = "none" \/ \E f \in faults : f[1] /\ f[2] = ub'
<1> DEFINE present == {f[2] : f \in {g \in faults : g[1]}}
<1>1. UNCHANGED ub \/ ub' \in present
  BY DEF Risk
<1> QED
  BY <1>1

\* A step with one risk, and one with two.
LEMMA OneRisk ==
    ASSUME NEW STATE cond, NEW kind, ub = "none", Risk({<<cond, kind>>})
    PROVE  ub' = "none" \/ (cond /\ ub' = kind)
<1>1. ub' = "none" \/ \E f \in {<<cond, kind>>} : f[1] /\ f[2] = ub'
  BY RiskCause
<1> QED
  BY <1>1

LEMMA TwoRisks ==
    ASSUME NEW STATE cond, NEW kind, NEW STATE other, NEW otherKind,
           ub = "none", Risk({<<cond, kind>>, <<other, otherKind>>})
    PROVE  ub' = "none" \/ (cond /\ ub' = kind) \/ (other /\ ub' = otherKind)
<1> DEFINE faults == {<<cond, kind>>, <<other, otherKind>>}
<1>1. ub' = "none" \/ \E f \in faults : f[1] /\ f[2] = ub'
  BY RiskCause
<1> QED
  BY <1>1

\* Each call was made on a thread of QUIK.
LEMMA CallsHaveThreads ==
    ASSUME CallsOK
    PROVE  \A n \in DOMAIN calls : calls[n].thread \in Threads
<1> SUFFICES ASSUME NEW n \in DOMAIN calls PROVE calls[n].thread \in Threads
  OBVIOUS
<1>1. DOMAIN calls = 1..Len(calls)
  BY DEF CallsOK
<1>2. calls[n] \in CallRecord
  BY <1>1 DEF CallsOK
<1> QED
  BY <1>2 DEF CallRecord

\* A call that moves on to another stage stays the same call.
LEMMA MoveKeeps ==
    ASSUME CallsOK, ThreadsOK, NEW t \in Threads, thread[t].at # "idle",
           NEW s \in Stages \ {"idle"}, MoveTo(t, s), UNCHANGED calls
    PROVE  /\ CallsOK' /\ ThreadsOK'
           /\ thread'[t].at = s /\ thread'[t].call = thread[t].call
           /\ \A u \in Threads \ {t} : thread'[u] = thread[u]
<1>1. thread' = [thread EXCEPT ![t] = [thread[t] EXCEPT !.at = s]]
  BY DEF MoveTo
<1> QED
  BY <1>1 DEF CallsOK, ThreadsOK

\* A call that returns leaves its thread idle, and the others as they were.
LEMMA ReturnKeeps ==
    ASSUME CallsOK, ThreadsOK, NEW t \in Threads, thread[t].at # "idle",
           NEW fault \in BOOLEAN, Return(t, fault)
    PROVE  /\ CallsOK' /\ ThreadsOK'
           /\ thread'[t].at = "idle"
           /\ \A u \in Threads \ {t} : thread'[u] = thread[u]
           /\ DOMAIN calls' = DOMAIN calls
           /\ calls'[thread[t].call].done = ~fault
           /\ \A n \in DOMAIN calls :
                /\ calls'[n].name = calls[n].name
                /\ calls'[n].thread = calls[n].thread
                /\ calls'[n].due = calls[n].due
                /\ n # thread[t].call => calls'[n] = calls[n]
<1> DEFINE k == thread[t].call
<1>1. k \in 1..Len(calls) /\ calls[k] \in CallRecord /\ calls[k].thread = t
  BY DEF CallsOK, ThreadsOK
<1> DEFINE r == [calls[k] EXCEPT !.done = ~fault]
<1>2. /\ r \in CallRecord /\ r.done = ~fault
      /\ r.name = calls[k].name /\ r.thread = calls[k].thread
      /\ r.due = calls[k].due
  BY <1>1 DEF CallRecord
<1>3. calls' = [calls EXCEPT ![k] = r] /\ thread' = [thread EXCEPT ![t] = Idle]
  BY DEF Return
<1> HIDE DEF k, r
<1>4. /\ calls' \in Seq(CallRecord) /\ Len(calls') = Len(calls)
      /\ DOMAIN calls' = DOMAIN calls
      /\ calls'[k] = r
      /\ \A n \in DOMAIN calls : n # k => calls'[n] = calls[n]
  BY <1>1, <1>2, <1>3, ExceptSeq DEF CallsOK
<1>5. /\ DOMAIN thread' = Threads
      /\ thread'[t] = Idle
      /\ \A u \in Threads \ {t} : thread'[u] = thread[u]
  BY <1>3 DEF ThreadsOK
<1>6. ASSUME NEW u \in Threads, u # t, thread[u].at # "idle"
      PROVE  thread[u].call # k
  BY <1>1, <1>6 DEF ThreadsOK
<1>7. ThreadsOK'
  BY <1>1, <1>4, <1>5, <1>6 DEF ThreadsOK, Idle, Stages
<1> QED
  BY <1>2, <1>4, <1>5, <1>7 DEF CallsOK, k, Idle

-----------------------------------------------------------------------------
(* The steps of a callback.                                                *)

\* The call of a thread that is in setRecentStack without an entry in the map
\* is the first of that thread.
LEMMA FirstCall ==
    ASSUME Safe, NEW t \in Threads, thread[t].at = "stacks", t \notin stacks
    PROVE  \E n \in Calls : Running(n) /\ First(n)
<1> DEFINE k == thread[t].call
<1>1. k \in DOMAIN calls /\ calls[k].thread = t /\ ~calls[k].done
  BY DEF Safe, ThreadsOK
<1>2. k \in Calls /\ Len(calls) \in Nat /\ DOMAIN calls = 1..Len(calls)
  BY <1>1, MaxCallsAssumption DEF Safe, CallsOK, Calls
<1>3. ASSUME NEW m \in 1..(k - 1), calls[m].thread = t PROVE FALSE
  <2>1. m \in DOMAIN calls /\ m # k
    BY <1>1, <1>2
  <2> QED
    BY <1>3, <2>1 DEF Safe, StacksOK
<1>4. Running(k) /\ First(k)
  BY <1>1, <1>3 DEF Running, First
<1> QED
  BY <1>2, <1>4

\* Whoever uses the server or the bridge after its end does so in a call that
\* has not returned, while the OnStop that led to the end has.
LEMMA StoppedByAnother ==
    ASSUME Safe, NEW t \in Threads, thread[t].at # "idle", quit
    PROVE  \E n \in Calls : /\ Running(n)
                            /\ \E m \in Calls \ {n} : m \in DOMAIN calls
                                   /\ calls[m].name = Stop /\ calls[m].done
<1>1. PICK m \in DOMAIN calls : calls[m].name = Stop /\ calls[m].done
  BY DEF Safe, PhasesOK
<1> DEFINE k == thread[t].call
<1>2. k \in DOMAIN calls /\ ~calls[k].done
  BY DEF Safe, ThreadsOK
<1>3. DOMAIN calls \subseteq Calls
  BY MaxCallsAssumption DEF Safe, CallsOK, Calls
<1> QED
  BY <1>1, <1>2, <1>3 DEF Running

LEMMA CallInvariant ==
    ASSUME IInv, ub = "none", NEW t \in Threads, NEW name \in Names, Call(t, name)
    PROVE  IInv'
<1> DEFINE r == [name |-> name, thread |-> t, done |-> FALSE,
                 due |-> {c \in Conns : conn[c] = "open" /\ name \in subs[c]}]
<1>1. /\ r \in CallRecord /\ ~r.done /\ r.thread = t
  BY DEF CallRecord
<1>2. calls' = Append(calls, r)
  BY DEF Call
<1> HIDE DEF r
<1>3. /\ calls' \in Seq(CallRecord)
      /\ Len(calls) \in Nat /\ Len(calls') = Len(calls) + 1
      /\ DOMAIN calls = 1..Len(calls) /\ DOMAIN calls' = 1..Len(calls')
      /\ calls'[Len(calls')] = r
      /\ \A n \in DOMAIN calls : n \in DOMAIN calls' /\ calls'[n] = calls[n]
      /\ \A n \in DOMAIN calls' : n \in DOMAIN calls \/ n = Len(calls')
  BY <1>1, <1>2 DEF IInv, Safe, CallsOK
<1>4. CallsOK'
  BY <1>3, MaxCallsAssumption DEF CallsOK, Call
<1> DEFINE v == [at |-> "bridge", todo |-> << >>, call |-> Len(calls')]
<1>5. /\ DOMAIN thread' = Threads
      /\ thread'[t] = v
      /\ \A u \in Threads \ {t} : thread'[u] = thread[u]
  BY DEF Call, IInv, Safe, ThreadsOK
<1>6. ThreadsOK'
  BY <1>1, <1>3, <1>5 DEF IInv, Safe, ThreadsOK, Stages
<1>7. StacksOK'
  <2> SUFFICES ASSUME NEW n \in DOMAIN calls', calls'[n].thread \notin stacks
               PROVE  /\ thread'[calls'[n].thread].at \in {"bridge", "stacks"}
                      /\ thread'[calls'[n].thread].call = n
    BY DEF StacksOK, Call, bridgeVars
  <2>1. CASE n = Len(calls')
    BY <1>1, <1>3, <1>5, <2>1
  <2>2. CASE n \in DOMAIN calls
    <3>1. /\ calls'[n] = calls[n]
          /\ thread[calls[n].thread].at \in {"bridge", "stacks"}
      BY <1>3, <2>2 DEF IInv, Safe, StacksOK
    <3>2. calls[n].thread \in Threads
      BY <2>2, CallsHaveThreads DEF IInv, Safe
    <3>3. calls[n].thread # t
      BY <3>1 DEF Call
    <3> QED
      BY <1>5, <2>2, <3>1, <3>2, <3>3 DEF IInv, Safe, StacksOK
  <2> QED
    BY <1>3, <2>1, <2>2
<1>8. BridgeOK'
  BY <1>1, <1>3, <1>5 DEF IInv, Safe, BridgeOK, Call, bridgeVars
<1>9. PhasesOK'
  BY <1>1, <1>3, <1>5
     DEF IInv, Safe, PhasesOK, Call, mainVars, bridgeVars, serverVars
<1> QED
  BY <1>4, <1>6, <1>7, <1>8, <1>9
     DEF IInv, Safe, UndefinedBehaviourCauses, Call

\* A step that only moves one thread on, past the map of stacks, keeps the
\* invariant as far as the variables go.
LEMMA MoveSafe ==
    ASSUME Safe, NEW t \in Threads, thread[t].at \in {"handlers", "active", "copy"},
           NEW s \in {"active", "copy", "send"},
           thread[t].at = "handlers" => phase # "init",
           MoveTo(t, s),
           UNCHANGED <<mainVars, bridgeVars, active, calls>>
    PROVE  Safe'
<1>1. /\ CallsOK' /\ ThreadsOK'
      /\ thread'[t].at = s /\ thread'[t].call = thread[t].call
      /\ \A u \in Threads \ {t} : thread'[u] = thread[u]
  BY MoveKeeps DEF Safe, Stages
<1>2. \A n \in DOMAIN calls : calls[n].thread \in Threads
  BY CallsHaveThreads DEF Safe
<1>3. StacksOK'
  BY <1>1, <1>2 DEF Safe, StacksOK, bridgeVars
<1>4. BridgeOK'
  BY <1>1 DEF Safe, BridgeOK, bridgeVars
<1>5. PhasesOK'
  BY <1>1 DEF Safe, PhasesOK, bridgeVars, mainVars
<1> QED
  BY <1>1, <1>3, <1>4, <1>5 DEF Safe

\* So does a step in which a call returns; OnStop may quit.
LEMMA ReturnSafe ==
    ASSUME Safe, NEW t \in Threads,
           thread[t].at \in {"handlers", "active", "send"},
           NEW fault \in BOOLEAN, Return(t, fault),
           UNCHANGED <<phase, bridgeVars, active>>,
           quit => quit',
           quit' => quit \/ (NameOf(t) = Stop /\ ~fault)
    PROVE  Safe'
<1> DEFINE k == thread[t].call
<1>1. /\ CallsOK' /\ ThreadsOK'
      /\ thread'[t].at = "idle"
      /\ \A u \in Threads \ {t} : thread'[u] = thread[u]
      /\ DOMAIN calls' = DOMAIN calls
      /\ calls'[k].done = ~fault
      /\ \A n \in DOMAIN calls :
           /\ calls'[n].name = calls[n].name
           /\ calls'[n].thread = calls[n].thread
           /\ n # k => calls'[n] = calls[n]
  BY ReturnKeeps DEF Safe
<1>2. k \in DOMAIN calls /\ calls[k].thread = t /\ ~calls[k].done
  BY DEF Safe, ThreadsOK
<1>3. \A n \in DOMAIN calls : calls[n].thread \in Threads
  BY CallsHaveThreads DEF Safe
<1>4. StacksOK'
  BY <1>1, <1>3 DEF Safe, StacksOK, bridgeVars
<1>5. BridgeOK'
  BY <1>1 DEF Safe, BridgeOK, bridgeVars
<1>6. quit' => \E m \in DOMAIN calls' : calls'[m].name = Stop /\ calls'[m].done
  <2>1. CASE quit' /\ quit
    BY <1>1, <1>2, <2>1 DEF Safe, PhasesOK
  <2>2. CASE quit' /\ ~quit
    BY <1>1, <1>2, <2>2 DEF NameOf
  <2> QED
    BY <2>1, <2>2
<1>7. phase \in {"closing", "serverGone", "done"} => quit'
  BY DEF Safe, PhasesOK
<1>8. PhasesOK'
  BY <1>1, <1>6, <1>7 DEF Safe, PhasesOK, bridgeVars
<1> QED
  BY <1>1, <1>4, <1>5, <1>8 DEF Safe

LEMMA FindBridgeInvariant ==
    ASSUME IInv, ub = "none", NEW t \in Threads, FindBridge(t)
    PROVE  IInv'
<1>1. /\ CallsOK' /\ ThreadsOK'
      /\ thread'[t].at = "stacks" /\ thread'[t].call = thread[t].call
      /\ \A u \in Threads \ {t} : thread'[u] = thread[u]
  BY MoveKeeps DEF IInv, Safe, Stages, FindBridge
<1>2. \A n \in DOMAIN calls : calls[n].thread \in Threads
  BY CallsHaveThreads DEF IInv, Safe
<1>3. StacksOK'
  BY <1>1, <1>2 DEF IInv, Safe, StacksOK, FindBridge
<1>4. BridgeOK'
  BY DEF FindBridge, IInv, Safe, BridgeOK
<1>5. PhasesOK'
  BY <1>1 DEF IInv, Safe, PhasesOK, FindBridge, mainVars, serverVars
<1>6. ub' # "none" => ub' = "raceBridge" /\ bridge = "null"
  BY OneRisk DEF FindBridge
<1>7. UndefinedBehaviourCauses'
  BY <1>6 DEF UndefinedBehaviourCauses, IInv, Safe, BridgeOK, Running, FindBridge
<1> QED
  BY <1>1, <1>3, <1>4, <1>5, <1>7 DEF IInv, Safe

BridgeIsGone == bridge = "deleted"

\* Two threads in setRecentStack, one of them for the first time.
NewEntry(t) == \E u \in Threads \ {t} : /\ thread[u].at = "stacks"
                                         /\ {t, u} \ stacks # {}

LEMMA SetRecentStackInvariant ==
    ASSUME IInv, ub = "none", NEW t \in Threads, SetRecentStack(t)
    PROVE  IInv'
<1>1. /\ CallsOK' /\ ThreadsOK'
      /\ thread'[t].at = "handlers" /\ thread'[t].call = thread[t].call
      /\ \A u \in Threads \ {t} : thread'[u] = thread[u]
  BY MoveKeeps DEF IInv, Safe, Stages, SetRecentStack
<1>2. \A n \in DOMAIN calls : calls[n].thread \in Threads
  BY CallsHaveThreads DEF IInv, Safe
<1>3. StacksOK'
  BY <1>1, <1>2 DEF IInv, Safe, StacksOK, SetRecentStack
<1>4. BridgeOK'
  BY DEF SetRecentStack, IInv, Safe, BridgeOK
<1>5. PhasesOK'
  BY <1>1 DEF IInv, Safe, PhasesOK, SetRecentStack, mainVars, serverVars
<1>6. \/ ub' = "none"
      \/ bridge = "deleted" /\ ub' = "freedBridge"
      \/ NewEntry(t) /\ ub' = "raceStacks"
  <2>1. Risk({<<BridgeIsGone, "freedBridge">>, <<NewEntry(t), "raceStacks">>})
    BY DEF SetRecentStack, NewEntry, BridgeIsGone
  <2>2. \/ ub' = "none"
        \/ BridgeIsGone /\ ub' = "freedBridge"
        \/ NewEntry(t) /\ ub' = "raceStacks"
    BY <2>1, TwoRisks
  <2> QED
    BY <2>2 DEF BridgeIsGone
<1>7. UNCHANGED calls
  BY DEF SetRecentStack
<1>8. CASE ub' = "freedBridge" /\ bridge = "deleted"
  <2>1. quit
    BY <1>8 DEF IInv, Safe, PhasesOK
  <2>2. thread[t].at # "idle"
    BY DEF SetRecentStack
  <2> QED
    BY <1>1, <1>3, <1>4, <1>5, <1>7, <1>8, <2>1, <2>2, StoppedByAnother
       DEF IInv, Safe, UndefinedBehaviourCauses, Running
<1>9. CASE NewEntry(t) /\ ub' = "raceStacks"
  <2>1. PICK u \in Threads : thread[u].at = "stacks" /\ u \notin stacks
    BY <1>9 DEF SetRecentStack, NewEntry
  <2>2. \E n \in Calls : Running(n) /\ First(n)
    BY <2>1, FirstCall DEF IInv
  <2> QED
    BY <1>1, <1>3, <1>4, <1>5, <1>7, <1>9, <2>2
       DEF IInv, Safe, UndefinedBehaviourCauses, Running, First
<1>10. CASE ub' = "none"
  BY <1>1, <1>3, <1>4, <1>5, <1>10 DEF IInv, Safe, UndefinedBehaviourCauses
<1> QED
  BY <1>6, <1>8, <1>9, <1>10

\* Undefined behaviour of a step that does not return from a call by it: the
\* end was brought about by another call.
LEMMA FreedHasCause ==
    ASSUME IInv, NEW t \in Threads, thread[t].at # "idle", quit,
           UNCHANGED calls, ub' \in {"freedServer", "freedBridge"}
    PROVE  UndefinedBehaviourCauses'
  BY StoppedByAnother DEF IInv, UndefinedBehaviourCauses, Running

\* And of one that does.
LEMMA FreedInReturnHasCause ==
    ASSUME IInv, NEW t \in Threads, thread[t].at # "idle", quit,
           Return(t, TRUE), ub' \in {"freedServer", "freedBridge"}
    PROVE  UndefinedBehaviourCauses'
<1> DEFINE k == thread[t].call
<1>1. PICK m \in DOMAIN calls : calls[m].name = Stop /\ calls[m].done
  BY DEF IInv, Safe, PhasesOK
<1>2. k \in DOMAIN calls /\ ~calls[k].done
  BY DEF IInv, Safe, ThreadsOK
<1>3. DOMAIN calls \subseteq Calls
  BY MaxCallsAssumption DEF IInv, Safe, CallsOK, Calls
<1>4. /\ DOMAIN calls' = DOMAIN calls
      /\ calls'[k].done = FALSE
      /\ calls'[m] = calls[m]
  BY <1>1, <1>2, ReturnKeeps DEF IInv, Safe
<1> QED
  BY <1>1, <1>2, <1>3, <1>4 DEF UndefinedBehaviourCauses, Running

LEMMA FindHandlerInvariant ==
    ASSUME IInv, ub = "none", NEW t \in Threads, FindHandler(t)
    PROVE  IInv'
<1>1. ub' = "none" \/ (ub' = "freedBridge" /\ bridge = "deleted")
  BY OneRisk DEF FindHandler
<1>2. bridge = "deleted" => quit
  BY DEF IInv, Safe, PhasesOK
<1>3. thread[t].at = "handlers" /\ UNCHANGED <<mainVars, bridgeVars, active>>
  BY DEF FindHandler, serverVars
<1>4. CASE NameOf(t) \in handlers
  <2>1. MoveTo(t, "active") /\ UNCHANGED calls
    BY <1>4 DEF FindHandler
  <2>2. phase # "init"
    BY <1>4 DEF IInv, Safe, PhasesOK
  <2>3. Safe'
    BY <1>3, <2>1, <2>2, MoveSafe DEF IInv
  <2>4. UndefinedBehaviourCauses'
    BY <1>1, <1>2, <1>3, <2>1, FreedHasCause DEF UndefinedBehaviourCauses
  <2> QED
    BY <2>3, <2>4 DEF IInv
<1>5. CASE NameOf(t) \notin handlers
  <2>1. Return(t, bridge = "deleted")
    BY <1>5 DEF FindHandler
  <2>2. Safe'
    BY <1>3, <2>1, ReturnSafe DEF IInv, mainVars
  <2>3. CASE bridge = "deleted"
    <3>1. Return(t, TRUE)
      BY <2>1, <2>3 DEF Return
    <3> QED
      BY <1>1, <1>2, <1>3, <2>2, <2>3, <3>1, FreedInReturnHasCause
         DEF IInv, UndefinedBehaviourCauses
  <2>4. CASE bridge # "deleted"
    BY <1>1, <2>2, <2>4 DEF IInv, UndefinedBehaviourCauses
  <2> QED
    BY <2>3, <2>4
<1> QED
  BY <1>4, <1>5

\* Once a callback is past callbackRequest of the bridge, a server that is
\* not there has been there.
LEMMA ServerIsGone ==
    ASSUME Safe, NEW t \in Threads, thread[t].at \in {"active", "copy", "send"},
           ~ServerAlive
    PROVE  quit /\ phase # "loop"
  BY DEF Safe, PhasesOK, Phases, ServerAlive

LEMMA TestActiveInvariant ==
    ASSUME IInv, ub = "none", NEW t \in Threads, TestActive(t)
    PROVE  IInv'
<1>1. ub' = "none" \/ (ub' = "freedServer" /\ ~ServerAlive)
  BY OneRisk DEF TestActive
<1>2. thread[t].at = "active" /\ UNCHANGED <<mainVars, bridgeVars, active>>
  BY DEF TestActive, serverVars
<1>3. ~ServerAlive => quit
  BY <1>2, ServerIsGone DEF IInv
<1>4. CASE NameOf(t) \in active
  <2>1. MoveTo(t, "copy") /\ UNCHANGED calls
    BY <1>4 DEF TestActive
  <2>2. Safe'
    BY <1>2, <2>1, MoveSafe DEF IInv
  <2>3. UndefinedBehaviourCauses'
    BY <1>1, <1>2, <1>3, <2>1, FreedHasCause DEF UndefinedBehaviourCauses
  <2> QED
    BY <2>2, <2>3 DEF IInv
<1>5. CASE NameOf(t) \notin active
  <2>1. Return(t, ~ServerAlive)
    BY <1>5 DEF TestActive
  <2>2. Safe'
    BY <1>2, <2>1, ReturnSafe DEF IInv, mainVars, ServerAlive
  <2>3. CASE ~ServerAlive
    <3>1. Return(t, TRUE)
      BY <2>1, <2>3 DEF Return
    <3> QED
      BY <1>1, <1>2, <1>3, <2>2, <2>3, <3>1, FreedInReturnHasCause
         DEF IInv, UndefinedBehaviourCauses
  <2>4. CASE ServerAlive
    BY <1>1, <2>2, <2>4 DEF IInv, UndefinedBehaviourCauses
  <2> QED
    BY <2>3, <2>4
<1> QED
  BY <1>4, <1>5

LEMMA CopyConnectionsInvariant ==
    ASSUME IInv, ub = "none", NEW t \in Threads, CopyConnections(t)
    PROVE  IInv'
<1>1. ub' = "none" \/ (ub' = "freedServer" /\ ~ServerAlive)
  BY OneRisk DEF CopyConnections
<1>2. thread[t].at = "copy" /\ UNCHANGED <<mainVars, bridgeVars, active, calls>>
  BY DEF CopyConnections, serverVars
<1>3. ~ServerAlive => quit
  BY <1>2, ServerIsGone DEF IInv
<1>4. /\ DOMAIN thread' = Threads
      /\ DOMAIN thread'[t] = {"at", "call", "todo"}
      /\ thread'[t].at = "send" /\ thread'[t].call = thread[t].call
      /\ \A u \in Threads \ {t} : thread'[u] = thread[u]
  BY DEF CopyConnections, IInv, Safe, ThreadsOK
<1>5. \A n \in DOMAIN calls : calls[n].thread \in Threads
  BY CallsHaveThreads DEF IInv, Safe
<1>6. Safe'
  <2>1. CallsOK' /\ ThreadsOK'
    BY <1>2, <1>4 DEF IInv, Safe, CallsOK, ThreadsOK, Stages
  <2>2. StacksOK'
    BY <1>2, <1>4, <1>5 DEF IInv, Safe, StacksOK, bridgeVars
  <2>3. BridgeOK'
    BY <1>2, <1>4 DEF IInv, Safe, BridgeOK, bridgeVars
  <2>4. PhasesOK'
    BY <1>2, <1>4 DEF IInv, Safe, PhasesOK, bridgeVars, mainVars
  <2> QED
    BY <2>1, <2>2, <2>3, <2>4 DEF Safe
<1>7. UndefinedBehaviourCauses'
  BY <1>1, <1>2, <1>3, FreedHasCause DEF UndefinedBehaviourCauses
<1> QED
  BY <1>6, <1>7 DEF IInv

LEMMA SendToNextInvariant ==
    ASSUME IInv, ub = "none", NEW t \in Threads, SendToNext(t)
    PROVE  IInv'
<1>1. ub' = "none" \/ ub' = "freedConnection"
  BY OneRisk DEF SendToNext
<1>2. thread[t].at = "send" /\ UNCHANGED <<mainVars, bridgeVars, active, calls>>
  BY DEF SendToNext, serverVars
<1>3. /\ DOMAIN thread' = Threads
      /\ DOMAIN thread'[t] = {"at", "call", "todo"}
      /\ thread'[t].at = "send" /\ thread'[t].call = thread[t].call
      /\ \A u \in Threads \ {t} : thread'[u] = thread[u]
  BY DEF SendToNext, IInv, Safe, ThreadsOK
<1>4. \A n \in DOMAIN calls : calls[n].thread \in Threads
  BY CallsHaveThreads DEF IInv, Safe
<1>5. CallsOK' /\ ThreadsOK'
  BY <1>2, <1>3 DEF IInv, Safe, CallsOK, ThreadsOK, Stages
<1>6. StacksOK'
  BY <1>2, <1>3, <1>4 DEF IInv, Safe, StacksOK, bridgeVars
<1>7. BridgeOK'
  BY <1>2, <1>3 DEF IInv, Safe, BridgeOK, bridgeVars
<1>8. PhasesOK'
  BY <1>2, <1>3 DEF IInv, Safe, PhasesOK, bridgeVars, mainVars
<1> QED
  BY <1>1, <1>5, <1>6, <1>7, <1>8 DEF IInv, Safe, UndefinedBehaviourCauses

LEMMA FinishCallInvariant ==
    ASSUME IInv, ub = "none", NEW t \in Threads, FinishCall(t)
    PROVE  IInv'
<1> DEFINE fault == NameOf(t) \in Updates /\ ~ServerAlive
<1>1. ub' = "none" \/ (ub' = "freedServer" /\ fault)
  BY OneRisk DEF FinishCall
<1>2. /\ thread[t].at = "send"
      /\ Return(t, fault)
      /\ UNCHANGED <<phase, bridgeVars, active>>
      /\ quit' = (quit \/ (NameOf(t) = Stop /\ phase = "loop"))
  BY DEF FinishCall, serverVars
<1>3. (quit => quit') /\ (quit' => quit \/ (NameOf(t) = Stop /\ ~fault))
  BY <1>2 DEF ServerAlive
<1>4. Safe'
  BY <1>2, <1>3, ReturnSafe DEF IInv
<1>5. CASE fault
  <2>1. Return(t, TRUE) /\ quit
    BY <1>2, <1>5, ServerIsGone DEF Return, IInv
  <2> QED
    BY <1>1, <1>2, <1>4, <2>1, FreedInReturnHasCause
       DEF IInv, UndefinedBehaviourCauses
<1>6. CASE ~fault
  BY <1>1, <1>4, <1>6 DEF IInv, UndefinedBehaviourCauses
<1> QED
  BY <1>5, <1>6

-----------------------------------------------------------------------------
(* The steps of the server thread.                                         *)

\* A step that leaves threads, calls and names alone keeps the invariant as
\* far as the variables go, if the phase and the bridge move as they do.
LEMMA ServerStepSafe ==
    ASSUME Safe, UNCHANGED <<handlers, active, quit, thread, calls>>,
           stacks \subseteq stacks',
           bridge' = "null" => bridge = "null",
           bridge' = "deleted" => bridge = "deleted" \/ phase' = "done",
           \/ UNCHANGED phase
           \/ phase = "init" /\ phase' = "starting"
           \/ phase = "starting" /\ phase' = "loop" /\ ToSet(Reserved) \subseteq active
           \/ phase = "loop" /\ phase' = "closing" /\ quit
           \/ phase = "closing" /\ phase' = "serverGone"
           \/ phase = "serverGone" /\ phase' = "done"
    PROVE  Safe'
<1>1. CallsOK' /\ ThreadsOK'
  BY DEF Safe, CallsOK, ThreadsOK
<1>2. StacksOK'
  BY DEF Safe, StacksOK
<1>3. BridgeOK'
  BY DEF Safe, BridgeOK
<1>4. PhasesOK'
  BY DEF Safe, PhasesOK, Phases
<1> QED
  BY <1>1, <1>2, <1>3, <1>4 DEF Safe

\* Nor does it matter that names are added, once main has begun.
LEMMA NewNameSafe ==
    ASSUME Safe, phase # "init", NEW name,
           handlers' = handlers \cup {name}, active' = active \cup {name},
           UNCHANGED <<phase, quit, bridge, stacks, thread, calls>>
    PROVE  Safe'
<1>1. CallsOK' /\ ThreadsOK' /\ StacksOK' /\ BridgeOK'
  BY DEF Safe, CallsOK, ThreadsOK, StacksOK, BridgeOK
<1>2. PhasesOK'
  BY DEF Safe, PhasesOK
<1> QED
  BY <1>1, <1>2 DEF Safe

LEMMA StartMainInvariant ==
    ASSUME IInv, ub = "none", StartMain
    PROVE  IInv'
<1>1. \/ ub' = "none"
      \/ (bridge = "null" /\ Someone("bridge")) /\ ub' = "raceBridge"
      \/ Someone("stacks") /\ ub' = "raceStacks"
  BY TwoRisks DEF StartMain
<1>2. Safe'
  BY ServerStepSafe DEF StartMain, IInv, quikVars, serverVars
<1>3. active' = {}
  BY DEF StartMain, serverVars, IInv, Safe, PhasesOK
<1>4. bridge = "null" => \A n \in DOMAIN calls' : Running(n)'
  BY DEF StartMain, quikVars, IInv, Safe, BridgeOK, Running
<1> QED
  BY <1>1, <1>2, <1>3, <1>4 DEF IInv, UndefinedBehaviourCauses

LEMMA ConstructInvariant ==
    ASSUME IInv, ub = "none", Construct
    PROVE  IInv'
<1>1. \/ ub' = "none"
      \/ Someone("handlers") /\ ub' = "raceHandlers"
      \/ Someone("active") /\ ub' = "raceActive"
  BY TwoRisks DEF Construct
<1>2. PICK i \in DOMAIN Reserved : /\ handlers' = handlers \cup {Reserved[i]}
                                   /\ active' = active \cup {Reserved[i]}
  BY DEF Construct
<1>3. phase = "starting" /\ UNCHANGED <<phase, quit, bridge, stacks, thread, calls>>
  BY DEF Construct, mainVars, quikVars
<1>4. Safe'
  BY <1>2, <1>3, NewNameSafe DEF IInv
<1> QED
  BY <1>1, <1>3, <1>4 DEF IInv, UndefinedBehaviourCauses

\* A name is new to a map that a callback is reading.
AddedTo(map, name, stage) == name \notin map /\ Someone(stage)

\* A callback reads the subscriptions of this client.
SendingTo(c) == \E t \in Threads : /\ thread[t].at = "send" /\ thread[t].todo # << >>
                                   /\ Head(thread[t].todo) = c

LEMMA RegisterInvariant ==
    ASSUME IInv, ub = "none", NEW c \in Conns, NEW name, Register(c, name)
    PROVE  IInv'
<1>1. \/ ub' = "none"
      \/ ub' = "raceHandlers" /\ name \notin handlers
      \/ ub' = "raceActive" /\ name \notin active
      \/ ub' = "raceSubscriptions"
  <2> DEFINE faults == {<<AddedTo(handlers, name, "handlers"), "raceHandlers">>,
                        <<AddedTo(active, name, "active"), "raceActive">>,
                        <<SendingTo(c), "raceSubscriptions">>}
  <2>1. Risk(faults)
    BY DEF Register, AddedTo, SendingTo
  <2>2. ub' = "none" \/ \E f \in faults : f[1] /\ f[2] = ub'
    BY <2>1, RiskCause
  <2>3. \/ ub' = "none"
        \/ AddedTo(handlers, name, "handlers") /\ ub' = "raceHandlers"
        \/ AddedTo(active, name, "active") /\ ub' = "raceActive"
        \/ ub' = "raceSubscriptions"
    BY <2>2
  <2> QED
    BY <2>3 DEF AddedTo
<1>2. /\ phase = "loop"
      /\ handlers' = handlers \cup {name} /\ active' = active \cup {name}
      /\ UNCHANGED <<phase, quit, bridge, stacks, thread, calls>>
  BY DEF Register, mainVars, quikVars
<1>3. Safe'
  BY <1>2, NewNameSafe DEF IInv
<1>4. handlers = active /\ ToSet(Reserved) \subseteq active
  BY <1>2 DEF IInv, Safe, PhasesOK
<1>5. name \notin active => active' # ToSet(Reserved)
  BY <1>2, <1>4
<1> QED
  BY <1>1, <1>3, <1>4, <1>5 DEF IInv, UndefinedBehaviourCauses

LEMMA UseRecentStackInvariant ==
    ASSUME IInv, ub = "none", UseRecentStack
    PROVE  IInv'
<1>1. \E n \in Calls : Running(n) /\ First(n)
  BY FirstCall DEF UseRecentStack, IInv
<1>2. Safe'
  BY ServerStepSafe
     DEF UseRecentStack, IInv, mainVars, bridgeVars, serverVars, quikVars
<1> QED
  BY <1>1, <1>2
     DEF IInv, UndefinedBehaviourCauses, UseRecentStack, quikVars, Running, First

LEMMA DestroyBridgeInvariant ==
    ASSUME IInv, ub = "none", DestroyBridge
    PROVE  IInv'
<1>1. \/ ub' = "none"
      \/ (\E t \in Threads \ stacks : thread[t].at = "stacks") /\ ub' = "raceStacks"
  BY OneRisk DEF DestroyBridge
<1>2. Safe'
  BY ServerStepSafe DEF DestroyBridge, IInv, serverVars, quikVars
<1>3. (\E t \in Threads \ stacks : thread[t].at = "stacks") =>
          \E n \in Calls : Running(n) /\ First(n)
  BY FirstCall DEF IInv
<1> QED
  BY <1>1, <1>2, <1>3
     DEF IInv, UndefinedBehaviourCauses, DestroyBridge, quikVars, Running, First

\* Connections come and go without a trace in what these properties are about.
LEMMA ConnectionsInvariant ==
    ASSUME IInv, ub = "none",
           \/ \E c \in Conns : Establish(c) \/ Close(c)
           \/ DestroyConnection
    PROVE  IInv'
<1>1. Risk({<<Someone("copy"), "raceConnections">>})
  BY DEF Establish, Close, DestroyConnection, DeleteConnection
<1>2. ub' = "none" \/ ub' = "raceConnections"
  BY <1>1, OneRisk
<1>3. UNCHANGED <<phase, quit, bridge, stacks, handlers, active, thread, calls>>
  BY DEF Establish, Close, DestroyConnection, mainVars, bridgeVars, quikVars
<1>4. Safe'
  BY <1>3, ServerStepSafe DEF IInv
<1> QED
  BY <1>2, <1>4 DEF IInv, UndefinedBehaviourCauses

\* The remaining steps of the event loop and of main.
LEMMA LoopInvariant ==
    ASSUME IInv, ub = "none",
           \/ Exec \/ TakeUpdate \/ LeaveLoop \/ DestroyServer
           \/ \E c \in Conns : Deliver(c)
    PROVE  IInv'
<1>1. ub' = "none"
  BY DEF Exec, TakeUpdate, LeaveLoop, DestroyServer, Deliver
<1>2. Safe'
  <2>1. UNCHANGED <<bridge, stacks, handlers, active, quit, thread, calls>>
    BY DEF Exec, TakeUpdate, LeaveLoop, DestroyServer, Deliver, mainVars,
           bridgeVars, serverVars, quikVars
  <2>2. \/ UNCHANGED phase
        \/ phase = "starting" /\ phase' = "loop" /\ ToSet(Reserved) \subseteq active
        \/ phase = "loop" /\ phase' = "closing" /\ quit
        \/ phase = "closing" /\ phase' = "serverGone"
    BY DEF Exec, TakeUpdate, LeaveLoop, DestroyServer, Deliver, mainVars
  <2> QED
    BY <2>1, <2>2, ServerStepSafe DEF IInv
<1> QED
  BY <1>1, <1>2 DEF IInv, UndefinedBehaviourCauses

-----------------------------------------------------------------------------
\* Before main has begun nothing is wrong.
LEMMA InitInvariant == Init => IInv
<1> SUFFICES ASSUME Init PROVE IInv
  OBVIOUS
<1>1. CallsOK /\ ThreadsOK
  BY MaxCallsAssumption DEF Init, CallsOK, ThreadsOK, Idle, Stages
<1>2. StacksOK /\ BridgeOK
  BY DEF Init, StacksOK, BridgeOK, Idle
<1>3. PhasesOK
  BY DEF Init, PhasesOK, Phases, Idle
<1> QED
  BY <1>1, <1>2, <1>3 DEF IInv, Safe, UndefinedBehaviourCauses, Init

\* Every step keeps the invariant.
LEMMA NextInvariant == IInv /\ [Next]_vars => IInv'
<1> SUFFICES ASSUME IInv, [Next]_vars PROVE IInv'
  OBVIOUS
<1>1. CASE UNCHANGED vars
  BY <1>1 DEF vars, IInv, Safe, CallsOK, ThreadsOK, StacksOK, BridgeOK, PhasesOK,
              UndefinedBehaviourCauses, Running, First
<1>2. CASE ub = "none" /\ ServerStep
  BY <1>2, StartMainInvariant, ConstructInvariant, LoopInvariant,
     ConnectionsInvariant, DestroyBridgeInvariant DEF ServerStep
<1>3. CASE ub = "none" /\ ClientStep
  BY <1>3, ConnectionsInvariant, RegisterInvariant, UseRecentStackInvariant
     DEF ClientStep
<1>4. ASSUME NEW t \in Threads, ub = "none", CallStep(t) PROVE IInv'
  BY <1>4, FindBridgeInvariant, SetRecentStackInvariant, FindHandlerInvariant,
     TestActiveInvariant, CopyConnectionsInvariant, SendToNextInvariant,
     FinishCallInvariant DEF CallStep
<1>5. ASSUME NEW t \in Threads, NEW name \in Names, ub = "none", Call(t, name)
      PROVE  IInv'
  BY <1>5, CallInvariant
<1> QED
  BY <1>1, <1>2, <1>3, <1>4, <1>5 DEF Next

\* Threads, names, bridge and phases agree with the calls (callbackRequest,
\* setRecentStack, mainTrampoline).
THEOREM Invariant == Spec => []IInv
<1>1. Init => IInv
  BY InitInvariant
<1>2. IInv /\ [Next]_vars => IInv'
  BY NextInvariant
<1> QED
  BY <1>1, <1>2, PTL DEF Spec

\* How far the missing locks reach, with any number of clients, threads, names
\* and callbacks: the map of stacks is in danger only from the first callback
\* of a thread, the names only while the server starts or when a client
\* registers a name of its own, and the server and the bridge are used after
\* their deletion only by a callback other than the OnStop that ended them.
THEOREM UndefinedBehaviourHasCause == Spec => []UndefinedBehaviourCauses
<1>1. IInv => UndefinedBehaviourCauses
  BY DEF IInv
<1> QED
  BY <1>1, Invariant, PTL

-----------------------------------------------------------------------------
(* What the clients are told.                                              *)

Distinct(s) == \A i, j \in DOMAIN s : s[i] = s[j] => i = j

\* Each list has its type, and no list of connections has one twice.
ListsOK ==
    /\ listed \in Seq(Conns) /\ Distinct(listed)
    /\ conn \in [Conns -> {"new", "open", "deleted"}]
    /\ subs \in [Conns -> SUBSET Names]
    /\ inbox \in [Conns -> Seq(Calls)] /\ wire \in [Conns -> Seq(Calls)]
    /\ updates \in Seq(Calls)
    /\ \A t \in Threads :
         /\ thread[t].call \in 0..Len(calls)
         /\ thread[t].todo \in Seq(Conns) /\ Distinct(thread[t].todo)

\* The open connections are listed; the others have registered nothing and
\* have nothing posted; what is registered is active.
ConnectionsOK ==
    \A c \in Conns :
        /\ c \in ToSet(listed) <=> conn[c] = "open"
        /\ conn[c] # "open" => subs[c] = {} /\ inbox[c] = << >>
        /\ conn[c] = "new" => wire[c] = << >>
        /\ subs[c] \subseteq active

\* A thread is on the way of the latest call made on it.
LatestCall ==
    \A t \in Threads : thread[t].at # "idle" =>
        \A n \in DOMAIN calls : calls[n].thread = t => n <= thread[t].call

Sent(n, c) == n \in ToSet(Told(c))

\* A client is sent callbacks it has registered.
SentAreRegistered ==
    \A c \in Conns : \A n \in ToSet(Told(c)) :
        /\ n \in DOMAIN calls
        /\ conn[c] = "open" => calls[n].name \in subs[c]

\* A call under way has been sent to a client only if the loop is past it.
SentByLoop ==
    \A c \in Conns, t \in Threads :
        thread[t].at # "idle" /\ Sent(thread[t].call, c) =>
            thread[t].at = "send" /\ c \notin ToSet(thread[t].todo)

\* A client that was to be sent a call is still subscribed or gone; it has
\* been sent the call when that returns, and in the loop unless it is among
\* those still to be served.
DueOK ==
    \A n \in DOMAIN calls, c \in Conns : c \in calls[n].due =>
        /\ conn[c] # "new"
        /\ conn[c] = "open" =>
             /\ calls[n].name \in subs[c]
             /\ calls[n].done => Sent(n, c)
             /\ \A t \in Threads : thread[t].at = "send" /\ thread[t].call = n =>
                    c \in ToSet(thread[t].todo) \/ Sent(n, c)

ToldInv == /\ ListsOK /\ ConnectionsOK /\ LatestCall
           /\ SentAreRegistered /\ SentByLoop /\ DueOK
           /\ CallbacksStayInOrder

\* Lists: what is at the end of one, at its beginning, and taken from it.
LEMMA SetOfAppend ==
    ASSUME NEW S, NEW s \in Seq(S), NEW x \in S
    PROVE  /\ Append(s, x) \in Seq(S)
           /\ ToSet(Append(s, x)) = ToSet(s) \cup {x}
           /\ Distinct(s) /\ x \notin ToSet(s) => Distinct(Append(s, x))
<1>1. /\ Append(s, x) \in Seq(S) /\ Len(s) \in Nat
      /\ DOMAIN s = 1..Len(s) /\ DOMAIN Append(s, x) = 1..(Len(s) + 1)
      /\ \A i \in 1..Len(s) : Append(s, x)[i] = s[i]
      /\ Append(s, x)[Len(s) + 1] = x
  BY AppendProperties
<1>2. ToSet(Append(s, x)) = ToSet(s) \cup {x}
  <2>1. ASSUME NEW y \in ToSet(Append(s, x)) PROVE y \in ToSet(s) \cup {x}
    BY <1>1, <2>1 DEF ToSet
  <2>2. ASSUME NEW y \in ToSet(s) \cup {x} PROVE y \in ToSet(Append(s, x))
    <3>1. CASE y = x
      <4>1. Len(s) + 1 \in DOMAIN Append(s, x)
        BY <1>1
      <4> QED
        BY <1>1, <3>1, <4>1 DEF ToSet
    <3>2. CASE y \in ToSet(s)
      BY <1>1, <3>2 DEF ToSet
    <3> QED
      BY <3>1, <3>2
  <2> QED
    BY <2>1, <2>2
<1>3. ASSUME Distinct(s), x \notin ToSet(s) PROVE Distinct(Append(s, x))
  <2> SUFFICES ASSUME NEW i \in DOMAIN Append(s, x), NEW j \in DOMAIN Append(s, x),
                      Append(s, x)[i] = Append(s, x)[j]
               PROVE  i = j
    BY DEF Distinct
  <2>1. \A k \in DOMAIN s : s[k] # x
    BY <1>3 DEF ToSet
  <2> QED
    BY <1>1, <1>3, <2>1 DEF Distinct
<1> QED
  BY <1>1, <1>2, <1>3

LEMMA TailOfDistinct ==
    ASSUME NEW S, NEW s \in Seq(S), s # << >>, Distinct(s)
    PROVE  /\ Tail(s) \in Seq(S) /\ Distinct(Tail(s))
           /\ Head(s) \in S
           /\ Head(s) \notin ToSet(Tail(s))
           /\ ToSet(s) = {Head(s)} \cup ToSet(Tail(s))
<1>1. /\ Len(s) \in Nat /\ Len(s) # 0 /\ DOMAIN s = 1..Len(s)
      /\ Tail(s) \in Seq(S) /\ Head(s) = s[1] /\ Head(s) \in S
      /\ DOMAIN Tail(s) = 1..(Len(s) - 1)
      /\ \A i \in 1..(Len(s) - 1) : Tail(s)[i] = s[i + 1]
  BY HeadTailProperties
<1>2. Distinct(Tail(s))
  <2> SUFFICES ASSUME NEW i \in DOMAIN Tail(s), NEW j \in DOMAIN Tail(s),
                      Tail(s)[i] = Tail(s)[j]
               PROVE  i = j
    BY DEF Distinct
  <2>1. i + 1 \in DOMAIN s /\ j + 1 \in DOMAIN s /\ s[i + 1] = s[j + 1]
    BY <1>1
  <2> QED
    BY <1>1, <2>1 DEF Distinct
<1>3. ASSUME NEW i \in DOMAIN Tail(s), Tail(s)[i] = Head(s) PROVE FALSE
  <2>1. i + 1 \in DOMAIN s /\ 1 \in DOMAIN s /\ s[i + 1] = s[1] /\ i + 1 # 1
    BY <1>1, <1>3
  <2> QED
    BY <2>1 DEF Distinct
<1>4. ASSUME NEW y \in ToSet(s) PROVE y \in {Head(s)} \cup ToSet(Tail(s))
  <2>1. PICK i \in 1..Len(s) : s[i] = y
    BY <1>1, <1>4 DEF ToSet
  <2>2. CASE i = 1
    BY <1>1, <2>1, <2>2
  <2>3. CASE i # 1
    <3>1. i - 1 \in 1..(Len(s) - 1) /\ (i - 1) + 1 = i
      BY <1>1, <2>3
    <3>2. i - 1 \in DOMAIN Tail(s) /\ Tail(s)[i - 1] = y
      BY <1>1, <2>1, <3>1
    <3> QED
      BY <3>2 DEF ToSet
  <2> QED
    BY <2>2, <2>3
<1>5. ASSUME NEW y \in {Head(s)} \cup ToSet(Tail(s)) PROVE y \in ToSet(s)
  <2>1. CASE y = Head(s)
    <3>1. 1 \in DOMAIN s
      BY <1>1
    <3> QED
      BY <1>1, <2>1, <3>1 DEF ToSet
  <2>2. CASE y \in ToSet(Tail(s))
    <3>1. PICK i \in 1..(Len(s) - 1) : Tail(s)[i] = y
      BY <1>1, <2>2 DEF ToSet
    <3>2. i + 1 \in DOMAIN s /\ s[i + 1] = y
      BY <1>1, <3>1
    <3> QED
      BY <3>2 DEF ToSet
  <2> QED
    BY <1>5, <2>1, <2>2
<1>6. Head(s) \notin ToSet(Tail(s))
  BY <1>3 DEF ToSet
<1>7. ToSet(s) = {Head(s)} \cup ToSet(Tail(s))
  BY <1>4, <1>5
<1> QED
  BY <1>1, <1>2, <1>6, <1>7

LEMMA BelowLast ==
    ASSUME NEW n \in Nat, NEW k \in 1..n, k # n
    PROVE  k + 1 <= n
  OBVIOUS

\* m_connections.removeAll of a list that has each connection once.
LEMMA RemoveKeeps ==
    ASSUME NEW S, NEW s \in Seq(S), Distinct(s), NEW x
    PROVE  /\ RemoveFirst(s, x) \in Seq(S)
           /\ Distinct(RemoveFirst(s, x))
           /\ ToSet(RemoveFirst(s, x)) = ToSet(s) \ {x}
<1>1. Len(s) \in Nat /\ DOMAIN s = 1..Len(s)
  OBVIOUS
<1>2. ASSUME ~ \E i \in 1..Len(s) : s[i] = x
      PROVE  RemoveFirst(s, x) = s /\ x \notin ToSet(s)
  BY <1>1, <1>2 DEF RemoveFirst, ToSet
<1>3. ASSUME NEW k \in 1..Len(s), s[k] = x
      PROVE  /\ RemoveFirst(s, x) \in Seq(S)
             /\ Distinct(RemoveFirst(s, x))
             /\ ToSet(RemoveFirst(s, x)) = ToSet(s) \ {x}
  <2> DEFINE I == {i \in 1..Len(s) : s[i] = x}
             a == SubSeq(s, 1, k - 1)
             b == SubSeq(s, k + 1, Len(s))
             r == RemoveFirst(s, x)
  <2>1. I = {k}
    BY <1>1, <1>3 DEF Distinct
  <2>2. Min(I) = k
    BY <2>1 DEF Min
  <2>3. SelectInSeq(s, LAMBDA v : v = x) = k
    BY <2>1, <2>2 DEF SelectInSeq
  <2>4. r = a \o b
    BY <1>3, <2>3 DEF RemoveFirst, RemoveAt
  <2>5. /\ a \in Seq(S) /\ Len(a) = k - 1 /\ \A i \in 1..(k - 1) : a[i] = s[i]
        /\ b \in Seq(S) /\ Len(b) = Len(s) - k
        /\ \A i \in 1..(Len(s) - k) : b[i] = s[k + i]
    <3>1. /\ a \in Seq(S) /\ Len(a) = k - 1
          /\ \A i \in 1..(k - 1) : a[i] = s[i]
      BY <1>1, <1>3, SubSeqProperties
    <3>2. /\ b \in Seq(S) /\ Len(b) = Len(s) - k
          /\ \A i \in 1..(Len(s) - k) : b[i] = s[k + i]
      <4>1. k + 1 \in Int /\ Len(s) \in Int /\ \A i \in (k + 1)..Len(s) : s[i] \in S
        BY <1>1, <1>3
      <4>2. /\ b \in Seq(S)
            /\ Len(b) = IF k + 1 <= Len(s) THEN Len(s) - (k + 1) + 1 ELSE 0
            /\ \A i \in 1..(Len(s) - (k + 1) + 1) : b[i] = s[(k + 1) + i - 1]
        BY <4>1, SubSeqProperties
      <4>3. Len(s) - (k + 1) + 1 = Len(s) - k
        BY <1>1, <1>3
      <4>4. Len(b) = Len(s) - k
        <5>1. CASE k # Len(s)
          <6>1. k + 1 <= Len(s)
            BY <1>1, <1>3, <5>1, BelowLast
          <6> QED
            BY <4>2, <4>3, <6>1
        <5>2. CASE k = Len(s)
          <6>1. ~(k + 1 <= Len(s)) /\ Len(s) - k = 0
            BY <1>1, <1>3, <5>2
          <6> QED
            BY <4>2, <6>1
        <5> QED
          BY <5>1, <5>2
      <4>5. ASSUME NEW i \in 1..(Len(s) - k) PROVE b[i] = s[k + i]
        <5>1. i \in 1..(Len(s) - (k + 1) + 1) /\ (k + 1) + i - 1 = k + i
          BY <1>1, <1>3
        <5> QED
          BY <4>2, <5>1
      <4> QED
        BY <4>2, <4>4, <4>5
    <3> QED
      BY <3>1, <3>2
  <2> HIDE DEF a, b, r
  <2>6. /\ r \in Seq(S) /\ Len(r) = Len(s) - 1 /\ DOMAIN r = 1..(Len(s) - 1)
        /\ \A i \in 1..(k - 1) : r[i] = s[i]
        /\ \A i \in k..(Len(s) - 1) : r[i] = s[i + 1]
    <3>1. /\ r \in Seq(S) /\ Len(r) = Len(a) + Len(b)
          /\ \A i \in 1..Len(r) : r[i] = IF i <= Len(a) THEN a[i] ELSE b[i - Len(a)]
      <4>1. a \in Seq(S) /\ b \in Seq(S)
        BY <2>5
      <4>2. /\ a \o b \in Seq(S) /\ Len(a \o b) = Len(a) + Len(b)
            /\ \A i \in 1..Len(a \o b) :
                 (a \o b)[i] = IF i <= Len(a) THEN a[i] ELSE b[i - Len(a)]
        BY <4>1, ConcatProperties
      <4> QED
        BY <2>4, <4>2
    <3>2. Len(r) = Len(s) - 1
      BY <1>1, <1>3, <2>5, <3>1
    <3>3. ASSUME NEW i \in k..(Len(s) - 1) PROVE r[i] = s[i + 1]
      <4>1. i - (k - 1) \in 1..(Len(s) - k) /\ k + (i - (k - 1)) = i + 1
        BY <1>1, <1>3
      <4>2. r[i] = b[i - (k - 1)]
        BY <1>1, <1>3, <2>5, <3>1, <3>2
      <4> QED
        BY <2>5, <4>1, <4>2
    <3>4. ASSUME NEW i \in 1..(k - 1) PROVE r[i] = s[i]
      <4>1. i \in 1..Len(r) /\ i <= Len(a)
        BY <1>1, <1>3, <2>5, <3>2
      <4> QED
        BY <2>5, <3>1, <4>1
    <3>5. DOMAIN r = 1..(Len(s) - 1)
      BY <3>1, <3>2
    <3> QED
      BY <3>1, <3>2, <3>3, <3>4, <3>5
  <2>7. Distinct(r)
    <3> DEFINE at(i) == IF i < k THEN i ELSE i + 1
    <3>1. ASSUME NEW i \in DOMAIN r PROVE at(i) \in DOMAIN s /\ r[i] = s[at(i)]
      BY <1>1, <1>3, <2>6
    <3>2. ASSUME NEW i \in DOMAIN r, NEW j \in DOMAIN r, r[i] = r[j] PROVE i = j
      <4>1. at(i) = at(j)
        BY <3>1, <3>2 DEF Distinct
      <4> QED
        BY <1>1, <1>3, <2>6, <4>1
    <3> QED
      BY <3>2 DEF Distinct
  <2>8. ASSUME NEW i \in DOMAIN r PROVE r[i] \in ToSet(s) \ {x}
    <3> DEFINE m == IF i < k THEN i ELSE i + 1
    <3>1. m \in DOMAIN s /\ m # k /\ r[i] = s[m]
      BY <1>1, <1>3, <2>6
    <3>2. s[m] # x
      BY <1>1, <1>3, <3>1 DEF Distinct
    <3> QED
      BY <3>1, <3>2 DEF ToSet
  <2>9. ASSUME NEW y \in ToSet(s) \ {x} PROVE y \in ToSet(r)
    <3>1. PICK m \in 1..Len(s) : s[m] = y
      BY <1>1 DEF ToSet
    <3>2. m # k
      BY <1>3, <3>1
    <3> DEFINE i == IF m < k THEN m ELSE m - 1
    <3>3. i \in DOMAIN r /\ r[i] = y
      BY <1>1, <1>3, <2>6, <3>1, <3>2
    <3> QED
      BY <3>3 DEF ToSet
  <2>10. ToSet(r) = ToSet(s) \ {x}
    BY <2>8, <2>9 DEF ToSet
  <2> QED
    BY <2>6, <2>7, <2>10 DEF r
<1> QED
  BY <1>2, <1>3

\* A posted request that is sent stays where it was in what a client is told.
LEMMA DeliverKeeps ==
    ASSUME NEW S, NEW w \in Seq(S), NEW p \in Seq(S), p # << >>
    PROVE  /\ Append(w, Head(p)) \in Seq(S) /\ Tail(p) \in Seq(S)
           /\ Append(w, Head(p)) \o Tail(p) = w \o p
<1>1. /\ Tail(p) \in Seq(S) /\ Head(p) \in S /\ p = <<Head(p)>> \o Tail(p)
      /\ <<Head(p)>> \in Seq(S)
  BY HeadTailProperties
<1>2. Append(w, Head(p)) = w \o <<Head(p)>>
  BY <1>1, AppendIsConcat
<1>3. (w \o <<Head(p)>>) \o Tail(p) = w \o (<<Head(p)>> \o Tail(p))
  BY <1>1, ConcatAssociative
<1> QED
  BY <1>1, <1>2, <1>3, AppendProperties

\* A request that is posted comes last.
LEMMA PostAppends ==
    ASSUME NEW S, NEW w \in Seq(S), NEW p \in Seq(S), NEW x \in S
    PROVE  w \o Append(p, x) = Append(w \o p, x)
<1>1. <<x>> \in Seq(S) /\ w \o p \in Seq(S)
  BY ConcatProperties
<1>2. Append(p, x) = p \o <<x>> /\ Append(w \o p, x) = (w \o p) \o <<x>>
  BY <1>1, AppendIsConcat
<1>3. (w \o p) \o <<x>> = w \o (p \o <<x>>)
  BY <1>1, ConcatAssociative
<1> QED
  BY <1>2, <1>3

\* What has been sent is the beginning of what a client is told.
LEMMA BeginningOfTold ==
    ASSUME NEW S, NEW w \in Seq(S), NEW p \in Seq(S)
    PROVE  /\ w \o p \in Seq(S)
           /\ DOMAIN w \subseteq DOMAIN (w \o p)
           /\ \A i \in DOMAIN w : i \in Nat /\ (w \o p)[i] = w[i]
           /\ ToSet(w) \subseteq ToSet(w \o p)
<1>1. /\ w \o p \in Seq(S) /\ Len(w \o p) = Len(w) + Len(p)
      /\ \A i \in 1..Len(w \o p) :
           (w \o p)[i] = IF i <= Len(w) THEN w[i] ELSE p[i - Len(w)]
  BY ConcatProperties
<1>2. /\ Len(w) \in Nat /\ Len(p) \in Nat /\ DOMAIN w = 1..Len(w)
      /\ DOMAIN (w \o p) = 1..Len(w \o p)
  BY <1>1
<1>3. /\ DOMAIN w \subseteq DOMAIN (w \o p)
      /\ \A i \in DOMAIN w : i \in Nat /\ (w \o p)[i] = w[i]
  BY <1>1, <1>2
<1> QED
  BY <1>1, <1>3 DEF ToSet


LEMMA ToldType ==
    ASSUME ListsOK, NEW c \in Conns
    PROVE  /\ wire[c] \in Seq(Calls) /\ inbox[c] \in Seq(Calls)
           /\ Told(c) \in Seq(Calls)
  BY ConcatProperties DEF ListsOK, Told

\* Where neither the calls nor the clients change, and each client is told
\* what it was, the invariant stays.
LEMMA SameTold ==
    ASSUME ToldInv, UNCHANGED <<listed, conn, subs, thread, calls>>,
           active \subseteq active',
           inbox' \in [Conns -> Seq(Calls)], wire' \in [Conns -> Seq(Calls)],
           updates' \in Seq(Calls),
           \A c \in Conns : Told(c)' = Told(c),
           \A c \in Conns : conn[c] # "open" =>
               inbox'[c] = inbox[c] /\ wire'[c] = wire[c]
    PROVE  ToldInv'
<1>1. ListsOK'
  BY DEF ToldInv, ListsOK
<1>2. ConnectionsOK'
  BY DEF ToldInv, ConnectionsOK
<1>3. LatestCall'
  BY DEF ToldInv, LatestCall
<1>4. SentAreRegistered'
  BY DEF ToldInv, SentAreRegistered
<1>5. SentByLoop'
  BY DEF ToldInv, SentByLoop, Sent
<1>6. DueOK'
  BY DEF ToldInv, DueOK, Sent
<1>7. CallbacksStayInOrder'
  BY DEF ToldInv, CallbacksStayInOrder
<1> QED
  BY <1>1, <1>2, <1>3, <1>4, <1>5, <1>6, <1>7 DEF ToldInv


\* The call of a thread that is on its way is no other thread's.
LEMMA CallsApart ==
    ASSUME Safe, NEW t \in Threads, NEW u \in Threads, t # u,
           thread[t].at # "idle", thread[u].at # "idle"
    PROVE  thread[t].call # thread[u].call
  BY DEF Safe, ThreadsOK

\* A callback that moves on, before the loop over the clients.
LEMMA MoveTold ==
    ASSUME Safe, ToldInv, NEW t \in Threads, NEW s \in Stages \ {"idle", "send"},
           thread[t].at \notin {"idle", "send"}, MoveTo(t, s),
           UNCHANGED <<listed, conn, subs, active, inbox, wire, updates, calls>>
    PROVE  ToldInv'
<1>1. /\ thread'[t].at = s /\ thread'[t].call = thread[t].call
      /\ thread'[t].todo = thread[t].todo
      /\ \A u \in Threads \ {t} : thread'[u] = thread[u]
  BY DEF MoveTo, Safe, ThreadsOK
<1>2. ListsOK'
  BY <1>1 DEF ToldInv, ListsOK
<1>3. ConnectionsOK'
  BY DEF ToldInv, ConnectionsOK
<1>4. LatestCall'
  BY <1>1 DEF ToldInv, LatestCall
<1>5. \A c \in Conns : Told(c)' = Told(c)
  BY DEF Told
<1>6. SentAreRegistered'
  BY <1>5 DEF ToldInv, SentAreRegistered
<1>7. SentByLoop'
  BY <1>1, <1>5 DEF ToldInv, SentByLoop, Sent
<1>8. DueOK'
  BY <1>1, <1>5 DEF ToldInv, DueOK, Sent
<1>9. CallbacksStayInOrder'
  BY <1>5 DEF ToldInv, CallbacksStayInOrder
<1> QED
  BY <1>2, <1>3, <1>4, <1>6, <1>7, <1>8, <1>9 DEF ToldInv

\* A callback that returns has been sent to whom it was due.
LEMMA ReturnTold ==
    ASSUME Safe, ToldInv, NEW t \in Threads, thread[t].at # "idle",
           NEW fault \in BOOLEAN, Return(t, fault),
           UNCHANGED <<listed, conn, subs, active, inbox, wire>>,
           updates' \in Seq(Calls),
           fault \/ \A c \in Conns :
                       c \in calls[thread[t].call].due /\ conn[c] = "open" =>
                           Sent(thread[t].call, c)
    PROVE  ToldInv'
<1> DEFINE k == thread[t].call
<1>1. /\ thread'[t].at = "idle"
      /\ \A u \in Threads \ {t} : thread'[u] = thread[u]
      /\ DOMAIN calls' = DOMAIN calls
      /\ calls'[k].done = ~fault
      /\ \A n \in DOMAIN calls :
           /\ calls'[n].name = calls[n].name
           /\ calls'[n].thread = calls[n].thread
           /\ calls'[n].due = calls[n].due
           /\ n # k => calls'[n] = calls[n]
  BY ReturnKeeps DEF Safe
<1>2. thread'[t] = Idle /\ Len(calls') = Len(calls) /\ Len(calls) \in Nat
  BY DEF Return, Safe, ThreadsOK, CallsOK
<1>3. ListsOK'
  <2>1. << >> \in Seq(Conns) /\ Distinct(<< >>)
    BY DEF Distinct
  <2>2. ASSUME NEW u \in Threads
        PROVE  /\ thread'[u].call \in 0..Len(calls)
               /\ thread'[u].todo \in Seq(Conns) /\ Distinct(thread'[u].todo)
    <3>1. CASE u = t
      <4>1. thread'[u].call = 0 /\ thread'[u].todo = << >>
        BY <1>2, <3>1 DEF Idle
      <4>2. 0 \in 0..Len(calls)
        BY <1>2
      <4> QED
        BY <2>1, <4>1, <4>2
    <3>2. CASE u # t
      BY <1>1, <3>2 DEF ToldInv, ListsOK
    <3> QED
      BY <3>1, <3>2
  <2> QED
    BY <1>2, <2>2 DEF ToldInv, ListsOK
<1>4. ConnectionsOK'
  BY DEF ToldInv, ConnectionsOK
<1>5. LatestCall'
  BY <1>1 DEF ToldInv, LatestCall
<1>6. \A c \in Conns : Told(c)' = Told(c)
  BY DEF Told
<1>7. SentAreRegistered'
  BY <1>1, <1>6 DEF ToldInv, SentAreRegistered
<1>8. SentByLoop'
  BY <1>1, <1>6 DEF ToldInv, SentByLoop, Sent
<1>9. DueOK'
  <2> SUFFICES ASSUME NEW n \in DOMAIN calls, NEW c \in Conns,
                      c \in calls[n].due
               PROVE  /\ conn[c] # "new"
                      /\ conn[c] = "open" =>
                           /\ calls[n].name \in subs[c]
                           /\ calls'[n].done => Sent(n, c)
                           /\ \A u \in Threads :
                                thread'[u].at = "send" /\ thread'[u].call = n =>
                                  c \in ToSet(thread'[u].todo) \/ Sent(n, c)
    BY <1>1, <1>6 DEF DueOK, Sent
  <2>1. /\ conn[c] # "new"
        /\ conn[c] = "open" =>
             /\ calls[n].name \in subs[c]
             /\ calls[n].done => Sent(n, c)
             /\ \A u \in Threads : thread[u].at = "send" /\ thread[u].call = n =>
                    c \in ToSet(thread[u].todo) \/ Sent(n, c)
    BY DEF ToldInv, DueOK
  <2>2. ASSUME NEW u \in Threads, thread'[u].at = "send" PROVE thread'[u] = thread[u]
    BY <1>1, <2>2
  <2>3. ASSUME conn[c] = "open", calls'[n].done PROVE Sent(n, c)
    <3>1. CASE n = k
      BY <1>1, <2>3, <3>1
    <3>2. CASE n # k
      BY <1>1, <2>1, <2>3, <3>2
    <3> QED
      BY <3>1, <3>2
  <2> QED
    BY <2>1, <2>2, <2>3
<1>10. CallbacksStayInOrder'
  <2> SUFFICES ASSUME NEW c \in Conns, NEW i \in DOMAIN Told(c),
                      NEW j \in DOMAIN Told(c), i < j,
                      calls'[Told(c)[i]].thread = calls'[Told(c)[j]].thread
               PROVE  Told(c)[i] < Told(c)[j]
    BY <1>6 DEF CallbacksStayInOrder
  <2>1. Told(c)[i] \in DOMAIN calls /\ Told(c)[j] \in DOMAIN calls
    BY DEF ToldInv, SentAreRegistered, ToSet
  <2> QED
    BY <1>1, <2>1 DEF ToldInv, CallbacksStayInOrder
<1> QED
  BY <1>3, <1>4, <1>5, <1>7, <1>8, <1>9, <1>10 DEF ToldInv

LEMMA FindBridgeTold ==
    ASSUME Safe, ToldInv, NEW t \in Threads, FindBridge(t)
    PROVE  ToldInv'
  BY MoveTold DEF FindBridge, Stages, serverVars, queues

LEMMA SetRecentStackTold ==
    ASSUME Safe, ToldInv, NEW t \in Threads, SetRecentStack(t)
    PROVE  ToldInv'
  BY MoveTold DEF SetRecentStack, Stages, serverVars, queues

\* Nobody has registered a name that is not active.
LEMMA NobodyWaits ==
    ASSUME Safe, ToldInv, NEW n \in DOMAIN calls, calls[n].name \notin active
    PROVE  \A c \in Conns : ~(c \in calls[n].due /\ conn[c] = "open")
  BY DEF ToldInv, DueOK, ConnectionsOK

LEMMA FindHandlerTold ==
    ASSUME Safe, ToldInv, NEW t \in Threads, FindHandler(t)
    PROVE  ToldInv'
<1>1. /\ thread[t].at = "handlers"
      /\ UNCHANGED <<listed, conn, subs, active, inbox, wire, updates>>
  BY DEF FindHandler, serverVars, queues
<1>2. CASE NameOf(t) \in handlers
  <2>1. MoveTo(t, "active") /\ UNCHANGED calls
    BY <1>2 DEF FindHandler
  <2> QED
    BY <1>1, <2>1, MoveTold DEF Stages
<1>3. CASE NameOf(t) \notin handlers
  <2>1. Return(t, bridge = "deleted")
    BY <1>3 DEF FindHandler
  <2>2. thread[t].call \in DOMAIN calls /\ NameOf(t) \notin active
    BY <1>1, <1>3 DEF Safe, ThreadsOK, PhasesOK
  <2>3. \A c \in Conns : ~(c \in calls[thread[t].call].due /\ conn[c] = "open")
    BY <2>2, NobodyWaits DEF NameOf
  <2>4. updates' \in Seq(Calls)
    BY <1>1 DEF ToldInv, ListsOK
  <2> QED
    BY <1>1, <2>1, <2>3, <2>4, ReturnTold
<1> QED
  BY <1>2, <1>3

LEMMA TestActiveTold ==
    ASSUME Safe, ToldInv, NEW t \in Threads, TestActive(t)
    PROVE  ToldInv'
<1>1. /\ thread[t].at = "active"
      /\ UNCHANGED <<listed, conn, subs, active, inbox, wire, updates>>
  BY DEF TestActive, serverVars, queues
<1>2. CASE NameOf(t) \in active
  <2>1. MoveTo(t, "copy") /\ UNCHANGED calls
    BY <1>2 DEF TestActive
  <2> QED
    BY <1>1, <2>1, MoveTold DEF Stages
<1>3. CASE NameOf(t) \notin active
  <2> DEFINE fault == ~ServerAlive
  <2>1. Return(t, fault)
    BY <1>3 DEF TestActive
  <2>2. thread[t].call \in DOMAIN calls
    BY <1>1 DEF Safe, ThreadsOK
  <2>3. \A c \in Conns : ~(c \in calls[thread[t].call].due /\ conn[c] = "open")
    BY <1>3, <2>2, NobodyWaits DEF NameOf
  <2>4. updates' \in Seq(Calls)
    BY <1>1 DEF ToldInv, ListsOK
  <2>5. fault \in BOOLEAN
    OBVIOUS
  <2> HIDE DEF fault
  <2> QED
    BY <1>1, <2>1, <2>3, <2>4, <2>5, ReturnTold
<1> QED
  BY <1>2, <1>3

\* The copy that the loop takes has every client that is connected.
LEMMA CopyConnectionsTold ==
    ASSUME Safe, ToldInv, NEW t \in Threads, CopyConnections(t)
    PROVE  ToldInv'
<1>1. /\ thread[t].at = "copy"
      /\ UNCHANGED <<listed, conn, subs, active, inbox, wire, updates, calls>>
  BY DEF CopyConnections, serverVars, queues
<1>2. /\ thread'[t].at = "send" /\ thread'[t].call = thread[t].call
      /\ thread'[t].todo = listed
      /\ \A u \in Threads \ {t} : thread'[u] = thread[u]
  BY DEF CopyConnections, Safe, ThreadsOK
<1>3. ListsOK'
  BY <1>1, <1>2 DEF ToldInv, ListsOK
<1>4. ConnectionsOK'
  BY <1>1 DEF ToldInv, ConnectionsOK
<1>5. LatestCall'
  BY <1>1, <1>2 DEF ToldInv, LatestCall
<1>6. \A c \in Conns : Told(c)' = Told(c)
  BY <1>1 DEF Told
<1>7. SentAreRegistered'
  BY <1>1, <1>6 DEF ToldInv, SentAreRegistered
<1>8. SentByLoop'
  BY <1>1, <1>2, <1>6 DEF ToldInv, SentByLoop, Sent
<1>9. DueOK'
  BY <1>1, <1>2, <1>6 DEF ToldInv, DueOK, ConnectionsOK, Sent
<1>10. CallbacksStayInOrder'
  BY <1>1, <1>6 DEF ToldInv, CallbacksStayInOrder
<1> QED
  BY <1>3, <1>4, <1>5, <1>7, <1>8, <1>9, <1>10 DEF ToldInv


\* A request posted to the next client of the loop comes after those of the
\* earlier calls of its thread, and is its only one.
LEMMA SendToNextTold ==
    ASSUME Safe, ToldInv, NEW t \in Threads, SendToNext(t)
    PROVE  ToldInv'
<1>a. /\ thread[t].call \in DOMAIN calls
      /\ calls[thread[t].call].thread = t
      /\ DOMAIN calls \subseteq Calls
  BY MaxCallsAssumption DEF SendToNext, Safe, ThreadsOK, CallsOK, Calls
<1>b. Head(thread[t].todo) \in Conns
  BY TailOfDistinct DEF SendToNext, ToldInv, ListsOK
<1>c. PICK n \in Calls, h \in Conns : /\ n = thread[t].call
                                        /\ h = Head(thread[t].todo)
  BY <1>a, <1>b
<1> DEFINE rest == Tail(thread[t].todo)
           mine == calls[n].name \in subs[h]
<1>1. /\ thread[t].at = "send" /\ thread[t].todo # << >>
      /\ UNCHANGED <<listed, conn, subs, active, wire, updates, calls>>
      /\ inbox' = IF mine THEN [inbox EXCEPT ![h] = Append(@, n)] ELSE inbox
  BY <1>c DEF SendToNext, serverVars, NameOf
<1>2. /\ thread'[t].at = "send" /\ thread'[t].call = n /\ thread'[t].todo = rest
      /\ \A u \in Threads \ {t} : thread'[u] = thread[u]
  BY <1>c DEF SendToNext, Safe, ThreadsOK
<1>3. n \in DOMAIN calls /\ calls[n].thread = t
  BY <1>a, <1>c
<1>4. /\ rest \in Seq(Conns) /\ Distinct(rest)
      /\ h \notin ToSet(rest)
      /\ ToSet(thread[t].todo) = {h} \cup ToSet(rest)
  BY <1>1, <1>c, TailOfDistinct DEF ToldInv, ListsOK
<1> HIDE DEF rest
<1>5. mine => conn[h] = "open"
  BY <1>4 DEF ToldInv, ConnectionsOK
<1>6. \A c \in Conns : wire[c] \in Seq(Calls) /\ inbox[c] \in Seq(Calls)
                       /\ Told(c) \in Seq(Calls)
  BY ToldType DEF ToldInv
<1>7. inbox' \in [Conns -> Seq(Calls)]
  <2>1. Append(inbox[h], n) \in Seq(Calls)
    BY <1>3, <1>4, <1>6, SetOfAppend
  <2> QED
    BY <1>1, <2>1 DEF ToldInv, ListsOK
<1>8. ASSUME NEW c \in Conns, ~(mine /\ c = h) PROVE Told(c)' = Told(c)
  <2>1. inbox'[c] = inbox[c]
    BY <1>1, <1>8 DEF ToldInv, ListsOK
  <2> QED
    BY <1>1, <2>1 DEF Told
<1>9. ASSUME mine PROVE Told(h)' = Append(Told(h), n)
  <2>1. inbox'[h] = Append(inbox[h], n)
    BY <1>1, <1>4, <1>9 DEF ToldInv, ListsOK
  <2>2. wire[h] \o Append(inbox[h], n) = Append(wire[h] \o inbox[h], n)
    <3>1. wire[h] \in Seq(Calls) /\ inbox[h] \in Seq(Calls)
      BY <1>6
    <3>2. PICK w \in Seq(Calls), p \in Seq(Calls) : w = wire[h] /\ p = inbox[h]
      BY <3>1
    <3>3. w \o Append(p, n) = Append(w \o p, n)
      BY PostAppends
    <3> QED
      BY <3>2, <3>3
  <2> QED
    BY <1>1, <2>1, <2>2 DEF Told
<1>10. \A c \in Conns : ToSet(Told(c)') =
          IF mine /\ c = h THEN ToSet(Told(c)) \cup {n} ELSE ToSet(Told(c))
  <2>1. ASSUME mine PROVE ToSet(Append(Told(h), n)) = ToSet(Told(h)) \cup {n}
    BY <1>3, <1>4, <1>6, SetOfAppend
  <2> QED
    BY <1>8, <1>9, <2>1
<1>11. \A c \in Conns : \A m : Sent(m, c)' <=> Sent(m, c) \/ (mine /\ c = h /\ m = n)
  BY <1>10 DEF Sent
<1>12. ListsOK'
  BY <1>1, <1>2, <1>4, <1>7, <1>c DEF ToldInv, ListsOK
<1>13. ConnectionsOK'
  BY <1>1, <1>4, <1>5 DEF ToldInv, ListsOK, ConnectionsOK
<1>14. LatestCall'
  BY <1>1, <1>2, <1>c DEF ToldInv, LatestCall
<1>15. SentAreRegistered'
  BY <1>1, <1>3, <1>10 DEF ToldInv, SentAreRegistered
<1>16. SentByLoop'
  <2> SUFFICES ASSUME NEW c \in Conns, NEW u \in Threads,
                      NEW m, m = thread'[u].call, thread'[u].at # "idle",
                      Sent(m, c)'
               PROVE  thread'[u].at = "send" /\ c \notin ToSet(thread'[u].todo)
    BY DEF SentByLoop, Sent
  <2>1. CASE u = t
    <3>1. Sent(n, c) \/ c = h
      BY <1>2, <1>11, <2>1
    <3>2. Sent(n, c) => c \notin ToSet(thread[t].todo)
      BY <1>1, <1>c DEF ToldInv, SentByLoop
    <3> QED
      BY <1>2, <1>4, <2>1, <3>1, <3>2
  <2>2. CASE u # t
    <3>1. thread'[u] = thread[u] /\ thread[u].call = m /\ m # n
      BY <1>1, <1>2, <1>c, <2>2, CallsApart
    <3>2. Sent(m, c)
      BY <1>11, <3>1
    <3> QED
      BY <3>1, <3>2 DEF ToldInv, SentByLoop
  <2> QED
    BY <2>1, <2>2
<1>17. DueOK'
  <2> SUFFICES ASSUME NEW m \in DOMAIN calls, NEW c \in Conns, c \in calls[m].due
               PROVE  /\ conn[c] # "new"
                      /\ conn[c] = "open" =>
                           /\ calls[m].name \in subs[c]
                           /\ calls[m].done => Sent(m, c)'
                           /\ \A u \in Threads :
                                thread'[u].at = "send" /\ thread'[u].call = m =>
                                  c \in ToSet(thread'[u].todo) \/ Sent(m, c)'
    BY <1>1 DEF DueOK, Sent
  <2>1. /\ conn[c] # "new"
        /\ conn[c] = "open" =>
             /\ calls[m].name \in subs[c]
             /\ calls[m].done => Sent(m, c)
             /\ \A u \in Threads : thread[u].at = "send" /\ thread[u].call = m =>
                    c \in ToSet(thread[u].todo) \/ Sent(m, c)
    BY DEF ToldInv, DueOK
  <2>2. ASSUME conn[c] = "open", NEW u \in Threads,
               thread'[u].at = "send", thread'[u].call = m
        PROVE  c \in ToSet(thread'[u].todo) \/ Sent(m, c)'
    <3>1. CASE u = t
      <4>1. m = n /\ thread'[u].todo = rest
        BY <1>2, <2>2, <3>1
      <4>2. c \in {h} \cup ToSet(rest) \/ Sent(m, c)
        BY <1>1, <1>4, <1>c, <2>1, <2>2, <4>1
      <4>3. c = h => mine
        BY <2>1, <2>2, <4>1
      <4> QED
        BY <1>11, <4>1, <4>2, <4>3
    <3>2. CASE u # t
      BY <1>2, <1>11, <2>1, <2>2, <3>2
    <3> QED
      BY <3>1, <3>2
  <2> QED
    BY <1>11, <2>1, <2>2
<1>18. CallbacksStayInOrder'
  <2> SUFFICES ASSUME NEW c \in Conns, NEW i \in DOMAIN Told(c)', NEW j \in DOMAIN Told(c)',
                      i < j,
                      calls[Told(c)'[i]].thread = calls[Told(c)'[j]].thread
               PROVE  Told(c)'[i] < Told(c)'[j]
    BY <1>1 DEF CallbacksStayInOrder
  <2>1. CASE ~(mine /\ c = h)
    BY <1>8, <2>1 DEF ToldInv, CallbacksStayInOrder
  <2>2. CASE mine /\ c = h
    <3> DEFINE s == Told(h)
    <3>1. /\ s \in Seq(Calls) /\ Len(s) \in Nat /\ DOMAIN s = 1..Len(s)
          /\ Told(c)' = Append(s, n)
          /\ DOMAIN Append(s, n) = 1..(Len(s) + 1)
          /\ \A m \in 1..Len(s) : Append(s, n)[m] = s[m]
          /\ Append(s, n)[Len(s) + 1] = n
      BY <1>3, <1>4, <1>6, <1>9, <2>2, AppendProperties
    <3>2. i \in 1..Len(s) /\ Append(s, n)[i] = s[i] /\ j \in 1..(Len(s) + 1)
      BY <3>1
    <3>3. CASE j = Len(s) + 1
      <4>1. s[i] \in ToSet(s) /\ s[i] \in DOMAIN calls
        BY <1>4, <3>1, <3>2 DEF ToldInv, SentAreRegistered, ToSet
      <4>2. calls[s[i]].thread = t
        BY <1>3, <3>1, <3>2, <3>3
      <4>3. s[i] <= n
        BY <1>1, <1>c, <4>1, <4>2 DEF ToldInv, LatestCall
      <4>4. ~Sent(n, h)
        <5>1. h \in ToSet(thread[t].todo)
          BY <1>4
        <5> QED
          BY <1>1, <1>4, <1>c, <5>1 DEF ToldInv, SentByLoop
      <4>5. s[i] # n
        BY <4>1, <4>4 DEF Sent
      <4>6. DOMAIN calls \subseteq Nat
        BY DEF Safe, CallsOK
      <4>7. Told(c)'[i] = s[i] /\ Told(c)'[j] = n
        BY <3>1, <3>2, <3>3
      <4> QED
        BY <1>3, <4>1, <4>3, <4>5, <4>6, <4>7
    <3>4. CASE j \in 1..Len(s)
      <4>1. Told(c)'[i] = s[i] /\ Told(c)'[j] = s[j]
        BY <3>1, <3>2, <3>4
      <4> QED
        BY <1>4, <3>1, <3>2, <3>4, <4>1 DEF ToldInv, CallbacksStayInOrder
    <3> QED
      BY <3>1, <3>2, <3>3, <3>4
  <2> QED
    BY <2>1, <2>2
<1> QED
  BY <1>12, <1>13, <1>14, <1>15, <1>16, <1>17, <1>18 DEF ToldInv

LEMMA FinishCallTold ==
    ASSUME Safe, ToldInv, NEW t \in Threads, FinishCall(t)
    PROVE  ToldInv'
<1> DEFINE fault == NameOf(t) \in Updates /\ ~ServerAlive
           k == thread[t].call
<1>1. /\ thread[t].at = "send" /\ thread[t].todo = << >>
      /\ Return(t, fault)
      /\ UNCHANGED <<listed, conn, subs, active, inbox, wire>>
      /\ updates' = updates \/ updates' = Append(updates, k)
  BY DEF FinishCall, serverVars
<1>2. k \in DOMAIN calls /\ DOMAIN calls \subseteq Calls
  BY <1>1, MaxCallsAssumption DEF Safe, ThreadsOK, CallsOK, Calls
<1>3. updates' \in Seq(Calls)
  <2>1. updates \in Seq(Calls) /\ k \in Calls
    BY <1>2 DEF ToldInv, ListsOK
  <2> HIDE DEF k
  <2>2. Append(updates, k) \in Seq(Calls)
    BY <2>1, SetOfAppend
  <2> QED
    BY <1>1, <2>1, <2>2
<1>4. ToSet(thread[t].todo) = {}
  BY <1>1 DEF ToSet
<1>5. \A c \in Conns : c \in calls[k].due /\ conn[c] = "open" => Sent(k, c)
  BY <1>1, <1>2, <1>4 DEF ToldInv, DueOK
<1> QED
  BY <1>1, <1>3, <1>5, ReturnTold

\* A new call is the latest; nobody has been sent it.
LEMMA CallTold ==
    ASSUME Safe, ToldInv, NEW t \in Threads, NEW name \in Names, Call(t, name)
    PROVE  ToldInv'
<1> DEFINE r == [name |-> name, thread |-> t, done |-> FALSE,
                 due |-> {c \in Conns : conn[c] = "open" /\ name \in subs[c]}]
           l == Len(calls')
<1>1. /\ r \in CallRecord /\ ~r.done /\ r.thread = t /\ r.name = name
      /\ \A c \in r.due : conn[c] = "open" /\ name \in subs[c]
  BY DEF CallRecord
<1>2. /\ calls' = Append(calls, r) /\ thread[t].at = "idle"
      /\ UNCHANGED <<listed, conn, subs, active, inbox, wire, updates>>
  BY DEF Call, serverVars, queues
<1> HIDE DEF r
<1>3. /\ Len(calls) \in Nat /\ l = Len(calls) + 1
      /\ DOMAIN calls = 1..Len(calls) /\ DOMAIN calls' = 1..l
      /\ calls'[l] = r
      /\ \A n \in DOMAIN calls : n \in DOMAIN calls' /\ calls'[n] = calls[n]
      /\ \A n \in DOMAIN calls' : n \in DOMAIN calls \/ n = l
      /\ l \notin DOMAIN calls
  BY <1>1, <1>2 DEF Safe, CallsOK
<1>4. /\ thread'[t] = [at |-> "bridge", todo |-> << >>, call |-> l]
      /\ \A u \in Threads \ {t} : thread'[u] = thread[u]
  BY DEF Call, Safe, ThreadsOK
<1> HIDE DEF l
<1>5. /\ thread'[t].at = "bridge" /\ thread'[t].todo = << >>
      /\ thread'[t].call = l
  BY <1>4
<1>6. ListsOK'
  <2>1. << >> \in Seq(Conns) /\ Distinct(<< >>)
    BY DEF Distinct
  <2>2. ASSUME NEW u \in Threads
        PROVE  /\ thread'[u].call \in 0..l
               /\ thread'[u].todo \in Seq(Conns) /\ Distinct(thread'[u].todo)
    <3>1. CASE u = t
      <4>1. l \in 0..l
        BY <1>3
      <4> QED
        BY <1>5, <2>1, <3>1, <4>1
    <3>2. CASE u # t
      BY <1>3, <1>4, <3>2 DEF ToldInv, ListsOK
    <3> QED
      BY <3>1, <3>2
  <2> QED
    BY <1>2, <2>2 DEF ToldInv, ListsOK, l
<1>7. ConnectionsOK'
  BY <1>2 DEF ToldInv, ConnectionsOK
<1>8. LatestCall'
  <2> SUFFICES ASSUME NEW u \in Threads, thread'[u].at # "idle",
                      NEW n \in DOMAIN calls', calls'[n].thread = u
               PROVE  n <= thread'[u].call
    BY DEF LatestCall
  <2>1. CASE u = t
    BY <1>3, <1>5, <2>1
  <2>2. CASE u # t
    BY <1>1, <1>3, <1>4, <2>2 DEF ToldInv, LatestCall
  <2> QED
    BY <2>1, <2>2
<1>9. \A c \in Conns : Told(c)' = Told(c)
  BY <1>2 DEF Told
<1>10. \A c \in Conns : ToSet(Told(c)) \subseteq DOMAIN calls
  BY DEF ToldInv, SentAreRegistered
<1>11. SentAreRegistered'
  BY <1>2, <1>3, <1>9 DEF ToldInv, SentAreRegistered
<1>12. SentByLoop'
  <2> SUFFICES ASSUME NEW c \in Conns, NEW u \in Threads,
                      thread'[u].at # "idle", Sent(thread'[u].call, c)
               PROVE  thread'[u].at = "send" /\ c \notin ToSet(thread'[u].todo)
    BY <1>9 DEF SentByLoop, Sent
  <2>1. u # t
    BY <1>3, <1>5, <1>10 DEF Sent
  <2> QED
    BY <1>4, <2>1 DEF ToldInv, SentByLoop
<1>13. DueOK'
  <2> SUFFICES ASSUME NEW n \in DOMAIN calls', NEW c \in Conns,
                      c \in calls'[n].due
               PROVE  /\ conn[c] # "new"
                      /\ conn[c] = "open" =>
                           /\ calls'[n].name \in subs[c]
                           /\ calls'[n].done => Sent(n, c)
                           /\ \A u \in Threads :
                                thread'[u].at = "send" /\ thread'[u].call = n =>
                                  c \in ToSet(thread'[u].todo) \/ Sent(n, c)
    BY <1>2, <1>9 DEF DueOK, Sent
  <2>1. CASE n = l
    <3>1. ASSUME NEW u \in Threads, thread'[u].at = "send" PROVE thread'[u].call # n
      <4>1. u # t
        BY <1>5, <3>1
      <4>2. thread'[u].call \in DOMAIN calls
        BY <1>4, <3>1, <4>1 DEF Safe, ThreadsOK
      <4> QED
        BY <1>3, <2>1, <4>2
    <3> QED
      BY <1>1, <1>3, <2>1, <3>1
  <2>2. CASE n \in DOMAIN calls
    <3>1. \A u \in Threads : thread'[u].at = "send" => thread'[u] = thread[u]
      BY <1>4, <1>5
    <3> QED
      BY <1>3, <2>2, <3>1 DEF ToldInv, DueOK
  <2> QED
    BY <1>3, <2>1, <2>2
<1>14. CallbacksStayInOrder'
  <2> SUFFICES ASSUME NEW c \in Conns, NEW i \in DOMAIN Told(c),
                      NEW j \in DOMAIN Told(c), i < j,
                      calls'[Told(c)[i]].thread = calls'[Told(c)[j]].thread
               PROVE  Told(c)[i] < Told(c)[j]
    BY <1>9 DEF CallbacksStayInOrder
  <2>1. Told(c)[i] \in DOMAIN calls /\ Told(c)[j] \in DOMAIN calls
    BY <1>10 DEF ToSet
  <2> QED
    BY <1>3, <2>1 DEF ToldInv, CallbacksStayInOrder
<1> QED
  BY <1>6, <1>7, <1>8, <1>11, <1>12, <1>13, <1>14 DEF ToldInv


LEMMA EstablishTold ==
    ASSUME Safe, ToldInv, NEW c \in Conns, Establish(c)
    PROVE  ToldInv'
<1>1. /\ conn[c] = "new" /\ conn' = [conn EXCEPT ![c] = "open"]
      /\ listed' = Append(listed, c)
      /\ UNCHANGED <<active, subs, inbox, wire, updates, thread, calls>>
  BY DEF Establish, queues, quikVars
<1>2. c \notin ToSet(listed)
  BY <1>1 DEF ToldInv, ConnectionsOK
<1>3. /\ listed' \in Seq(Conns) /\ Distinct(listed')
      /\ ToSet(listed') = ToSet(listed) \cup {c}
  BY <1>1, <1>2, SetOfAppend DEF ToldInv, ListsOK
<1>4. /\ conn' \in [Conns -> {"new", "open", "deleted"}] /\ conn'[c] = "open"
      /\ \A d \in Conns : d # c => conn'[d] = conn[d]
  BY <1>1 DEF ToldInv, ListsOK
<1>5. ListsOK'
  BY <1>1, <1>3, <1>4 DEF ToldInv, ListsOK
<1>6. ConnectionsOK'
  BY <1>1, <1>3, <1>4 DEF ToldInv, ConnectionsOK
<1>7. LatestCall'
  BY <1>1 DEF ToldInv, LatestCall
<1>8. \A d \in Conns : Told(d)' = Told(d)
  BY <1>1 DEF Told
<1>9. ToSet(Told(c)) = {}
  <2>1. wire[c] = << >> /\ inbox[c] = << >>
    BY <1>1 DEF ToldInv, ConnectionsOK
  <2>2. Told(c) = << >>
    BY <2>1 DEF Told
  <2> QED
    BY <2>2 DEF ToSet
<1>10. SentAreRegistered'
  BY <1>1, <1>4, <1>8, <1>9 DEF ToldInv, SentAreRegistered
<1>11. SentByLoop'
  BY <1>1, <1>8 DEF ToldInv, SentByLoop, Sent
<1>12. DueOK'
  BY <1>1, <1>4, <1>8 DEF ToldInv, DueOK, Sent
<1>13. CallbacksStayInOrder'
  BY <1>1, <1>8 DEF ToldInv, CallbacksStayInOrder
<1> QED
  BY <1>5, <1>6, <1>7, <1>10, <1>11, <1>12, <1>13 DEF ToldInv

\* A registration only adds to what its client may be sent.
LEMMA RegisterTold ==
    ASSUME Safe, ToldInv, NEW c \in Conns, NEW name \in Names, Register(c, name)
    PROVE  ToldInv'
<1>1. /\ conn[c] = "open" /\ active' = active \cup {name}
      /\ subs' = [subs EXCEPT ![c] = @ \cup {name}]
      /\ UNCHANGED <<listed, conn, inbox, wire, updates, thread, calls>>
  BY DEF Register, queues, quikVars
<1>2. /\ subs' \in [Conns -> SUBSET Names] /\ subs'[c] = subs[c] \cup {name}
      /\ \A d \in Conns : d # c => subs'[d] = subs[d]
  BY <1>1 DEF ToldInv, ListsOK
<1>3. ListsOK'
  BY <1>1, <1>2 DEF ToldInv, ListsOK
<1>4. ConnectionsOK'
  BY <1>1, <1>2 DEF ToldInv, ConnectionsOK
<1>5. LatestCall'
  BY <1>1 DEF ToldInv, LatestCall
<1>6. \A d \in Conns : Told(d)' = Told(d) /\ subs[d] \subseteq subs'[d]
  BY <1>1, <1>2 DEF Told
<1>7. SentAreRegistered'
  BY <1>1, <1>6 DEF ToldInv, SentAreRegistered
<1>8. SentByLoop'
  BY <1>1, <1>6 DEF ToldInv, SentByLoop, Sent
<1>9. DueOK'
  BY <1>1, <1>6 DEF ToldInv, DueOK, Sent
<1>10. CallbacksStayInOrder'
  BY <1>1, <1>6 DEF ToldInv, CallbacksStayInOrder
<1> QED
  BY <1>3, <1>4, <1>5, <1>7, <1>8, <1>9, <1>10 DEF ToldInv

\* A connection that ends loses what is posted, and what has been sent to it
\* stays as it was.
LEMMA DeleteConnectionTold ==
    ASSUME Safe, ToldInv, NEW c \in Conns, conn[c] = "open",
           DeleteConnection(c), UNCHANGED <<active, wire, updates, thread, calls>>
    PROVE  ToldInv'
<1>1. /\ conn' = [conn EXCEPT ![c] = "deleted"]
      /\ subs' = [subs EXCEPT ![c] = {}]
      /\ listed' = RemoveFirst(listed, c)
      /\ inbox' = [inbox EXCEPT ![c] = << >>]
  BY DEF DeleteConnection
<1>2. /\ conn' \in [Conns -> {"new", "open", "deleted"}] /\ conn'[c] = "deleted"
      /\ subs' \in [Conns -> SUBSET Names] /\ subs'[c] = {}
      /\ inbox' \in [Conns -> Seq(Calls)] /\ inbox'[c] = << >>
      /\ \A d \in Conns : d # c => /\ conn'[d] = conn[d]
                                   /\ subs'[d] = subs[d]
                                   /\ inbox'[d] = inbox[d]
  <2>1. << >> \in Seq(Calls)
    OBVIOUS
  <2> QED
    BY <1>1, <2>1 DEF ToldInv, ListsOK
<1>3. /\ listed' \in Seq(Conns) /\ Distinct(listed')
      /\ ToSet(listed') = ToSet(listed) \ {c}
  BY <1>1, RemoveKeeps DEF ToldInv, ListsOK
<1>4. ListsOK'
  BY <1>2, <1>3 DEF ToldInv, ListsOK
<1>5. ConnectionsOK'
  BY <1>2, <1>3 DEF ToldInv, ConnectionsOK
<1>6. LatestCall'
  BY DEF ToldInv, LatestCall
<1>7. \A d \in Conns : d # c => Told(d)' = Told(d)
  BY <1>2 DEF Told
<1>8. /\ DOMAIN (Told(c)') \subseteq DOMAIN Told(c)
      /\ \A i \in DOMAIN (Told(c)') : Told(c)'[i] = Told(c)[i]
      /\ ToSet(Told(c)') \subseteq ToSet(Told(c))
  <2>1. wire[c] \in Seq(Calls) /\ inbox[c] \in Seq(Calls)
    BY ToldType DEF ToldInv
  <2>2. PICK w \in Seq(Calls), p \in Seq(Calls) : w = wire[c] /\ p = inbox[c]
    BY <2>1
  <2>3. Told(c)' = w /\ Told(c) = w \o p
    <3>1. w \o << >> = w
      BY <2>2, ConcatEmptySeq
    <3> QED
      BY <1>2, <2>2, <3>1 DEF Told
  <2>4. /\ DOMAIN w \subseteq DOMAIN (w \o p)
        /\ \A i \in DOMAIN w : (w \o p)[i] = w[i]
        /\ ToSet(w) \subseteq ToSet(w \o p)
    BY BeginningOfTold
  <2> QED
    BY <2>3, <2>4
<1>9. SentAreRegistered'
  BY <1>2, <1>7, <1>8 DEF ToldInv, SentAreRegistered
<1>10. SentByLoop'
  BY <1>7, <1>8 DEF ToldInv, SentByLoop, Sent
<1>11. DueOK'
  <2> SUFFICES ASSUME NEW n \in DOMAIN calls, NEW d \in Conns,
                      d \in calls[n].due
               PROVE  /\ conn'[d] # "new"
                      /\ conn'[d] = "open" =>
                           /\ calls[n].name \in subs'[d]
                           /\ calls[n].done => Sent(n, d)'
                           /\ \A t \in Threads :
                                thread[t].at = "send" /\ thread[t].call = n =>
                                  d \in ToSet(thread[t].todo) \/ Sent(n, d)'
    BY DEF DueOK, Sent
  <2>1. CASE d = c
    BY <1>2, <2>1
  <2>2. CASE d # c
    <3>1. conn'[d] = conn[d] /\ subs'[d] = subs[d] /\ Told(d)' = Told(d)
      BY <1>2, <1>7, <2>2
    <3> QED
      BY <3>1 DEF ToldInv, DueOK, Sent
  <2> QED
    BY <2>1, <2>2
<1>12. CallbacksStayInOrder'
  <2> SUFFICES ASSUME NEW d \in Conns, NEW i \in DOMAIN (Told(d)'),
                      NEW j \in DOMAIN (Told(d)'), i < j,
                      calls[Told(d)'[i]].thread = calls[Told(d)'[j]].thread
               PROVE  Told(d)'[i] < Told(d)'[j]
    BY DEF CallbacksStayInOrder
  <2>1. /\ i \in DOMAIN Told(d) /\ j \in DOMAIN Told(d)
        /\ Told(d)'[i] = Told(d)[i] /\ Told(d)'[j] = Told(d)[j]
    BY <1>7, <1>8
  <2> QED
    BY <2>1 DEF ToldInv, CallbacksStayInOrder
<1> QED
  BY <1>4, <1>5, <1>6, <1>9, <1>10, <1>11, <1>12 DEF ToldInv

LEMMA EndTold ==
    ASSUME Safe, ToldInv, (\E c \in Conns : Close(c)) \/ DestroyConnection
    PROVE  ToldInv'
<1>1. ASSUME NEW c \in Conns, Close(c) PROVE ToldInv'
  BY <1>1, DeleteConnectionTold DEF Close, quikVars
<1>2. CASE DestroyConnection
  <2>1. Len(listed) \in DOMAIN listed
    <3>1. listed \in Seq(Conns) /\ listed # << >>
      BY <1>2 DEF DestroyConnection, ToldInv, ListsOK
    <3> QED
      BY <3>1
  <2>2. Last(listed) \in ToSet(listed) /\ Last(listed) \in Conns
    BY <2>1 DEF Last, ToSet, ToldInv, ListsOK
  <2>3. PICK c \in Conns : c = Last(listed)
    BY <2>2
  <2>4. conn[c] = "open" /\ DeleteConnection(c)
    BY <1>2, <2>2, <2>3 DEF DestroyConnection, ToldInv, ConnectionsOK
  <2> QED
    BY <1>2, <2>4, DeleteConnectionTold DEF DestroyConnection, quikVars
<1> QED
  BY <1>1, <1>2

\* The remaining steps of main and of the event loop.
LEMMA LoopTold ==
    ASSUME Safe, ToldInv,
           \/ StartMain \/ Construct \/ Exec \/ TakeUpdate \/ LeaveLoop
           \/ DestroyServer \/ DestroyBridge \/ UseRecentStack
    PROVE  ToldInv'
<1>1. UNCHANGED <<listed, conn, subs, inbox, wire, thread, calls>>
  BY DEF StartMain, Construct, Exec, TakeUpdate, LeaveLoop, DestroyServer,
         DestroyBridge, UseRecentStack, serverVars, queues, quikVars
<1>2. active \subseteq active'
  BY DEF StartMain, Construct, Exec, TakeUpdate, LeaveLoop, DestroyServer,
         DestroyBridge, UseRecentStack, serverVars
<1>3. updates' \in Seq(Calls)
  <2>1. updates \in Seq(Calls)
    BY DEF ToldInv, ListsOK
  <2>2. CASE TakeUpdate
    BY <2>1, <2>2, HeadTailProperties DEF TakeUpdate
  <2>3. CASE ~TakeUpdate
    <3>1. updates' = updates \/ updates' = << >>
      BY <2>3 DEF StartMain, Construct, Exec, LeaveLoop, DestroyServer,
                  DestroyBridge, UseRecentStack, queues
    <3>2. << >> \in Seq(Calls)
      OBVIOUS
    <3> QED
      BY <2>1, <3>1, <3>2
  <2> QED
    BY <2>2, <2>3
<1>4. \A c \in Conns : Told(c)' = Told(c)
  BY <1>1 DEF Told
<1>5. inbox' \in [Conns -> Seq(Calls)] /\ wire' \in [Conns -> Seq(Calls)]
  BY <1>1 DEF ToldInv, ListsOK
<1> QED
  BY <1>1, <1>2, <1>3, <1>4, <1>5, SameTold

LEMMA DeliverTold ==
    ASSUME Safe, ToldInv, NEW c \in Conns, Deliver(c)
    PROVE  ToldInv'
<1>1. /\ inbox[c] # << >>
      /\ wire' = [wire EXCEPT ![c] = Append(@, Head(inbox[c]))]
      /\ inbox' = [inbox EXCEPT ![c] = Tail(@)]
      /\ UNCHANGED <<listed, conn, subs, active, updates, thread, calls>>
  BY DEF Deliver, serverVars, quikVars
<1>2. wire[c] \in Seq(Calls) /\ inbox[c] \in Seq(Calls)
  BY ToldType DEF ToldInv
<1>3. PICK w \in Seq(Calls), p \in Seq(Calls) : w = wire[c] /\ p = inbox[c]
  BY <1>2
<1>4. /\ Append(w, Head(p)) \in Seq(Calls) /\ Tail(p) \in Seq(Calls)
      /\ Append(w, Head(p)) \o Tail(p) = w \o p
  <2>1. p # << >>
    BY <1>1, <1>3
  <2> QED
    BY <2>1, DeliverKeeps
<1>5. /\ inbox' \in [Conns -> Seq(Calls)] /\ wire' \in [Conns -> Seq(Calls)]
      /\ inbox'[c] = Tail(p) /\ wire'[c] = Append(w, Head(p))
      /\ \A d \in Conns : d # c => inbox'[d] = inbox[d] /\ wire'[d] = wire[d]
  BY <1>1, <1>3, <1>4 DEF ToldInv, ListsOK
<1>6. ASSUME NEW d \in Conns PROVE Told(d)' = Told(d)
  BY <1>3, <1>4, <1>5 DEF Told
<1>7. conn[c] = "open" /\ updates' \in Seq(Calls)
  BY <1>1 DEF ToldInv, ConnectionsOK, ListsOK
<1> QED
  BY <1>1, <1>5, <1>6, <1>7, SameTold

LEMMA InitTold == Init => ToldInv
<1> SUFFICES ASSUME Init PROVE ToldInv
  OBVIOUS
<1>1. /\ calls = << >> /\ listed = << >> /\ updates = << >>
      /\ conn = [c \in Conns |-> "new"] /\ subs = [c \in Conns |-> {}]
      /\ inbox = [c \in Conns |-> << >>] /\ wire = [c \in Conns |-> << >>]
      /\ thread = [t \in Threads |-> Idle]
  BY DEF Init
<1>2. /\ << >> \in Seq(Conns) /\ << >> \in Seq(Calls) /\ ToSet(<< >>) = {}
      /\ Distinct(<< >>) /\ Len(<< >>) = 0 /\ DOMAIN << >> = {}
  BY DEF ToSet, Distinct
<1>3. ListsOK
  <2>1. \A t \in Threads : thread[t].call = 0 /\ thread[t].todo = << >>
    BY <1>1 DEF Idle
  <2>2. Len(calls) = 0 /\ 0 \in 0..0
    BY <1>1
  <2>3. /\ conn \in [Conns -> {"new", "open", "deleted"}]
        /\ subs \in [Conns -> SUBSET Names]
        /\ inbox \in [Conns -> Seq(Calls)] /\ wire \in [Conns -> Seq(Calls)]
    BY <1>1, <1>2
  <2> QED
    BY <1>1, <1>2, <2>1, <2>2, <2>3 DEF ListsOK
<1>4. ConnectionsOK /\ LatestCall /\ DueOK
  BY <1>1, <1>2 DEF ConnectionsOK, LatestCall, DueOK, Idle
<1>5. \A c \in Conns : Told(c) = << >>
  BY <1>1 DEF Told
<1>6. SentAreRegistered /\ SentByLoop /\ CallbacksStayInOrder
  BY <1>1, <1>2, <1>5
     DEF SentAreRegistered, SentByLoop, CallbacksStayInOrder, Sent, Idle
<1> QED
  BY <1>3, <1>4, <1>6 DEF ToldInv

LEMMA NextTold == IInv /\ ToldInv /\ [Next]_vars => ToldInv'
<1> SUFFICES ASSUME Safe, ToldInv, [Next]_vars PROVE ToldInv'
  BY DEF IInv
<1>1. CASE UNCHANGED vars
  <2>1. \A c \in Conns : Told(c)' = Told(c)
    BY <1>1 DEF vars, Told
  <2> QED
    BY <1>1, <2>1, SameTold DEF vars, ToldInv, ListsOK
<1>2. CASE ServerStep
  BY <1>2, LoopTold, DeliverTold, EndTold DEF ServerStep
<1>3. CASE ClientStep
  <2>1. \A c \in Conns : Wanted[c] \subseteq Names
    BY WantedAssumption
  <2> QED
    BY <1>3, <2>1, EstablishTold, EndTold, RegisterTold, LoopTold DEF ClientStep
<1>4. ASSUME NEW t \in Threads, CallStep(t) PROVE ToldInv'
  BY <1>4, FindBridgeTold, SetRecentStackTold, FindHandlerTold, TestActiveTold,
     CopyConnectionsTold, SendToNextTold, FinishCallTold DEF CallStep
<1>5. ASSUME NEW t \in Threads, NEW name \in Names, Call(t, name) PROVE ToldInv'
  BY <1>5, CallTold
<1> QED
  BY <1>1, <1>2, <1>3, <1>4, <1>5 DEF Next

\* The lists agree with the connections, and each client has been told what
\* the loops have sent it (callbackRequest, safeSendReq, connectionEstablished,
\* register, ~ConnectionData).
THEOREM ToldInvariant == Spec => [](IInv /\ ToldInv)
<1>1. Init => IInv /\ ToldInv
  BY InitInvariant, InitTold
<1>2. (IInv /\ ToldInv) /\ [Next]_vars => (IInv /\ ToldInv)'
  BY NextInvariant, NextTold
<1> QED
  BY <1>1, <1>2, PTL DEF Spec

\* A client gets the callbacks of one thread in the order in which QUIK made
\* them, whatever connects, registers and disconnects meanwhile.
THEOREM CallbacksInOrder == Spec => []CallbacksStayInOrder
<1>1. ToldInv => CallbacksStayInOrder
  BY DEF ToldInv
<1> QED
  BY <1>1, ToldInvariant, PTL

\* Nobody is sent a callback twice.
LEMMA ToldOnce ==
    ASSUME IInv, ToldInv, NEW c \in Conns, NEW n \in ToSet(Told(c))
    PROVE  Cardinality({i \in DOMAIN Told(c) : Told(c)[i] = n}) = 1
<1>1. PICK k \in DOMAIN Told(c) : Told(c)[k] = n
  BY DEF ToSet
<1>2. Told(c) \in Seq(Calls) /\ \A i \in DOMAIN Told(c) : i \in Int
  BY ToldType DEF ToldInv
<1>3. n \in Int
  BY <1>1, <1>2, MaxCallsAssumption DEF Calls
<1>4. ASSUME NEW i \in DOMAIN Told(c), Told(c)[i] = n PROVE i = k
  <2>1. ~(i < k) /\ ~(k < i)
    BY <1>1, <1>3, <1>4 DEF ToldInv, CallbacksStayInOrder
  <2> QED
    BY <1>2, <2>1
<1>5. {i \in DOMAIN Told(c) : Told(c)[i] = n} = {k}
  BY <1>1, <1>4
<1> QED
  BY <1>5, FS_Singleton

\* When a callback has returned, each client that had registered its name
\* before and is still connected has been sent it, or will be, exactly once;
\* nobody is sent a callback it has not registered.
THEOREM SubscribersAreTold == Spec => []EachSubscriberIsTold
<1>1. IInv /\ ToldInv => EachSubscriberIsTold
  <2> SUFFICES ASSUME IInv, ToldInv, NEW c \in Conns, conn[c] = "open"
               PROVE  /\ \A n \in DOMAIN calls : calls[n].done /\ c \in calls[n].due =>
                           Cardinality({i \in DOMAIN Told(c) : Told(c)[i] = n}) = 1
                      /\ \A i \in DOMAIN Told(c) : calls[Told(c)[i]].name \in subs[c]
    BY DEF EachSubscriberIsTold
  <2>1. ASSUME NEW n \in DOMAIN calls, calls[n].done, c \in calls[n].due
        PROVE  Cardinality({i \in DOMAIN Told(c) : Told(c)[i] = n}) = 1
    <3>1. n \in ToSet(Told(c))
      BY <2>1 DEF ToldInv, DueOK, Sent
    <3> QED
      BY <3>1, ToldOnce
  <2>2. \A i \in DOMAIN Told(c) : calls[Told(c)[i]].name \in subs[c]
    BY DEF ToldInv, SentAreRegistered, ToSet
  <2> QED
    BY <2>1, <2>2
<1> QED
  BY <1>1, ToldInvariant, PTL


-----------------------------------------------------------------------------
(* Types.                                                                  *)

Kinds == {"none", "raceBridge", "raceStacks", "raceHandlers", "raceActive",
          "raceConnections", "raceSubscriptions", "freedBridge", "freedServer",
          "freedConnection"}

\* The variables that the other invariants say little of.
RestOK ==
    /\ quit \in BOOLEAN
    /\ bridge \in {"null", "alive", "deleted"}
    /\ stacks \subseteq Threads \cup {ServerThread}
    /\ callable \subseteq Names
    /\ active \subseteq Names
    /\ ub \in Kinds

LEMMA RiskType ==
    ASSUME ub = "none", NEW STATE faults, Risk(faults),
           \A f \in faults : f[2] \in Kinds
    PROVE  ub' \in Kinds
<1>1. ub' = "none" \/ \E f \in faults : f[1] /\ f[2] = ub'
  BY RiskCause
<1> QED
  BY <1>1 DEF Kinds

LEMMA ReservedNames == \A i \in DOMAIN Reserved : Reserved[i] \in Names
  BY NamesAssumption DEF ToSet

LEMMA CallStepRest ==
    ASSUME RestOK, ub = "none", NEW t \in Threads, CallStep(t)
    PROVE  RestOK'
<1>1. CASE FindBridge(t)
  <2>1. ub' \in Kinds
    BY <1>1, OneRisk DEF FindBridge, Kinds
  <2> QED
    BY <1>1, <2>1 DEF FindBridge, RestOK, mainVars, serverVars
<1>2. CASE SetRecentStack(t)
  <2>1. Risk({<<BridgeIsGone, "freedBridge">>, <<NewEntry(t), "raceStacks">>})
    BY <1>2 DEF SetRecentStack, NewEntry, BridgeIsGone
  <2>2. ub' \in Kinds
    BY <2>1, TwoRisks DEF Kinds
  <2> QED
    BY <1>2, <2>2 DEF SetRecentStack, RestOK, mainVars, serverVars
<1>3. CASE FindHandler(t)
  <2>1. ub' \in Kinds
    BY <1>3, OneRisk DEF FindHandler, Kinds
  <2> QED
    BY <1>3, <2>1 DEF FindHandler, RestOK, mainVars, bridgeVars, serverVars
<1>4. CASE TestActive(t)
  <2>1. ub' \in Kinds
    BY <1>4, OneRisk DEF TestActive, Kinds
  <2> QED
    BY <1>4, <2>1 DEF TestActive, RestOK, mainVars, bridgeVars, serverVars
<1>5. CASE CopyConnections(t)
  <2>1. ub' \in Kinds
    BY <1>5, OneRisk DEF CopyConnections, Kinds
  <2> QED
    BY <1>5, <2>1 DEF CopyConnections, RestOK, mainVars, bridgeVars, serverVars
<1>6. CASE SendToNext(t)
  <2>1. ub' \in Kinds
    BY <1>6, OneRisk DEF SendToNext, Kinds
  <2> QED
    BY <1>6, <2>1 DEF SendToNext, RestOK, mainVars, bridgeVars, serverVars
<1>7. CASE FinishCall(t)
  <2>1. ub' \in Kinds
    BY <1>7, OneRisk DEF FinishCall, Kinds
  <2>2. quit' \in BOOLEAN
    BY <1>7 DEF FinishCall, RestOK
  <2> QED
    BY <1>7, <2>1, <2>2 DEF FinishCall, RestOK, bridgeVars, serverVars
<1> QED
  BY <1>1, <1>2, <1>3, <1>4, <1>5, <1>6, <1>7 DEF CallStep

LEMMA ConnectionsRest ==
    ASSUME RestOK, ub = "none",
           \/ \E c \in Conns : Establish(c) \/ Close(c)
           \/ DestroyConnection
    PROVE  RestOK'
<1>1. Risk({<<Someone("copy"), "raceConnections">>})
  BY DEF Establish, Close, DestroyConnection, DeleteConnection
<1>2. ub' \in Kinds
  BY <1>1, OneRisk DEF Kinds
<1>3. UNCHANGED <<quit, bridge, stacks, callable, active>>
  BY DEF Establish, Close, DestroyConnection, mainVars, bridgeVars
<1> QED
  BY <1>2, <1>3 DEF RestOK

LEMMA RegisterRest ==
    ASSUME RestOK, ub = "none", NEW c \in Conns, NEW name \in Names,
           Register(c, name)
    PROVE  RestOK'
<1> DEFINE faults == {<<AddedTo(handlers, name, "handlers"), "raceHandlers">>,
                      <<AddedTo(active, name, "active"), "raceActive">>,
                      <<SendingTo(c), "raceSubscriptions">>}
<1>1. Risk(faults) /\ \A f \in faults : f[2] \in Kinds
  BY DEF Register, AddedTo, SendingTo, Kinds
<1>2. ub' \in Kinds
  BY <1>1, RiskType
<1> QED
  BY <1>2 DEF Register, RestOK, mainVars

LEMMA ServerStepRest ==
    ASSUME RestOK, ub = "none", ServerStep
    PROVE  RestOK'
<1>1. CASE StartMain
  <2>1. ub' \in Kinds
    BY <1>1, TwoRisks DEF StartMain, Kinds
  <2> QED
    BY <1>1, <2>1 DEF StartMain, RestOK, serverVars
<1>2. CASE Construct
  <2>1. ub' \in Kinds
    BY <1>2, TwoRisks DEF Construct, Kinds
  <2> QED
    BY <1>2, <2>1, ReservedNames DEF Construct, RestOK, mainVars
<1>3. CASE DestroyBridge
  <2>1. ub' \in Kinds
    BY <1>3, OneRisk DEF DestroyBridge, Kinds
  <2> QED
    BY <1>3, <2>1 DEF DestroyBridge, RestOK, serverVars
<1>4. CASE \/ Exec \/ TakeUpdate \/ LeaveLoop \/ DestroyServer
           \/ \E c \in Conns : Deliver(c)
  <2>1. UNCHANGED <<quit, bridge, stacks, callable, active, ub>>
    BY <1>4 DEF Exec, TakeUpdate, LeaveLoop, DestroyServer, Deliver, mainVars,
                bridgeVars, serverVars
  <2> QED
    BY <2>1 DEF RestOK
<1> QED
  BY <1>1, <1>2, <1>3, <1>4, ConnectionsRest DEF ServerStep

LEMMA NextRest == RestOK /\ [Next]_vars => RestOK'
<1> SUFFICES ASSUME RestOK, [Next]_vars PROVE RestOK'
  OBVIOUS
<1>1. CASE UNCHANGED vars
  BY <1>1 DEF vars, RestOK
<1>2. CASE ub = "none" /\ ServerStep
  BY <1>2, ServerStepRest
<1>3. CASE ub = "none" /\ ClientStep
  <2>1. \A c \in Conns : Wanted[c] \subseteq Names
    BY WantedAssumption
  <2>2. CASE UseRecentStack
    BY <2>2 DEF UseRecentStack, RestOK, Kinds, mainVars, bridgeVars, serverVars
  <2> QED
    BY <1>3, <2>1, <2>2, ConnectionsRest, RegisterRest DEF ClientStep
<1>4. ASSUME NEW t \in Threads, ub = "none", CallStep(t) PROVE RestOK'
  BY <1>4, CallStepRest
<1>5. ASSUME NEW t \in Threads, NEW name \in Names, Call(t, name) PROVE RestOK'
  BY <1>5 DEF Call, RestOK, mainVars, bridgeVars, serverVars
<1> QED
  BY <1>1, <1>2, <1>3, <1>4, <1>5 DEF Next

\* Every variable keeps its type, and the list of connections has exactly the
\* open ones (connectionEstablished, ~ConnectionData).
THEOREM TypeCorrect == Spec => []TypeOK
<1>1. Init => RestOK
  BY NamesAssumption DEF Init, RestOK, Kinds
<1>2. RestOK /\ [Next]_vars => RestOK'
  BY NextRest
<1>3. IInv /\ ToldInv /\ RestOK => TypeOK
  <2> SUFFICES ASSUME IInv, ToldInv, RestOK PROVE TypeOK
    OBVIOUS
  <2>1. /\ handlers = active /\ phase \in Phases /\ conn \in [Conns -> {"new", "open", "deleted"}]
        /\ subs \in [Conns -> SUBSET Names]
        /\ Len(calls) <= MaxCalls
    BY DEF IInv, Safe, PhasesOK, CallsOK, ToldInv, ListsOK
  <2>2. ToSet(listed) = {c \in Conns : conn[c] = "open"}
    <3>1. ToSet(listed) \subseteq Conns
      BY DEF ToldInv, ListsOK, ToSet
    <3> QED
      BY <3>1 DEF ToldInv, ConnectionsOK
  <2>3. \A c \in Conns : ToSet(inbox[c]) \cup ToSet(wire[c]) \subseteq Calls
    <3>1. \A c \in Conns : inbox[c] \in Seq(Calls) /\ wire[c] \in Seq(Calls)
      BY ToldType DEF ToldInv
    <3> QED
      BY <3>1 DEF ToSet
  <2>4. ToSet(updates) \subseteq Calls
    BY DEF ToldInv, ListsOK, ToSet
  <2>5. ASSUME NEW t \in Threads
        PROVE  /\ thread[t].at \in Stages
               /\ thread[t].call \in 0..Len(calls)
               /\ ToSet(thread[t].todo) \subseteq Conns
    BY DEF IInv, Safe, ThreadsOK, ToldInv, ListsOK, ToSet
  <2>6. \A n \in DOMAIN calls : calls[n] \in CallRecord
    BY DEF IInv, Safe, CallsOK
  <2> QED
    BY <2>1, <2>2, <2>3, <2>4, <2>5, <2>6 DEF TypeOK, RestOK, Kinds
<1> QED
  BY <1>1, <1>2, <1>3, ToldInvariant, PTL DEF Spec

=============================================================================
