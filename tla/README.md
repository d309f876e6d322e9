# Formal models of QuikQtBridge

QuikQtBridge is a Lua plugin for the trading terminal QUIK.  It runs a Qt event
loop on the thread of QUIK's `main` function, serves JSON requests over TCP and
calls Lua on behalf of its clients.  QUIK calls back on threads of its own.
This directory holds TLA+ models of the parts of the program in which the order
of events matters, configurations that check them with TLC, and proofs checked
by TLAPS.

| module | what it is |
|---|---|
| `FastCallback` | the synchronous callback: a thread of QUIK sleeps until a client answers |
| `FastCallbackProofs` | its type invariant, the safety of `fcbWaitResult`, whose answer a call gets and what undefined behaviour needs, proved |
| `RemoteCall`, `FastCallbackImpl` | what a synchronous callback promises, and the mapping under which `FastCallback` implements it |
| `FastCallbackImplProofs` | that implementation, proved |
| `Subscriptions` | the subscription tree, the requests that change it, the update passes |
| `SubscriptionService`, `SubscriptionsImpl` | what the server promises its subscribers, and the mapping under which `Subscriptions` implements it |
| `SubscriptionsProofs` | the type invariant and the safety invariants of `Subscriptions`, and that implementation, proved |
| `JumpTable` | the functions given to Lua, the slots behind them, references to Lua objects |
| `JumpTableProofs` | the consistency of the table, who holds a reference, where a call ends, proved |
| `Framing` | how the stream of a client is cut into messages |
| `FramingProofs` | what the scan of a text finds, proved |
| `Session` | the life of one connection, from `incomingConnection` to the deletion of its handler |
| `SessionProofs` | its types, which messages are found, the order on the wire, answers and requests, the causes of undefined behaviour, proved |
| `NamedCallbacks` | the callbacks QUIK makes by name, from the start of `main` to the end of the bridge |
| `NamedCallbacksProofs` | who is told which callback and in what order, how far the missing locks and the order of the end reach, proved |
| `LuaCalls` | calls from clients to Lua and from Lua to clients, with the Lua stack; the conversions are parameters |
| `LuaCallsProofs` | what is on the Lua stack during and between calls, and what comes back over it, proved |
| `LuaValues` | the conversions between QVariant and Lua |
| `MC...` | the instances for TLC, with one `.cfg` per run |

## 1. The system

### Threads

- The **server thread** is the one on which QUIK runs the plugin's `main`.  It
  runs the Qt event loop: connections, requests, timers, posted events.
- **QUIK's threads** call the plugin's Lua functions: `OnParam`, `OnQuote`,
  `OnStop`, the callbacks that clients have registered, and the functions that
  clients have passed to QUIK as arguments.
- Lua serialises the interpreter, not the plugin's C++ data.  Nothing but
  `invokeMethod(..., QueuedConnection)` and one `QMutex` in the synchronous
  callback order the two sides.
- A function of QUIK called by the server thread may call a callback at once,
  on the server thread itself.

### Components

| component | state | operations | what makes it correct |
|---|---|---|---|
| synchronous callbacks (`bridgetcpserver.cpp`, `FastCallbackRequestEventLoop`) | `ConnectionData::fcbWaitResult`, `outMsgId`; the object on the caller's stack: `cd`, `id`, `waitMux`, `waitMutex`, `result` | `fastCallbackRequest`, `sendAndWaitResult`, `fastCallbackRequestHandler`, `fastCallbackReturnArrived`, `connectionDataDeleted` | no thread uses the other's object after its end; every call returns; it returns its own answer |
| subscriptions (`ParamSubscriptionsDb`, `ClsSubs`, `SecSubs`, `ParamSubs`) | a tree class / security / parameter with maps from connections to ids, the last value of each parameter; QUIK's own requests | the four `process...Request` handlers, `secParamsUpdate`, `secQuotesUpdate`, `clearAllSubscriptions` | the tree has exactly the nodes it needs; no change is lost; a pass survives failing sends; QUIK serves what is subscribed |
| connection lifecycle (`BridgeTCPServer`, `ConnectionData`) | `m_connections`, the protocol handler, `objRefs` | `incomingConnection`, `connectionEstablished`, `protoFinished`, `protoError`, `~ConnectionData` | nothing refers to a deleted connection |
| session layer (`JsonProtocolHandler`) | receive buffer, state of the `end` handshake, the socket | `sendReq`, `sendAns`, `sendVer`, `end`, `readyRead`, `processBuffer` | the messages are found however the stream is cut; answers in order; nothing after the end; the end finishes |
| requests `register`, `invoke`, `delete` | `activeCallbacks`, `m_handlers`, `callbackSubscriptions`, `objRefs` | the branches of `protoReqArrived` | what a client is told agrees with what QUIK will do |
| jump table (`quikcoast.cpp`) | `jumpTable[JUMP_TABLE_SIZE]`: `owner`, `fName`, `callerName`, `customData` | `registerNamedCallback`, `registerFastCallback`, `unregisterAllObjectCallbacks`, `universalCallbackHandler` | a function given to Lua reaches what it was given for |
| references to Lua objects | the Lua registry, `ConnectionData::objRefs` | `luaL_ref` of results, `deleteQuikObject` | each reference has one holder and is released once |
| singleton, predefined callbacks, shutdown (`quikqtbridge.cpp`) | `global_bridge`, `recentStackMap` | `initQuikQtBridge`, `callbackRequest`, `deinitQuikQtBridge`, `OnStop` | every subscriber is told, in order; `OnStop` ends `main`; nothing is used after its end |
| value conversion (Lua to QVariant and back) | the Lua stacks | `extractValueFromLuaStack`, `pushVariantToLuaStack`, `invokeQuik`, `invokeQuikObject` | values survive the way; the stack does not fill up |
| queries `loadAccounts`, `loadClasses`, `loadClassSecurities` | the cache of class codes | read QUIK and answer | - |
| configuration, allowed addresses | read once | `ServerConfigReader`, `ipAllowed` | - |
| logging | log files, one per connection | `logIncoming`, `logOutgoing`, the lines sent to standard output | - |
| plugin entry, build; example client, Lua starter | - | - | - |

### How the parts interact

A client's request travels socket -> `JsonProtocolHandler` -> `BridgeTCPServer`
-> `QuikQtBridge` / Lua.  `invoke` with a callable argument goes on to the jump
table: the argument becomes a C function that Lua may keep.  QUIK later calls
that function, `universalCallbackHandler` finds the slot, and either a named
callback is sent to its subscribers or the client that owns the function is
asked and waited for.  `OnParam` and `OnQuote` post an event to the server
thread, which compares values and sends updates.  The end of a connection cuts
through all of this: it wakes the waiting call, clears the subscriptions and
releases the client's Lua objects with their slots.

### What is hard

- Two threads share the synchronous callback's object and the jump table
  without a lock; every access is a step of its own in the models.
- A send that fails calls `protoError` **inside** the send and deletes the
  connection, and with it parts of the tree, under the loop that sends.
- Qt's signals of a socket are calls: `disconnectFromHost` and `flush` may
  delete the handler whose `readyRead` is running.
- Callbacks by name walk the server's lists on QUIK's threads while the server
  thread changes them, and outlive the server and the bridge.
- The wait times out after `FASTCALLBACK_TIMEOUT_SEC`; the posted request, the
  client's answer and the deletion may all come later.
- Lua keeps functions and numbers longer than the objects they stand for:
  slots, registry indices and addresses of connections are reused.
- The request a client makes of QUIK is shared by all clients.

The list of hazards with their source lines is in `PROJECT.json`.

## 2. The models and the code

### FastCallback

One `call[n]` is one execution of `fastCallbackRequest`, that is, one
`FastCallbackRequestEventLoop` object; `call[n].stage` is the position in
`sendAndWaitResult` and the other fields are the members of the object.  The
actions of the calling thread are one per access to shared state: `Begin`,
`Install` (`cd->fcbWaitResult = this`), `Post`, `Lock`, `Woken` or `Timeout`
(the two outcomes of `tryLock`), `ClearWaitMux`, `Unlock`, `TestConnection`,
`ResetAndReturn`.  The server thread's handlers are cut at each pointer they
read and use later: `HandleRequest`/`TagAndSend`, `AnswerArrives`/`MatchAnswer`/
`WakeCaller`, `Close`/`DeleteConnection`/`DetachCall`/`WakeCaller`.  What the
handler has read is kept in `srv`.  A pointer that C++ tests and then uses may
be read twice or once: `SecondRead` allows both.

`result` and `request` hold the number of the call an answer belongs to, not
the answer itself, so "a wrong answer" is a mismatch of numbers.  `id` starts
with a value of `Garbage`, since the constructor leaves the member
uninitialised.  The `QMutex` is the Boolean `locked`; unlocking it when it is
not locked is undefined in Qt and recorded in `ub`.  Once `ub` is set the model
stops: nothing is claimed of a program after undefined behaviour.

A client answers a request at most once and with the `id` of that request, in
any order and as late as it likes; one that answers twice, or with an `id` it was
never given, is not modelled.

### Subscriptions

`db` is the tree, as sets of paths and of entries `<<path, connection, id>>`.
The operators `AddConsumer`, `DelConsumer`, `AddQuotesConsumer`,
`DelQuotesConsumer` and `ClearAllSubscriptions` are the code's operations of
the same names, composed over the levels as the code's methods call each other.
`SubscribeParam`, `UnsubscribeParam`, `SubscribeQuotes`, `UnsubscribeQuotes`
are the handlers with all they do: the change of the tree, the call to QUIK
(whose answer is an input), the send of the answer, the pass at the end.
`Send` is a send that succeeds, or, on a connection of `reset`, one that fails
and deletes the connection before it returns.

A pass is `secParamsUpdate` or `secQuotesUpdate` in progress.  `CheckParam` is
a turn of the outer loop, `SendParam` and `SendQuotes` a turn of the inner one.
Values change between the steps, because QUIK runs beside the server, but no
other handler runs, because the event loop is not re-entered.  The names of
the parameters and the consumers are copied at the beginning, as in the code;
the `SecSubs` pointer is kept.  A use of a node that has been deleted sets
`ub`.  The order in which a `QMap` of pointers is walked is that of the
addresses and is left open.

`Canon` says which class code QUIK uses for a spelling a client may use:
`cacheSecClasses` finds the class without regard to case, and the request goes
on with the client's spelling.  `getParamEx2` is assumed to accept either
spelling; if it did not, the subscription would not even get a first value.

`told`, `orphaned` and `refused` are history variables for the properties.
`told[c][k]` is the last value that was really sent to c in its subscription to
k, and `NoValue` before the first: a client that subscribes where a value is
stored already is sent nothing until the next change, which is what
`src/README.md:117` promises, updates and no first value.

### JumpTable

`slot` is the table, `data` the `FastCallbackFunctionData` objects in the order
of their creation, `held` the functions Lua still has, each with the slot it is
compiled for and what it was given for.  What QUIK does with functions is not
in the repository: it may keep or drop any function it is given and call any
function it has, from any of its threads and at any time.

`RegisterCallback`, `Invoke`, `PushCallable`, `SetCustomData` and
`FinishInvoke` are the requests `register` and `invoke`; the server thread's
writes to a slot are split where another thread can see the difference (owner
and caller name before `customData`, `customData` freed before `owner` is
cleared).  `Delete`, `Close`, `TakeLast`, `ReleaseData`, `ClearOwner`,
`ClearSlot`, `Unref` are the request `delete` and the loop of
`~ConnectionData` over `objRefs`, both through `deleteQuikObject` and
`unregisterAllObjectCallbacks`.  `ReadName`, `TestOwner`, `LoadData`,
`ReadConnection` and `UseData` are `universalCallbackHandler` and the beginning
of `fastCallbackRequest` on a thread of QUIK.

Registry indices and addresses of connections are reused, as Lua and the heap
do.  `foreign` records that a client has used a number that it does not hold,
which the server does not prevent; the properties that need it say so.

Left out here: `callbackSubscriptions` and the sending of named callbacks
(`NamedCallbacks`), errors raised in `lua_pcall` and the Lua stack
(`LuaCalls`), and torn reads of the `QString` `fName`.

A table without a free slot is among the states: `registerCallback` then fails,
its result is dropped, the client is answered `registered`, and since the name
is in `activeCallbacks` from then on nobody can register it later.

### RemoteCall and SubscriptionService

`RemoteCall` is the synchronous callback as QUIK sees it: asked, sent, answered,
given up, returned, without threads or locks.  It allows one oddity of the code,
an answer that goes to another call, and only after somebody on the same
connection has given up or two threads of QUIK have called on it.  In `FastCallbackImpl` a call is pending as long as its
object is alive, `open` is `m_connections`, and a request is unsent until
`TagAndSend`, also while its event waits.

`SubscriptionService` is a flat set of subscriptions and one kept value per
parameter that has a subscriber.  A value taken from QUIK is `owed` to everyone
who is subscribed then, and none is taken while anybody is owed the one before.
A client that subscribes later is owed nothing: the code does not send it the
value kept, only the next change, and `known` says so.  `SubscriptionsImpl`
forgets the ids and the nodes of the tree, the events and the passes.  Under the
mapping the steps of a pass become `Take` and `Tell`, whom it has still to serve
is who is owed, a failing send becomes `Leave` of one client, and nearly
everything else is a stutter.

### Framing and Session

`Framing` is the scan of `processBuffer`: `Nesting` the two flags and the
counter, `ReadChar` one turn with the end of a document, `Scan` the loop up to
the first message, `SkipTrash` what goes before the first brace.  Characters
are braces, quotes, backslashes and others, and `QJsonDocument::fromJson`
together with the tests of `id` and `type` is the comparison with the known
texts of the messages.  What a document is (`IsDocument`) is said by the
counters after each of its characters: the braces balance outside strings at its
end and not before, as in every JSON object.

In `Session` one action is one signal or posted event: `Established`,
`ReadyRead`, `Flushed`, `Lost`, `SendUpdate`; the loop of `readyRead` is
`NextTurn`, one call of `processBuffer`, since what a message leads to may
delete the handler under it (`UseDeletedHandler`).  `SocketDown` is
`protoFinished` or `protoError`, called from inside whatever brought the socket
down.  A write may leave something in the write buffer (`unsent`), which decides
whether `disconnectFromHost` disconnects at once.  `stream` is cut by the network
at any place; `heard` is history.

The server writes an `ans` for two kinds of messages (`Answered`): for a request,
unless its method is `Unknown`, and, with `sendError`, for an answer of the client
without a method or with the method `nop` (`Malformed`, `TakeAnswer`).  To a
request of an unknown method it says nothing, and its client waits for ever; no
document promises it an answer.

### NamedCallbacks

A callback on a thread of QUIK is cut where it reads what the server thread
writes: `FindBridge`, `SetRecentStack`, `FindHandler`, `TestActive`,
`CopyConnections`, `SendToNext` for each connection of the copy, `FinishCall`.
The stage of a thread is an access in progress.  `Risk` records in `ub` a write
by the other side during an access to a container that is not atomic, and an
access to an object already deleted; C++ promises nothing then and the model
stops.  The server thread goes through `StartMain`, `Construct`, `Exec`, the
event loop with `Establish`, `Register`, `Close`, `Deliver`, `TakeUpdate`, then
`LeaveLoop`, `DestroyConnection`, `DestroyServer`, `DestroyBridge`.  `quit` told
to an event loop that does not run yet is lost, as in Qt.  What `secParamsUpdate`
does is in `Subscriptions`, and a slot is taken to be free for each name.

### LuaCalls and LuaValues

`LuaCalls` has the constants `Push`, `Extract` and `ToJson` for the conversions
and `PushCells`, `ExtractCells` for the cells they need; the `.cfg` gives them
the operators of `LuaValues`.  The calls are so apart from the conversions, as
`invokeQuik` is from `pushVariantToLuaStack`, and can be proved about without
recursion.

`PushVariant` and `ExtractValue` are the two conversions on nested values.  Truth
values, numbers, texts and the names of fields are atoms, of which five kinds do
not stay what they are.  A number that Lua writes without a decimal point though
it is no integer, such as `1e-05` (`Power`), and an integer that is not the value
of a double, since the comparison goes through one (`Big`), come back as texts.
A text goes to Lua through `toLocal8Bit` and `lua_pushstring`: characters that the
code page does not have are replaced (`Foreign`), and what follows a NUL is lost
(`WithNul`); back it goes through `fromLocal8Bit` of a C string, with the same end
at the NUL and a replacement for bytes the code page does not define
(`Undefined`).  The code page is taken to be one of 8 bits, as on the systems
QUIK runs on, and two names in one table to stay two.  `IsList` and `HasFunction` are the tests
that make a table a list, an object or a map; an object inside of something
becomes `null` in JSON and its reference is lost.

`LuaCalls` has the stack of `main`: `Invoke`, one `PushArgument` for each
argument, `CallReturns` or `CallFails`, one `PopResult` for each result,
`Finish`.  A failing method call leaves its object behind, and the client is
answered with an empty list.  Callbacks have stacks of their own and are one
step.  A function of QUIK may return anything in `Returns`, or what it was given.

## 3. What the runs show

All bounds are constants of the modules or sets in the `.cfg` files.

| run | bounds | shows |
|---|---|---|
| `fastcallback_safety` | 2 connections, 3 functions (two on one connection), a QUIK thread and the server thread, 3 calls | `PointerIsLive`, `StrayAnswersHaveCause`, `UndefinedBehaviourCauses` |
| `fastcallback_live` | 1 connection, 1 function, two QUIK threads and the server thread, 2 calls | `CallersAreWoken` by an accepted answer and by the deletion of the connection, without a timeout; `EveryCallReturns` with timeouts; `ImplementsRemoteCall` |
| `subscriptions_params` | 2 clients, 1 class, 1 security, 2 parameters, 2 values, quotes | the seven safety properties of the tree and the passes; constraint `OneRefusal`: of the requests made, QUIK holds back one at a time |
| `subscriptions_live` | 2 clients, 1 parameter, 2 values, quotes | `UpdatesArrive`: a value that is not stored yet and stays in QUIK is sent to every client that is and stays subscribed; `ImplementsSubscriptionService` |
| `jumptable_calls` | 2 addresses of connections, 2 connections in sequence or together, 3 slots, a predefined and another name, 1 object, 2 function data objects, 1 QUIK thread | the seven safety properties of the table, the references and the calls |
| `session_life` | 3 streams of 8 pieces or fewer with up to 6 messages and noise, two of them with a malformed answer, one update of the server | the framing, the order of answers and of the wire, the causes of undefined behaviour, what `m_connections` keeps, and `EndCompletes` |
| `namedcallbacks_stop` | 2 clients, 2 QUIK threads, 2 calls, `OnStop`, `OnParam` and a name of the clients' | `EachSubscriberIsTold`, `CallbacksStayInOrder`, the reach of the missing locks, `StopEndsMain` |
| `luacalls_stack` | 15 cells; arguments, results and answers up to three levels deep, with each atom that changes alone, in lists and maps, and as a name | `StackHoldsFailedCalls`, `EchoReturns` |

Four further runs check one property each that the repository's documents or
messages state and the code does not have; TLC shows a run of the program that
breaks it.

| run | property | what happens |
|---|---|---|
| `fastcallback_silent` | `SilentClientHarmless` | the call times out before the server thread takes its event; `fastCallbackRequestHandler` then uses the null `fcbWaitResult` |
| `subscriptions_uaf` | `PassCopesWithCancellation` | a send of a pass fails, the last subscriber goes, and the pass goes on with the deleted `SecSubs` |
| `jumptable_stray` | `FunctionsReachTheirClient` | an object is released, its slot is given to another callback, and QUIK's old function calls that one |
| `session_end` | `OrderlyEndIsHarmless` | a client sends `end`; `disconnectFromHost` finds an empty write buffer, the handler is deleted, and the loop of `readyRead` goes on with it |

The properties of the passing runs are stated so that they say how far these
flaws reach.  `StrayAnswersHaveCause`: the uninitialised `id` does no harm as
long as no call on the connection runs into its timeout and no two threads of
QUIK call on it; with two such threads the second call displaces the first in
`fcbWaitResult`, and its garbage `id` may be that of the first one's request.
`UndefinedBehaviourCauses` of `FastCallback`: with no timeout, no closed
connection and no two threads on one connection the handshake has exactly one
hole, the answer that overtakes `waitMutex.lock()`.  `SecSubsLostOnlyByDisconnect`: a pass loses its `SecSubs`
only through a failing send to the last subscriber.  `StrayCallsComeFromReleases`
and `UndefinedBehaviourCauses` of `JumpTable`: a call goes astray, or meets a
half-written slot, only after the object of its function was released.
`UndefinedBehaviourCauses` of `Session`: the handler is used after its deletion
only when the client has ended the session or a write has failed; of
`NamedCallbacks`: the map of stacks is in danger only with the first callback of
a thread and at the start, the names only while the server starts or a client
registers one, and the callback that stops the server never touches it after its
deletion.  `StackHoldsFailedCalls`: nothing but failed method calls is left on
Lua's stack, one cell for each.

A call made on the server thread (a QUIK function that calls back at once)
cannot be answered, because the answer would be read by the thread that waits;
`EveryCallReturns` shows that it still returns, after its timeout.  README.md
says that the calling thread is frozen until the client answers; the code gives
up after `FASTCALLBACK_TIMEOUT_SEC`, and the model follows the code.

### Why the bounds are enough to be interesting

- Two connections are the least for one to fail while another is served, and
  for a reused address.  Three calls let one time out, a second overlap with it
  on the other thread, and a third meet the leftovers of both.  Two threads of
  QUIK on one connection are in `fastcallback_live`, where two calls are enough
  to displace each other; three threads with three calls were too many states
  for a run, and what they may do is covered by the proofs, which bound neither.
- Two parameters of one security are the least for a pass to go on after a send
  of its first parameter; with one the `SecSubs` pointer is never used again.
  Two values are enough, since values are only compared for equality; symmetry
  over values, parameters and connections is sound for the same reason, and no
  run with a temporal property uses symmetry.  `OneRefusal` keeps
  `subscriptions_params` within its time: how a refusal acts on one request does
  not depend on another's, and that two at once do no more is in the proofs,
  which have no such bound.
- Three slots for one predefined name and two callers that may register
  functions, beside one more name, let the table be short by one: with all of
  them registered some request finds no slot.  Two data objects let a function
  be replaced, or given anew after a release.  `MaxRefs` is needed because a
  client may delete an object that another holds, after which the index is
  given out again and the lists grow.

- The streams of `Session` hold a brace and an escaped quote inside a string, a
  nested document, documents that are no messages, stray characters, a request
  of an unknown method, an answer without a method, and messages after the end.
  Every prefix of a stream may be a chunk, so that each character is once the
  last one read. A document that is thrown away and followed by stray characters
  is counted together with what comes next and may swallow messages;
  `MessagesAreFound` excludes that (`Tidy`), and one of the streams has it.
- Two callbacks on two threads are the least for a race between them and for one
  to stop the server under the other; two clients, one of which leaves, for the
  walk over the connections.
- 15 cells instead of Lua's 20 let the stack fill up after some five failed
  calls.

### Deadlock

`CHECK_DEADLOCK FALSE` everywhere: the models stop by design when undefined
behaviour is recorded, when the bound on calls is reached, or when every client
is gone and QUIK is silent.  That nothing waits forever is the subject of the
liveness properties.

### Fairness

- `FastCallback`: weak fairness of each call's own steps and of the server
  thread's handlers: both are threads the operating system runs, and the event
  loop processes what has been posted.  Nothing is assumed of clients, sockets
  or QUIK.  `LiveSpec` adds weak fairness of the timeouts of calls made on the
  server thread, `tryLock(FASTCALLBACK_TIMEOUT_SEC * 1000)`: nothing else can end
  them.  `EveryCallReturns` takes that of the other timeouts as its premise, so
  that `CallersAreWoken` is checked without them.
- `Subscriptions`: weak fairness of the steps of a pass, which is a loop on a
  running thread, and strong fairness of `StartPass(e)` for each posted event.
  Strong, because the event is disabled while some pass runs, again and again,
  and Qt's queue is first in, first out, so the turn of each event comes.
- `Session`: weak fairness of the posted `connectionEstablished`, of the loop of
  `readyRead`, of the socket that sends what is in its buffer, and of the event
  loop that notices a lost connection.  Nothing is assumed of the client or of
  when the network breaks.
- `NamedCallbacks`: weak fairness of each running callback and of the server
  thread as a whole.  Nothing is assumed of what QUIK calls or clients do.
- `JumpTable` and `LuaCalls` have no liveness property and no fairness.

## 4. What is proved

TLAPS checks the following for every value of the constants.

**FastCallbackProofs**: `TypeCorrect` (`Spec => []TypeOK`) and `NoDanglingPointer`
(`Spec => []PointerIsLive`).  Assumptions: those declared in `FastCallback`
(the bound is a positive number, the null connection is no connection, `Owner`
maps callbacks to connections, garbage is an integer).  `PointerIsLive` is not inductive: a server handler
between two steps holds a connection, a call and an id, and the proof has to
know what they refer to.  The inductive invariant is

    IInv == TypeOK /\ ServerHolds /\ CallHolds /\ PointerIsLive

`ServerHolds` says that the connection in `srv` is one, that the id being
handled is that of a request sent, and that a destructor runs on a closing
connection.  The central step is `ResetAndReturn`: it takes the object away and
resets `fcbWaitResult`, of its own connection and whatever it points to, so no
pointer to the ended call can be left in an open connection: `Install` alone
sets such pointers, to a call of that connection, and `DetachCall`, which would
make `cd` differ, runs on a connection that is no longer open.

The other two theorems of this module, `AnswersGoAstrayForCause` and
`CausesOfUndefinedBehaviour`, are for `StrayAnswersHaveCause` and
`UndefinedBehaviourCauses`.  Both are about calls that nobody disturbs, and
neither is inductive.  The invariant `AInv` follows a request through the
program: a call is posted once, its event becomes one request of its own
connection, the request is with the client, in a handler or over
(`PostedOnce`, `RequestedOnce`, `RightConnection`, `HandlersHold`,
`AnswersAreFinal`).  A call is `Quiet` if every other call on its connection was
made by its own thread and has not timed out; since a thread makes one call at a
time (`Turns`), all those are over.  While a quiet call is active, then, no
other request of the connection is out (`OneRequest`), `fcbWaitResult` points to
the call (`PointerIsMine`), a handler that is at work on its request holds it
(`HandlerIsMine`), and its `id` is that of the request as soon as that can be
answered (`IdIsMine`): an accepted answer is its own.  Calls of the server
thread need a clause of their own (`ServerCall`): no handler runs beside them,
so they end by their timeout and without an answer, and are a disturbance only
as that.  For the undefined behaviour `MayEnd` says what ends a wait, and `Calm`
that an undisturbed call whose wait is over has no request on its way and no
handler about to wake it, so that no handler finds a null pointer or a mutex
that is not locked, except before `waitMutex.lock()`.

**FastCallbackImplProofs**: `CallbackIsRemoteCall`, `Spec => ImplementsRemoteCall`,
the refinement of `RemoteCall`.  Under `IInv` and `AInv` each action of
`FastCallback` is one action of `RemoteCall` or none: `Begin` is `Ask`,
`TagAndSend` is `SendRequest`, an answer that finds its call is `Answer`, one
that finds nobody is `IgnoreAnswer`, an event of a closed connection is
`DropRequest`, the return is `Return`.  Its guards are what has to be shown:
that a call returns only with an answer, after giving up or without its client
(`MayEnd`), that an answer is ignored only if its call has given up or is not
alone on its connection, and that a call which takes another answer than its
own, or a second one, is disturbed.

**SubscriptionsProofs**: `TypeCorrect`, `TreeStaysMinimal`, `NoDeadConsumers`
and `SendLoopsAreSafe`, for `TypeOK`, `TreeIsMinimal`, `ConsumersAreLive` and
`LoopsAreSafe`.  The inductive invariant is the conjunction of these four.
Each operation on the tree has lemmas of its own: it keeps `Db`, it keeps the
tree minimal, and it says which entries it removes.  The last is what makes the
loops safe: a failing send removes the entries of one connection, and it is the
one just served.  `LoopsAreSafe` includes that `ub` is `none` or
`freedSecSubs`: of the three kinds of freed objects a pass could use, two are
impossible, for any number of clients, parameters and securities.

The other four, `SubscribersAreServed`, `ChangesAreNotLost`,
`LeftoversHaveCause` and `SecSubsLostByDisconnect` (for
`QuikServesSubscribers`, `NoChangeIsLost`, `LeftoversComeFromDisconnects` and
`SecSubsLostOnlyByDisconnect`), rest on a second invariant, `ServiceInv`.
Besides the first three of these it says what a pass knows: what it still has
to look at was in the tree when it began, and is in it or was orphaned by a
disconnection (`PassHolds`); every subscriber of a parameter was last sent its
stored value, or nothing yet, except those the pass is about to serve (`Told`); and nothing is
stored of a parameter that is not in the tree (`Clean`), so that a parameter
that comes back starts anew.  The parts are operators on a tree and not
predicates of the state: a handler changes the tree and then sends, which may
drop the connection, and they have to hold in between.

The last, `TreeIsSubscriptionService`, is `Spec =>
ImplementsSubscriptionService`, from `IInv` and `ServiceInv`.  Each action is
one action of `SubscriptionService` or none: a request is `Subscribe` or
`Unsubscribe`, and `Leave` if the send that answers it fails; `CheckParam` takes
the value (`Take`) and `SendParam` tells it (`Tell`).  That `Take` may only
happen when nobody is owed the value before is that the pass comes to the next
parameter with nobody left to serve; that `Tell` sends the value kept, and that a
new subscriber knows nothing, is what `told` records of each send.  Requests in a spelling of the class that is not QUIK's own
are no step of the service.

**JumpTableProofs**: `TypeCorrect`, `TableStaysConsistent` and
`NamesStayReachable`, for `TypeOK`, `TableIsConsistent` and
`NamesKeepTheirSlots`.  Assumptions: those declared in `JumpTable` (the
predefined names are distinct and fit into the table, the empty name is no
name, names are told apart from data, indices of `luaL_ref` are above 0).  The
first inductive invariant is

    TableInv == TypeOK /\ ServerHolds /\ CallHolds /\ SlotsHold /\ NamesHold
                /\ TableIsConsistent /\ NamesKeepTheirSlots

Freeing the data of one slot must not touch another, so `SlotsHold` says that no
two slots in use share data, and that a slot out of use has none, except the one
between `ClearOwner` and `ClearSlot`.  `ServerHolds` says what the server thread
knows of the slot it is filling or releasing: without it `SetCustomData` could
complete a slot that a caller no longer owns.  `NamesHold` keeps the names in
the table within those that have a handler or are predefined, so that the name
that `RegisterCallback` writes into a free slot is in no other.  `CallHolds` is
needed for types only: what a thread of QUIK has read from a slot was created.
`Lowest` chooses a member of its set because every nonempty set of slots has a
least element, which the proof takes from the well-foundedness of strict
inclusion on the finite intervals below it.

`ReferencesAreHeldOnce` and `SlotsStayWithTheirObject`, for
`ReferencesHaveOneHolder` and `SlotsFollowTheirObject`, rest on `RefInv`: the
server thread has an object only while it releases it (`ServerIsOrderly`), it
is in the list of the client that deletes it and in no list if a destructor has
taken it out (`ServerHasObject`), a slot in use leads to data of its own caller
(`DataFollowSlots`), and the registry is damaged only by a foreign use
(`RegistryCauses`).  `TableReadsAreSafe`, `CallsReachTheirFunction` and
`CallsReachTheirConnection`, for `UndefinedBehaviourCauses`,
`StrayCallsComeFromReleases` and `ClosedConnectionsAreForgotten`, rest on
`DataInv`.  A thread of QUIK reads slot, owner and data in steps of its own
without a lock, so the invariant follows a function from its creation to the
use of what it led to: the slot of a function leads to what it was made for or
to something later of the same caller, until the object is released
(`FunctionsKeepTheirSlots`); what a call has read keeps that relation, and is
current or replaced (`CallsFollowFunctions`, `CallsUseCurrentData`); what is
freed belongs to a released object, with everything older of that object
(`DroppedHold`); and other data of a method has a client that holds the object
(`DataHaveHolder`).  A null or freed pointer is read, then, only on behalf of a
function of a released object (`TableCauses`).

The order of `objRefs` decides only in which order the destructor releases the
objects, so the list is a bag in the model and the order is left open.

**SessionProofs**: `WireOrderHolds`, `UndefinedBehaviourHasCause`,
`DeadConnectionsForgotten`, `TypeCorrect`, `AnswersInOrder` and
`TidyMessagesAreFound`, for `WireOrder`, `UndefinedBehaviourCauses`,
`DeadConnectionsAreForgotten`, `TypeOK`, `AnswersFollowRequests` and, for tidy
streams, `MessagesAreFound`, whatever the client sends, however the network cuts it
and whenever it breaks.  The assumptions used are those on the kinds of messages
and that a stream is a sequence of texts.  The core of the
inductive invariant is `Coherent(c, s)`, of a connection and what was written to
its socket: an end, or a listing that wrote nothing, leaves a socket that takes
no more, and an unlisted connection wrote nothing but an end.  With it the
version is the first message on the wire, since `connectionEstablished` either
finds an empty wire or cannot write.  The invariant adds that a loop which runs
over a deleted handler was led there by an end or a failed write.

`TypeCorrect` needs to know what `processBuffer` finds, at least that it is a
message and that what is left is no longer than what was there.  `Scan`, the
`Counters` of a text and the `Joined` texts of the pieces are recursive functions,
of which the definition says nothing before one has shown that there is such a
function.  `Iteration` in **FramingProofs** does, by a least counterexample
(`LeastElement`): induction without a theorem that takes an operator.
`IterationStays` then gives the type of the last value.

`TidyMessagesAreFound` says that cutting a stream differently finds the same
messages.  The invariant, `FrameInv`, is that the handler has dealt with some
number p of pieces: what they say has been heard, the buffer holds what has
arrived of the stream behind them (`Buffer`), and when the loop of `readyRead` is
over no message is complete in it (`NothingWhole`).  Characters that arrive keep
it, since they go to the end of the buffer (`BufferGrows`).  A call of
`processBuffer` moves p on, which is `ReadsStream`.  It rests on what
`FramingProofs` shows of a scan that begins where a document begins: inside of
the document it has exactly the counters of the document alone and ends nothing
(`ScanInside`), at its end it is at rest behind it, with the message or with
nothing (`ScanDocument`), and of a document that has not arrived completely it
leaves all (`ScanUnfinished`).  So the scan goes from piece to piece
(`ScanPiece`), over documents that are no messages, until it meets a message or
what has arrived ends (`ScanBuffer`); text without a brace before a document is
what `SkipTrash` takes away (`Trimmed`).

`Tidy` is needed: text between documents that the scan does not skip, because
a document that is thrown away stands before it, is counted together with what
comes next, and a quote or a closing brace in it turns strings inside out.  What
is found then may be nothing, or a text inside of a message that happens to read
like one.  Of such streams `MessagesAreFound` claims less, and that part is
checked by TLC on the streams of the run.

`AnswersFollowRequests` counts: an answer and a message taken of those that get
one (`Answered`) that have the same number, each in its own order, belong
together.  `Follows` makes it inductive:
a handler that has ended has a socket that is not connected, and an unlisted
connection has taken nothing.  Such a message is answered at once, on a
connection that had answered all before, or the socket is not connected any more
and stays so; `OthersFollow` is all the rest.

**NamedCallbacksProofs**: `UndefinedBehaviourHasCause`, `CallbacksInOrder`,
`SubscribersAreTold` and `TypeCorrect`, for `UndefinedBehaviourCauses`,
`CallbacksStayInOrder`, `EachSubscriberIsTold` and `TypeOK`, with any number of
clients, threads, names and calls.  Assumptions: those declared in
`NamedCallbacks` on the names and on the bound.  The first invariant says what
each place in the program knows of the past: a thread without an entry in
`recentStackMap` is in its first call (`StacksOK`), no call has got anywhere
while there is no bridge (`BridgeOK`), and the event loop ends, and server and
bridge go, only when an `OnStop` has returned (`PhasesOK`).

The second, `ToldInv`, is about the clients.  A callback takes a copy of the
list of connections and posts to them one by one, while clients connect,
register and go.  A thread is on the way of the latest call made on it
(`LatestCall`), and a call under way has been sent to a client only if the loop
is past it (`SentByLoop`): so what is posted next is later than all that this
thread has posted to the client before, which is the order, and, since it is
strict, also that nothing is sent twice.  `DueOK` is the other half: a client
that had registered the name when the call was made is still subscribed or gone,
and either among those the loop has yet to serve or has been sent the call; the
names registered are among the active ones (`ConnectionsOK`), so that the early
returns of `TestActive` do not pass it by.  No list has a connection twice
(`ListsOK`), which is why `removeAll` of a connection takes away one entry.

**LuaCallsProofs**: `CallsTypeCorrect` and `StackHoldsFailed`, for `TypeOK` and
`StackHoldsFailedCalls`, and `ValuesConvertedInOrder`, whatever the conversions
make of a value, for every size of the stack and any number of calls.
Assumptions: those of `LuaCalls`, that arguments, results and the conversions
are of the values the calls are about.  The inductive invariant says what lies on
the stack of `main` during a call (`Making`): the objects of the failed calls,
the object of this one if it calls a method, and above them the targets and the
arguments pushed so far, or the results that have not been taken off.
`StackHoldsFailedCalls` is what is left of it between calls.  Its second half,
that only a call too large together with the failed ones overflows, counts the
cells in each step from there.  `Popping` says that the results still on the stack
are the first of those the call had, and that the others have been taken in their
order: so `ValuesConvertedInOrder`, that a function which returns what it was
given answers with every argument converted there and back, none missing and none
displaced, though they are pushed first to last and taken last to first.

### Only model-checked

Liveness is out of the prover's reach and stays with TLC: `CallersAreWoken`,
`EveryCallReturns`, `UpdatesArrive`, `EndCompletes`, `StopEndsMain`.  So does
what the conversions of `LuaValues` make of a value, which are recursive operators
on values of any depth: of `EchoReturns`, the part about single values (a plain
value comes back as it was, a value that has changed once does not change again,
what goes to a client is JSON).  The part about their number and order is
`ValuesConvertedInOrder`.  And of `MessagesAreFound` the part about streams that
are not `Tidy`, as said above.  All other invariants and the two refinements are
proved.

## 5. Not modelled

- **The load queries, configuration, logging, the entry point, the example
  client**: read-only or straight-line code; its effect on the modelled parts is
  an input (which connections exist, which classes are accepted).
- **Functions of QUIK that fail** under `getParamEx2`, `getQuoteLevel2` and
  `getClassesList`: the handlers take the first of an empty list of results.
  `Subscriptions` takes QUIK to answer.
- **Texts**: their characters, the layout of JSON, the wording of errors.  What
  the code page and C strings make of a text is in `LuaValues`; elsewhere, in the
  names of functions and callbacks and in what comes from QUIK, texts are taken
  to be such as both can hold.
- **Other spellings of a class** are in `Subscriptions` (`Canon`) and in its
  proofs, but in no instance: the code accepts a class without regard to case,
  stores it as spelled and looks updates up under QUIK's own spelling, so that
  such a subscription gets the first value at most.
- **Late answers to the uninitialised `id`**: the answer to a call that timed
  out may be taken as the result of the next one on the connection.  This is in
  the model; `StrayAnswersHaveCause` and `RemoteCall` bound it.
- The mutexes of the tree (`mutex`, `pmutex`, `qmutex`) are taken by the server
  thread alone, one level after the other and never across a send, so that they
  order nothing; `SecSubs` takes two of them in both orders, which is harmless
  for the same reason.

## 6. Plan

Done: every component with state of its own, the proofs of section 4.  What
could follow:

1. The streams that are not `Tidy`: which messages are certain to be found
   behind the first document that is thrown away and followed by stray
   characters.
2. Failing functions of QUIK as inputs of `Subscriptions`, and the load queries
   as operators beside it.
3. The conversions of `LuaValues` by induction over the depth of a value, with a
   prover that can instantiate an induction theorem.
