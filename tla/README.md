# FreeRTOS Cellular Interface in TLA+

The library lets application tasks drive a cellular modem with AT commands over
a serial line. Its own logic is about two parties that share one context: tasks
that send a command and wait, and a reader thread that cuts the bytes of the
modem into lines and decides, line by line, whether it is a part of the answer
somebody waits for or something the modem says on its own. The modules here
model that logic, its buffer, its opening and closing, what it knows of the
network, the commands it writes and the answers it reads, its sockets and its
callbacks; TLC checks them on small instances, TLAPS proves most of their safety
for all.

Source files are named relative to `src/source/`.

## 1. The system

| Component | State | Operations | Meets others through |
|---|---|---|---|
| AT request/response protocol (`cellular_pkthandler.c`, `cellular_pktio.c`) | `pktRespCB`, `pPktUsrData`, `pCurrentCmd`, `PktioAtCmdType`, `pRespPrefix`, success tokens, prefix callbacks, `pktRespQueue`, `pAtCmdResp` | five request functions; `_getMsgType`, `_Cellular_ProcessLine`, `_handleMsgType`, `_convertAndQueueRespPacket` | `pktRequestMutex` between tasks, `PktRespMutex` and a queue of depth one between task and reader; response and prefix callbacks |
| Read buffer (`cellular_pktio.c`) | `pktioReadBuf`, `pPktioReadPtr`, `partialDataRcvdLen`, `dataLength`, `pAtCmdResp` | `_Cellular_ReadLine`, `_handleData`, `_handleAllReceived` and what it calls | the interrupt's event; response lines are pointers into the buffer |
| Opening and closing (`cellular_common.c`, `cellular_common_api.c`) | the context, four mutexes, queue, event group, thread, `bLibOpened`, `bLibShutdown`, `bLibClosing` | `Cellular_CommonInit`, `Cellular_CommonCleanup`, `_Cellular_CheckLibraryStatus` | event group with the reader; `libStatusMutex` and `pktRequestMutex` with the tasks |
| Network registration (`cellular_3gpp_urc_handler.c`, `cellular_3gpp_api.c`) | `libAtData` | the +CREG, +CGREG, +CEREG handlers, `Cellular_CommonGetServiceStatus` | `libAtDataMutex`; registration events to the application |
| Socket table (`cellular_common.c`, `cellular_common_api.c`) | `pSocketData[]`, the blocks | create, set options, register callbacks, remove, look up; `libClose` drops all | tasks, and URC handlers of a port |
| URC dispatch (`cellular_pkthandler.c`) | the port's URC table | `_Cellular_AtParseInit`, `_processUrcPacket`, `_atParseGetHandler` | the reader calls the handlers |
| AT core (`cellular_at_core.c`) | none | prefix, token and number functions on strings | called by everything |
| Signal conversions (`cellular_common.c`) | tables | CSQ to RSSI and BER, signal bars | none |
| 3GPP getters and setters (`cellular_3gpp_api.c`) | none of their own | one AT request each or several, and a parser for each answer | the request functions |
| Callback registration (`cellular_common_api.c`) | one callback and context per kind | `Cellular_CommonRegister...Callback` | the reader calls them |

The comm interface, the operating system layer and the modem ports are not in
this repository. They are the environment of every module.

### What is hard about it

* The waiting task and the reader each go on when the other may not: a wait that
  times out returns to its caller while the answer is on its way, and the reader
  takes a line, looks at the context, and uses what it saw later.
* The reader reads several fields of the context without `PktRespMutex`
  (`pRespPrefix`, `PktioAtCmdType`, `pktRespCB`, `pPktUsrData`).
* A response is a list of pointers into the buffer that the next bytes are read
  into, so that the buffer may only be moved or reused at the right moments.
* `Cellular_Cleanup` stops a thread and deletes what tasks wait on.
* Two kinds of registration lines write one packet switched status.
* An answer is text in one of several forms, cut up in place, and some settings
  of the modem (the format of operator names) change what the next one means.
* A creator scans the socket table without the critical section that removal has.
* Callbacks are registered under a mutex and called without it.

### What makes each component correct

* Requests: a task gets the answer of its own command; its callback runs while
  it waits; nothing of a request outlives it; every call returns.
* Buffer: cutting the stream at other bytes changes nothing; no access leaves
  the buffer; a saved line is not changed before it is delivered.
* Opening and closing: whatever fails, all is released; no thread and no call
  uses what has been deleted; both functions return.
* Registration: the application is told every change; a line of one domain
  leaves the other alone; the status asked for is the modem's.
* Getters and setters: what is returned with success is what the modem has, each
  field from its own answer; what a setter asks for is what the modem is set to.
* Sockets: a socket is one task's and in its own slot, keeps what it is set to,
  and none is lost or refused without need.
* Dispatch: a line reaches the handler of its prefix, or the generic callback
  unaltered; a callback is called with its own context.

The complete list of hazards, each at its line and with the properties aimed at
it, is `hazards` in `PROJECT.json`.

## 2. The modules

| Module | What it is |
|---|---|
| `PktRequest` | the request/response protocol |
| `AtExchange` | what that protocol promises: an abstract mailbox; `PktRequest` implements it |
| `PktRequestProofs`, `AtExchangeProofs` | theorems about them, the refinement among them |
| `PktioStream` | the read buffer, byte by byte |
| `LibLifecycle` | opening and closing, with reader and calls |
| `NetworkReg` | registration lines, events, service status |
| `AtCore` | the string functions, as operators on sequences of characters |
| `ModemAnswers` | the response callbacks and the commands of the setters, on top of `AtCore` |
| `ModemQueries` | the getters and setters of two tasks, against a modem that answers in characters |
| `SocketTable` | the table of sockets, with options and callbacks |
| `UrcDispatch` | the URC table, its search, and the callbacks of the application |
| `SignalBars` | conversions of signal values, and the bars |
| `PktioStreamProofs`, `LibLifecycleProofs`, `NetworkRegProofs`, `ModemQueriesProofs` | theorems about the module of that name |
| `CommonStateProofs` | theorems about `SocketTable`, `UrcDispatch` and `SignalBars` |
| `Recursions` | lemmas on recursive functions and flattened sequences that four of them use |
| `MC...` | instances for TLC: requests, scripts, modems, tables, symmetry |

Each module header says what it abstracts from, and each action names the
function or the section of one that it stands for; `map` in `PROJECT.json` gives
the lines. Operators whose comment begins with *Mutant* are faulty variants of
the operator that follows them; the specifications do not use them, they are
there to see that the properties notice.

**PktRequest.** A section under `PktRespMutex` is one step, and every read made
without it is a step of its own; that is where the interleavings are. `ctx` has
the context fields under their C names. A task's `pc` follows
`_Cellular_AtcmdRequestTimeoutWithCallbackRaw` and its four relatives; `rd.pc`
follows one line through `_preprocessLine`, `_handleMsgType` and
`_convertAndQueueRespPacket`. Pointers into the frame of a waiting task
(callback, user data, command, prefix context) are the number of the exchange
that lent them, so a stale one can be told from a live one. `served` and the `x`
of a line are history: which exchange an answer belongs to. The modem executes
commands one at a time, and may drop one, break off, or send URCs.

**AtExchange** keeps of all this a counter of exchanges, whether one is in
progress, the mailbox and the last status served. The mapping is the `INSTANCE`
at the end of `PktRequest`. It does *not* promise a task its own answer, because
the code does not.

**PktioStream.** A byte is the message it belongs to and its place there. Reads
return any number of the bytes that have arrived. What a line means to the
protocol is left to `PktRequest`: here its type is a property of the script.

**LibLifecycle.** The context is one entry of a static table, so a second life
uses the memory of the first, and a reader thread of the first may still run.
Every creation that may fail does. The last steps of the reader, after it has
announced its end, are steps of their own, and come whenever the thread is
scheduled: it is created with the default priority, and a caller may have any.
The end `late` of a reader is history: its last call of the shutdown callback
came in a life that was not its own.

**NetworkReg.** One line is handled in one step, under `libAtDataMutex`; the
steps of `Cellular_CommonGetServiceStatus` are its queries, the read of
`psRegStatus` between them and the read of the result.

**AtCore, ModemAnswers.** A line is a sequence of characters and a function of the
code is an operator on it, with the refusals of the code (`MaxString` is
`CELLULAR_AT_MAX_STRING_SIZE`). Nothing is shortened: the modem's answers are
taken apart symbol by symbol, which is where the code can go wrong. `strtok_r` and
`bsearch` are modelled as the GNU C library has them.

**ModemQueries.** A call of the interface is the sequence of its commands, each an
exchange in one step (what happens inside an exchange is `PktRequest`), with the
other task's commands in between. The modem is a record of what it has and is set
to; it writes an answer in any form it may, or refuses, and reads a setter's
command the way 3GPP TS 27.007 has it. `told` is history: the answers a call got.

**SocketTable.** A creation is four steps (test a slot, fill a block, store it,
return), because the code has no critical section there; a removal is one. A
registration is two assignments. `static` and `careful` are chosen at the start:
blocks from the static table or from the heap, and whether the application lets
one task at a time create sockets and registers callbacks before it connects.

**UrcDispatch.** The line is looked up as the code does, in any table, and then a
callback is tested and called in two steps, while tasks register others under
`PktRespMutex`, in two assignments. The five events and the port's callbacks have
the same code; two kinds stand for them.

**SignalBars.** The conversions are functions of one value; the state is the
sequence of calls a port makes to fill in `CellularSignalInfo_t`.

`MCCommonState` runs the last three side by side: they share no state, so that in a
behaviour one moves and the others stand still. `MCPktio` does so with `PktioStream`
and `LibLifecycle`, the buffer and the life of one thread, and `MCQueries` with
`ModemQueries` and `NetworkReg`, what is asked of the modem and what it tells unasked.

## 3. What is checked

| Run | Result | Shows |
|---|---|---|
| `PktRequestInTime` | pass, 0.5M states | with answers in time, own answer, own callback, pure response |
| `PktRequestEarly` | pass, 0.9M | with timeouts at any moment: nothing left over, and `AtExchange` is implemented |
| `PktRequestLive` | pass, 47k | every call returns |
| `PktRequestStale` | `OwnAnswer` violated | a late answer is served to the next request |
| `PktRequestCallback` | `CallbackHasItsCaller` violated | a late answer runs a callback that is NULL, or whose caller has gone |
| `Pktio` | pass, 51k | lines, data and blobs are handed over whole, in order and unaltered, all of them if everything fits; what is given up when it does not fit, or when a callback fails, is given up without leaving the buffer or repeating. All is released, a reader has its context up to `ABORTED`, an open library has what it needs, the queue outlives its users, opening and closing return |
| `PktioStreamStall` | `NothingStranded` violated | the reader sleeps on bytes that have arrived |
| `LibLifecycleFlag` | `UpNotShutDown` violated | the reader of one life marks the library of the next as shut down |
| `Queries` | pass, 0.7M | every getter tells what the modem has and success means that all was answered; every setter is heard; the operator's code is right though another task changes the format of names. Events tell all, domains stay apart, a quiet status query is right |
| `ReadyTimer` | `ReadyTimerAsDocumented` violated | the GPRS ready timer has the units of another timer |
| `SimLock` | `LockIsTold` violated | a card that waits for its PIN is reported with an unknown lock |
| `CommonState` | pass, 1.1M | sockets are apart, keep their settings and are not lost; lines reach their handler; callbacks have their context; bars follow the signal |

The violations are described in `findings`, each with the line of the
repository it disagrees with. What a violation run shows is excepted from the
property of the passing run beside it, and from nothing else: `ReaderHasItsContext`
is about a reader before `ABORTED`; `UpMeansUsable` lets the library say that it
was shut down only after a late reader of an earlier life; `TruthTold` compares all of
a time but its year, and `PsmRight` all of the timers but the ready timer's unit.
The year has no run: +CCLK has its last two digits, `cellular_3gpp_api.c:299` stores
them as they are, and `cellular_types.h:424` documents the field as "Year (like 2019)".
Nor has what a reader does after `ABORTED` in a context that is being freed: it still
reads `pPktioShutdownCB` and calls it (`cellular_pktio.c:1255`), while the comment of
`_Cellular_PktioShutdown` has the thread shut down (`cellular_pktio_internal.h:99`);
`LibLifecycleFlag` shows where that leads when the memory is used again.

### Bounds, and why they are enough

* *PktRequest*: 2 tasks and 2 calls (`MaxCalls`): one request to leave something
  behind and one to trip over it, by the same or by another task. `MaxLines` 2,
  because what is special about an answer is its first line, one line too many
  and the result code. `MaxRx` 2 lines on the way (1 with early timeouts, where
  the reader's own steps already delay an answer). `MaxUrcs` 2. The requests in
  `MCPktRequest` are one of each API and of each kind of answer, with the NULL
  command, the missing prefix and the missing data.
* *PktRequestInTime* lets a wait expire only when nothing is in flight
  (`EarlyTimeout = FALSE`), has no answer broken off and URCs of another prefix
  than the command's: those are the conditions under which the protocol works.
  `PktRequestEarly` lifts them.
* *PktioStream*: buffers of 8 and 12 bytes and lines of 1 to 3 (6 in one
  script), so that every script goes round the buffer or ends exactly at its
  end, with every cut of the stream into reads.
* *LibLifecycle*: 2 lives, since the second is what the first can spoil, and 2
  tasks, one holding the request mutex and one waiting for it. The run about the
  flag needs two lives and a task that would be refused.
* *ModemQueries*: 2 calls: one task asks for everything, in turn, and the other
  disturbs it with the calls that change a setting or the meaning of an answer. A
  modem is ordinary but in one respect (a name, a card, a clock, a time zone of
  either sign, a timer of every unit, a technology, not registered), so that each
  form of each answer occurs, but not all products of them: the answers are parsed
  independently of each other.
* *CommonState*, sockets: 2 tasks, a table of 2, 2 blocks on the heap and 3
  creations, so that the table is full, a slot and a block are used again and a
  scan is overtaken by a removal. Of the options one that is frozen by connecting
  and one that is not: the local port is like the PDN, the receive timeout like
  the send timeout. The dispatch: every table of up to 3 prefixes of up to 2 of 2
  letters, in any order, which has prefixes of each other on both sides of the
  middle, with one line in each of its forms; and a table of two with 2 lines and
  2 registrations of 2 tasks. The signal values are both ends of each range and
  both sides of each threshold.
* *NetworkReg*: 1 access technology and 1 cause, told apart from none; 3 changes
  of the network, which is a change of each domain and one more; 1 query.

In `LibLifecycle` there is no deadlock to check: a call that is past the status
check when the mutexes are destroyed would lock one that is not there, which has
no outcome to model, and stops; `StandStill` of `MCPktio` lets it. In the other
modules a last action (`Done`, `Quiet`, `Still`, `Over`) says where the system may
rest, and TLC checks that it rests nowhere else.

### Fairness

* `PktRequest`: weak fairness of each task's steps, since FreeRTOS schedules
  ready tasks and the timer of a queue wait expires; strong fairness of taking
  `pktRequestMutex`, since waiters of a FreeRTOS mutex are served in turn and it
  is released again and again; weak fairness of the reader. Nothing is assumed
  of the modem, so that the property is also about a modem that is silent.
* `PktioStream`: as long as bytes are on the way or the reader can go on, one of the
  two does. That is less than fairness of each, and enough: the bytes are finite.
* `LibLifecycle`: every thread is scheduled; the opening task goes on once it has
  called, but nobody has to call or close.

### Conditions the passing runs depend on

Each of these is a constant or a set in a configuration; the other value gives a
counterexample.

* `PktRequestInTime` with `BreakOff = TRUE`: the lines of an answer the modem
  broke off stay in `pAtCmdResp` and are given to the next request's callback
  (`cellular_pktio.c:734`); `ResponseIsPure` fails.
* `PktRequestEarly` with `ShortSend = TRUE`: when the comm interface sends less than
  the data or the end pattern, `_Cellular_DataSendWithTimeoutDelayRaw` returns
  without setting `PktioAtCmdType` back (`cellular_pkthandler.c:296`), and lines
  are taken for a response nobody waits for; `CommandTypeMeansWaiting` fails. The
  next request sets the type anew, so that `RequestReturns`, which is checked with
  short sends, still holds.
* `ResponseIntact` and the second part of `HandledInOrder` are about an `Undisturbed`
  reader: every response fits the buffer with the unsolicited lines before its end
  (`ResponsesFit`), the input buffer callback does not fail (a failing one wipes the
  buffer under a response that is kept, `cellular_pktio.c:888`), and no line has come
  that nobody expects. Such a line wipes what was received with it
  (`cellular_pktio.c:805`), so that the reader continues in the middle of a message;
  with that condition dropped and an undefined line inside a response,
  `ResponseIntact` fails. `AllHandled` has conditions of its own. `TypeOK` and the
  order of what is handled are checked in all plans.
* `CommonState` with `careful` dropped from a property: two creators at a time can
  both find the same slot free (`cellular_common.c:534`). With static blocks two
  tasks then have the same socket, from the heap one of the blocks is lost;
  `HandlesApart` and `NoBlockLost` fail, `SlotKnowsItself` holds all the same.
* `CommonState` with `alone` dropped from `OwnContext`: a callback that is removed
  between its test and its call is called as NULL (`cellular_common.c:838`).
* `CommonState` closes the sockets that are left only while no task is in a call on
  one, and no task closes a socket twice: the code frees the block in either case,
  and what a freed block is used for is not modelled.
* `Queries` with two tasks in `Askers` and two queries: one caller's +CGREG answer
  overwrites `psRegStatus` between the other's +CEREG answer and its read;
  `QuietQueryIsRight` fails.

Further behaviour of the code that the models contain and that no property
speaks about:

* a data prefix callback is copied under `PktRespMutex` and called without it,
  perhaps after its request has unregistered it (`cellular_pktio.c:1000`);
* when the buffer overflows, `pAtCmdResp` and `dataLength` are kept although the
  bytes they depend on are given up (`cellular_pktio.c:657`);
* `_Cellular_CheckLibraryStatus` looks at `bLibOpened` and at the other two flags
  in two sections; a cleanup that ends in between lets the call through
  (`cellular_common.c:442`);
* after a +CGREG line without registration `psRegStatus` says not registered
  although the modem may be registered with EPS, until the next +CEREG line, and
  `rat` is cleaned by a line of either domain (`cellular_3gpp_urc_handler.c:156`,
  `cellular_3gpp_api.c:2139`);
* `Cellular_CommonGetServiceStatus` discards the results of the registration query
  and of the operator query (`cellular_3gpp_api.c:1858`): after a failed one it
  returns `CELLULAR_SUCCESS` with the structure as the caller left it;
* `Cellular_CommonGetRegisteredNetwork` compares `rat` with
  `CELLULAR_RAT_INVALID`, which an answer without an operator leaves at 0: it
  returns success and an empty code for a modem that is not registered
  (`cellular_3gpp_api.c:1818`);
* of +CPSMS the outcome of the last token decides: values that failed before it
  are kept as 0 with success, and an answer that ends in an empty value fails
  although all before it was read (`cellular_3gpp_api.c:2988`);
* the list of four eDRX settings is filled without a look at its end
  (`cellular_3gpp_api.c:1395`);
* `libOpen` discards the result of `_Cellular_AtParseInit`
  (`cellular_common.c:187`): with a table that is out of order the library opens,
  and lines whose prefix is in the table go to the generic callback;
* a line that begins with `+:` passes for one with a prefix; the `:` is skipped, and
  for the generic callback a `:` is written over the last character of a line that
  has no other (`cellular_pkthandler.c:185`);
* an unknown signal, 99 of +CSQ, becomes the invalid value -32768, which as a power
  is below the first threshold: one bar (`cellular_common.c:308`);
* a PDN set as a socket option is not compared with the range that the creation of
  a socket enforces (`cellular_common_api.c:106`);
* a registration line with an empty field is parsed up to it, so that a reject
  cause after it is not stored (`cellular_3gpp_urc_handler.c:810`).

## 4. What is proved

All theorems are about the specification with any sets of tasks, requests,
prefixes, tables, scripts and lines and any bounds. They rest on the assumptions of
the modules (`ConstantsAssumption`, `StreamAssumption`, `LifecycleAssumption`,
`RegAssumption`, `SocketAssumption`, `DispatchAssumption`, `SignalAssumption`,
`TextAssumption`, `SizeAssumption`, `QueryAssumption`: types of the constants, NULL is none of the tasks, the heap has at
least a block for each slot, only a line of its type has raw data after it, one binary
message at a time, characters are ordered and none is there twice) and on nothing
else unless it is said. Most invariants speak of moments and are not inductive; for
each the strengthening and what it adds is named. TLC has checked each of those too,
on the instance of the component's run, before it was proved.

*Requests.*

* `TypeCorrect`: `Spec => []TypeOK`, with the response queue at depth one.
* `LeftoversCleared`: `Spec => []NoLeftovers`. When nobody holds
  `pktRequestMutex` no callback, command, token or prefix callback is left,
  whichever of the request functions ran, and on whichever path it ended.
* `ArmedMeansWaiting`: if the comm interface does not send short,
  `Spec => []CommandTypeMeansWaiting`. The assumption is needed.
* `OrderAlways` and `KeepsItsPromise`: `Spec => ImplementsExchange`. The mailbox of
  `AtExchange` is implemented whatever the modem, the timers and the comm
  interface do.
* `AnswersInOrder` (`AtExchange`): statuses are served in the order of the
  exchanges they belong to, never before the exchange has begun.
* `AnswersAreOwn`, `CallbackIsLent`, `ResponsesArePure`: under `InTime`, a task takes
  the status of its own command, a callback runs while its task waits, and a
  response has lines of its own command only. `InTime` is `EarlyTimeout`,
  `BreakOff` and `Noise` all `FALSE`, and no command with the prefix of an
  unsolicited line: the conditions of `PktRequestInTime`, with short sends.

`NoLeftovers` speaks only of moments when the mutex is free. The invariant `IInv`
that carries it says what is true while a request runs: `MutexInv`, a task is
between lock and release exactly if it holds the mutex, so at most one is;
`CommandInv`, callback and command are set only between filling in and finishing;
`RegisteredInv`, tokens and prefix callbacks are set only between register and
unregister, and only those of the running request function; `ArmedInv`, for a comm
interface that does not send short the command type is set only between setting it
and finishing. `MutexInv` is proved first, since it makes the other tasks irrelevant
to each step. The reader's steps matter to one conjunct only: they may reset the
type, never set it. For `AtExchange` the invariant is `ExInv`: what is in the
mailbox is no older than what was served last.

For the refinement a step of a request that takes an answer has to serve one that
is no older than the last and no newer than the exchange. `OrderInv` says why: what
was served last, what is in the queue, the line the reader has, the lines not yet
read, the command the modem works on and those it has not read stand in the order of
their exchanges. The lemmas on ascending sequences say that this order survives
taking from one end, adding to the other and raising a bound; every step of the
specification then maps to a step of `AtExchange` or to none.

With answers in time the invariant is `TInv`. `TellInv` says of the reader what it
may do next with the line it has, from the place it has reached and what it read
before; `CallInv` what a task between sending and returning has in the context;
`FlowInv` that whatever is between the tasks and the response queue (command sent,
command worked on, lines not read, lines collected, the line in the reader) belongs
to the exchange of a task that waits, at every place in the order in which it can
be, and that the queue is then empty or holds that exchange's status.

*Read buffer.*

* `NothingLeavesTheBuffer`: `Spec => []TypeOK`. No read, terminator, line or block of
  data is outside `pktioReadBuf`.
* `MessagesInOrder`: `Spec => []HandledInOrder`. What is handled is a message of the
  modem, whole, once and in order; an undisturbed reader leaves none out.
* `ResponsesStayIntact`: `Spec => []ResponseIntact`. When a response is delivered its
  lines and blocks are where the packet points to, byte by byte as the modem sent
  them since the last final result code.

They hold for any script, any size of the buffer and every cut of the stream into
reads. `SInv` has four parts. `Typed`: pointers and lengths, above all that the bytes
ahead (received, not yet handled) end within the buffer. `Window`: these are the last
bytes received, unaltered. `Passed`: they come after all messages handled. So a line
found there is a message of the script or a part of one, and never one that has been
handled. `Synchronous`, for an undisturbed reader: it stands at the end of a message
or at its data, reads on only inside a message, and since the last final result code
`f` all lines and blocks are saved, before the bytes ahead, with all bytes since `f`
in the buffer. The last clause is what bounds the buffer: a response that fits
leaves room for its next byte (`RoomLeft`), so that `ReadOverflow` and the dead end of
`NothingStranded` are not met inside a response. The stream is a flattened sequence,
so that where a message begins is a sum; `Recursions` has the lemmas on it.

*Opening and closing.*

* `LifecycleTypes`, `NothingLeft` and `QueueOutlivesItsUsers`: `LifeTypeOK`, `AllReleased` and
  `QueueInUse`.
* `ReaderKeepsItsContext` and `UpIsUsable`: `ReaderHasItsContext` and `UpMeansUsable`.

None of them assumes anything of the priorities of the threads. What a reader does
after `ABORTED` is excepted in the statements themselves, since there the code keeps no
promise: `LibLifecycleFlag` shows what comes of it.

`IInv` says where the owner of the library and each reader can be at the same time:
`Nobody`, no reader is before `ABORTED` while the owner is at a place without one;
`Resources`, what exists at each place of `Cellular_CommonInit` and
`Cellular_CommonCleanup`, in the order of creation; `Starting`, `Running` and
`Stopping`, the handshake of owner and reader through the event group, bit by bit;
`Flags`, the three flags that calls look at; `Requests`, who has the request mutex
and whether somebody can still answer. For `UpIsUsable` `ShutInv` adds who may have
written `bLibShutdown`: readers of later lives have not begun (`ToCome`), the reader
of this life is running, and if the flag is set one of an earlier life is late (`Late`).

*Registration.*

* `RegistrationTypes` and `EventsTell`: `TypeOK` and `EventsTellAll`.
* `DomainsStayApart`: `Spec => DomainsApart`, an action property.
* `QuietQuery`: `QuietQueryIsRight` if one task asks (`OneTask`); with two it is false.

An answer is a list of lines of any length that the code goes through; what holds of
one line (`EventsTellAll` stays, the other domain stays) is carried over the list by
induction, stated with the least number principle. `OneQuery` and `OneEnd` say that
lines, saved lines and the end of an answer belong to the one query under way;
`QInv` says for a quiet caller what it has of its answer so far (`AnswerOf`) and
which of the data is right already (`RightSoFar`), which after +CGREG is the packet
switched status of one technology only.

*Sockets.* `SocketTypes`, `SlotsKnowThemselves`, `HandlesStayApart`, `SettingsKept`,
`NoBlockIsLost`, `OnlyFullRefuses`, `CallbacksHaveContext`: all seven invariants of
`SocketTable`, for any number of tasks, slots and blocks. They are conjuncts of one
invariant or follow from it. `HandlesApart` is not inductive by itself: a creator
stores its block many steps after it found its slot free, so that the invariant has
to say what it still knows then. `Placed`: with static blocks a slot holds its own
block, from the heap a block is in one slot or about to be stored by one creator.
`SetUp`: a block about to be stored is set up for its slot. `Creator`: the slot of
the one creator is still free, its block is no handle of anybody, and as long as a
scan goes on in a table that was not full a free slot is still before it, since
slots only become free meanwhile. `Owned` and `Registering`: handles have a slot,
and a callback is without its context only while its socket's owner is registering
it. `Kept` is `NoBlockLost`, block by block. Each has a lemma with a step for every
action.

*Dispatch.* `DispatchTypes`, with `PktRespMutex` held by whoever sets a callback, and
`CallbacksOwnContext`. The invariant adds to them `Paired`, a callback has its own
context unless the holder of the mutex is between the two assignments, and
`Steady`, what the reader found is still there while nobody registers that kind.

`LinesReachTheirHandler`: `DispatchSpec => []RightHandler`, for tables of any length over
any alphabet and lines of any length. `SearchCompare` is `strncmp` over the shorter name,
with the longer one after its own beginnings; what it makes of two names is stated as
`Before`, the first character in which they differ, and that order never compares a
name as equal to another (`CodesDiffer`, `Compared`) and is transitive (`BeforeGoesOn`).
So a table whose neighbours are in order, which is all that `_Cellular_AtParseInit` looks at,
is in order as a whole (`TableOrdered`). The search is a recursive function on intervals;
`SearchFinds` is by induction on their length: what it returns has the name looked for,
in any table, and in an ordered one the half it gives up does not have the name. That
the token is the name and the rest of the line what follows the `:` is `TokenIsName`.

*Signal values.* `SignalTypes` (`SignalTypeOK`) and `StrongerShowsMore`
(`BarsFollowSignal`), for any values of +CSQ and of the powers. The first needs the powers to
be at most 0, which an RSRP in dBm is: above the last threshold, which is 0,
`_getSignalBars` finds nothing and the bars stay invalid.

*Getters and setters.* `NothingIsMissed`: `QuerySpec => []NothingMissed`, for any modem,
whatever it answers, and any calls of any number of tasks. The invariant `CallsInv` says of
a call under way (`UnderWay`) that for some `n` its first `n` commands have been answered,
and no others, and that the rest are those it still has to send; a success other than that
of `Cellular_CommonGetServiceStatus`, which discards results, is then one of the last command.
`CallsAre` goes through the calls of the interface once: each is refused or has a
nonempty sequence of commands. What the parsers make of an answer does not matter to it.

`AnswersAreGiven` (`[]AnswersInv`) is what the other theorems rest on: the structure of a call
is the outcome of its receive functions, one after the other, each on an answer that the
modem, as it was when it was asked (`told`), may give to that command; and the modem is
always one of `IsModem`, whatever setters and raw commands it has obeyed. From it:

* `TruthIsTold`: `QuerySpec => []TruthTold`. A getter that succeeds gives what the modem
  answered: names, IMEI, IMSI, ICCID, home PLMN, time (but the year), address and eDRX list, for every
  value, every form the answer may have, and whatever other tasks ask meanwhile.
* `PlmnIsRight`: `QuerySpec => []PlmnRight`, if `MaxString >= 17` (the program's is 256):
  a line with a numeric PLMN has up to 17 symbols, and a longer one than `MaxString` is
  refused, which leaves the PLMN empty.
* `SettersAreHeard`: `QuerySpec => []SettersHeard`, for every value of the fields: the bits
  of a timer written by `PRINTF_BINARY_PATTERN` are read back as its byte, a timer of 0
  leaves its parameter empty, and no value moves to another parameter.
* `PsmIsRight`: `QuerySpec => []PsmRight`. The 256 values of each timer are reduced to five
  bits and three; of the ready timer, whose unit is not the documented one, the property has only
  that it is 0 when left out; a timer that is left out moves no other, though the parser goes by the number
  of the token.

What the parsers read is proved for texts of any length over any symbols. The operators
of `AtCore` that run over a text are recursive functions; each has a lemma that names the
function (`WithoutIs`, `TokensAre`, `PsmTokensAre`, `EdrxTokensAre`, `EdrxLinesAre`, `ValueNext`),
proved with `Recursions`' `UpTo`: two functions that follow the same recursion agree up to
any number, by the least one at which they would not. On these rest the lemmas the proofs
go by: a symbol is where a text without it ends (`FirstAt`, `CutAt`), the first token and the
rest (`FirstToken`, `LastToken`), what is left without quotes or spaces (`WithoutLacks`,
`WithoutCat`), the prefix of a line (`PlusIs`), a numeral and its value (`NumeralIs`,
`StrtoiNumeral`, `DecDigitsAre`, `BitsText`), the sign of a time zone past the other fields
of a time (`Later`, `EarlierField`). The symbols a parser distinguishes are added to
`STRING` as a set of their own (`Literals`): the provers do not know that a literal is a
string.

The hypotheses are in `QueryAssumption`, which a modem and an application have to meet: a
name has two symbols at least and no space at its ends (`Cellular_ATRemoveTrailingWhiteSpaces`
leaves a text of two symbols alone, so that a name of one symbol would keep the space after
it); the IMEI and the quoted address fit their fields; a PLMN, a time and timers have the
ranges of 3GPP TS 27.007; an application's own command changes the format of names only,
and not what a setter of the interface sets; the ids of PDN contexts have two digits at most.
Without the ranges the properties are false: a field that is too long is cut by the code.

The attempt to prove `AnswersAreGiven` found that the cases of `Receive` overlapped: for an
empty answer more than one receive function was named, and the value was not determined.
They are now in the order in which the code tests them. The results of TLC are the same.

Only model-checked:

* all liveness (`RequestReturns`, `AllHandled`, `InitReturns`, `CleanupReturns` and the like), since
  fairness and `ENABLED` are out of the prover's reach. Every safety invariant and every action
  property of a passing run is a theorem.

## 5. What is not modelled

* The comm interface, the operating system layer and the modem ports: not in this
  repository. A port's handlers, its `Cellular_SocketConnect` and its callbacks are
  modelled as far as the code here calls them or is called by them.
* `lac`, `tac`, `cellId`, `rac`: stored and copied, never decided on.
* Parameters that are NULL, except where a caller's value decides: each function
  refuses them at its head.
* Formats of text that no 3GPP modem writes, beyond the refusals that the parsers
  make of missing tokens, and strings longer than the buffers.
* The insertion a data send prefix callback may make into the buffer; ports use
  it for prompts.
* Use of a destroyed mutex or of freed memory beyond the step that reaches it.

## 6. Plan

1. Proofs: the functions of `AtCore` no getter uses (`ATHexStrToHex`, `ATcheckErrorCode`),
   from the lemmas that `ModemQueriesProofs` has.
2. The sockets composed with the reader: the port's events that look a socket up
   by its index while a task closes it.
3. Liveness of a request composed with a library that is being closed.
