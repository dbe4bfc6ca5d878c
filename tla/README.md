# IoT Socket in TLA+

A verification development kept beside the IoT Socket sources: TLA+ modules
that model the parts of the pack with state and concurrency, TLC runs over
small instances, and TLAPS proofs for every value of the constants.

## 1. The system

IoT Socket is a small BSD-like socket API (`include/iot_socket.h`) with one
implementation file per network stack. An application links one of them.

| part | state | operations | interacts with |
|---|---|---|---|
| VSocket, `source/vsocket` | `sock_attr[64]`: mode and receive timeout | the whole API; blocking calls are simulated by polling every 10 ms | host of the simulator through memory-mapped registers; all threads of the application share the table |
| lwIP, `source/lwip` | `sock_attr`: mode, bound, timeout | the whole API over blocking BSD calls, `select` for length 0 | lwIP; its errors through `errno` |
| MDK Network, `source/mdk_network` | `sock_attr`: mode, timeout | the same over the MDK BSD layer; Accept copies attributes | MDK-Middleware |
| FreeRTOS+TCP, `source/freertos_plus_tcp` | none: a socket is the address of the stack's socket, its options are the stack's block times | the whole API; FIONBIO is two calls of the stack, every other operation one | FreeRTOS+TCP |
| Wi-Fi, `source/wifi` | none | each function is one call of the CMSIS Wi-Fi driver | driver |
| multiplexer, `source/mux` | `SocketApi`, the registered table of functions | `iotSocketRegisterApi`, one delegating function per operation | any other implementation |
| Ethernet interface, `layer/FreeRTOS_Plus_TCP/NetworkInterface.c` | `ETH_tid`, the thread flag, buffers in flight | interrupt callback, receive thread, initialise, output | MAC and PHY driver, buffer pool, event queue and IP task of FreeRTOS+TCP |
| startup, `layer/*/socket_startup.c` | `NetUp` (FreeRTOS+TCP) | bring the network up, wait for it | event callback of the stack |

No file takes a lock. What makes the code hard is therefore

* threads that share `sock_attr`: it is read and written field by field, the
  fields are bit fields of one word, and a call reads it before and after it
  waits in the stack;
* socket numbers that are used again: the stack releases a number before the
  file clears its attributes;
* blocking calls that are simulated (VSocket) or that must wait as long as the
  stack itself would (lwIP, MDK Network): the same timeout exists twice;
* the hand-over between interrupt, receive thread, event queue and IP task,
  with limited queues and an owner for each network buffer.

What makes each part correct:

* VSocket: nothing the host hands over is lost between two polls; a limited
  wait takes as long as asked; a blocking connect ends with one decided answer;
  options last until they are changed; waiting calls end.
* lwIP, MDK Network: the table agrees with the stack; a limited wait is never
  an unlimited one; the flag `bound` tells what the stack cannot.
* Ethernet interface: a buffer has one owner, frames are given to the stack
  once and in order, a frame in the MAC is not forgotten.
* multiplexer: a call is served by one API that was registered at a moment of
  it, and a socket by the API that created it.
* FreeRTOS+TCP: no socket is lost between the stack and the application, and
  what was asked of a socket decides whether its calls may wait: a non-blocking
  socket waits nowhere, and one without a timeout does not give up.
* startup: it returns, waits as long as announced, and lets the application use
  the API only with a network that has been up.

`PROJECT.json` lists every part with its status, and every hazard at its line.

## 2. The modules

| module | models |
|---|---|
| `IotSocketCodes` | the return codes of `iot_socket.h` |
| `VSocketHost` | external: the simulator's host, one operator `HostX` per call, giving the set of outcomes |
| `VSocket` | `source/vsocket/iot_socket.c` |
| `BsdStack` | external: lwIP and MDK-Middleware as blocking BSD sockets and `select` |
| `ApiCalls` | the threads of the application: where each call is, which sockets are held, which calls overlap |
| `LwipSocket`, `MdkSocket` | `source/lwip/iot_socket.c`, `source/mdk_network/iot_socket.c` |
| `Mux` | `source/mux/iot_socket.c` with the registered APIs |
| `ApiSwitch` | abstract specification: one API is registered at a time and serves whole calls |
| `FreeRtosStack` | external: the sockets of FreeRTOS+TCP, one operator `StackX` per call |
| `FreeRtosSocket` | `source/freertos_plus_tcp/iot_socket.c` |
| `NetStartup` | `layer/FreeRTOS_Plus_TCP/socket_startup.c` with the network event hook |
| `FreeRtosLayer` | the composition of the last two: start-up, then calls |
| `FrameChannel` | abstract specification: a channel that may lose frames and keeps their order |
| `EthInterface` | `layer/FreeRTOS_Plus_TCP/NetworkInterface.c` with driver, pool, queue and IP task |
| `ApiProofs` | lemmas: what each call of `BsdStack` and `ApiCalls` keeps and changes |
| `VSocketProofs`, `MdkProofs`, `LwipProofs`, `EthInterfaceProofs`, `MuxProofs`, `FreeRtosProofs` (start-up), `FreeRtosSocketProofs` | theorems |
| `MC...` | instances for TLC (the symmetry of the threads) |

Definitions with the comment `mutant` (`ChangedWide`, `CheckMsecDropped`, ...) are
altered copies of the definition that follows them. They are used by no specification: replacing the definition by one of
them must violate the property named in `PROJECT.json`, which shows that the
property can fail.

### VSocket

One entry of the variable `attr` is one entry of `sock_attr`. `pc`, `req`, `io`,
`delay` and `word` are a call's place, arguments, `io.ret_val`, the variable
`delay` and the word it is about to store. The rest is history, which no action
reads on behalf of the code. `held` is the sockets of the application and says which
numbers a disciplined application passes. `tainted` is the sockets handed out
while a `Close` of the same number had still to clear the table, and the ones
accepted from such a socket; `Sound` is the others. `opt` is the options
each socket should have, `ask` those the call in progress is to store: they are
the values given, not those that fit in the table, so that an option cut by its
bit field, or by anything else on its way, is an option lost. `hist` is what a
receive waited and what the host handed over.

`Apart` is the discipline of the application: a set of pairs of operations of
which the second is never called on a socket while the first is in progress on
it. A `Close` in progress does not count, since the number is no longer held.
Calls on different sockets always overlap.

A call starts with the action of its name (`Create` ... `GetHostByName`), which
is the code up to the first host call or the first read of `sock_attr`. The
steps that follow are the host call of a polling loop (`AcceptHost`,
`ConnectHost`, `RecvHost`, `GetHostByNameHost`), the end of its `osDelay(10)`
(`Wake`, `WakeRecv`), the read of the timeout (`RecvTimeo`), the load and the
store of each field (`LoadMode`, `StoreMode`, `LoadTimeo`, `StoreTimeo`),
the `memset` of Close (`ClearAttr`), and `Return`. A host call is atomic: it is
one read of the simulator's mailbox. `io.ret_val` is `Uninit` until something is
stored in it. Timeouts are numbers of milliseconds; `delay` and the count of
`osDelay` are computed as in the code.

### lwIP and MDK Network

The variable `stack` is what lwIP or MDK-Middleware keeps of each socket: its
state, its queues, whether it has a local address, its mode and its timeout.
`StackX(s)` is the set of outcomes of call X; it is empty while the call has to
wait. `OwnWait(s)` is how long the stack itself would wait. `attr` is
`sock_attr`; `AttrWait(s)` is what it asks of `select`. A call of the stack is a
step; `SetOpt` is one step in the stack and then a `Load` and a `Store` for each
field, `socket_check_read` reads the mode in the first step, `tv_sec` and
`tv_msec` in two more (`CheckSec`, `CheckMsec`) and then waits (`Select`).
`errno` is taken to be local to the thread.

`ApiCalls` describes the application: it passes sockets it holds, or the
numbers `Strays`, and overlaps the operations in `Alone` with no other call on
the same socket. A socket that the stack hands out while a `Close` of the same
number has still to clear the table is `tainted` until it is created anew; the
properties speak of the others (`Sound`). What such a race does is shown for
VSocket by the run `vsocket_race`.

### Multiplexer

An operation tests `SocketApi` (`Begin`, with `Test`) and then reads it for the
call (`Dispatch`). The pointer is neither volatile nor atomic, so that a build
loads it once or twice; `req.twice` says which. The called API then ends the
operation (`ApiCreates`, `ApiCloses`, `ApiAnswers`), and knows a socket by its
number alone; two APIs use the same numbers. `Bind` and `Listen`, and the
operations that transfer or ask, pass a socket on and change none: they are
`BindListen` and `Transfer`.

The source does not say when an application may register, so that `rule` gives
the two cases worth looking at: at any time, or when it is *drained*, with no
socket held and no call in progress. NULL is registered only with no call in
progress: a build that loads twice would otherwise call through NULL, and
`iot_socket_mux.h` ("NULL disables socket API") does not rule it out. `ImplementsSwitch`
holds under both rules: the moment at which `ApiSwitch` picks the API is the
load that the call uses. `OwnersServe` and `NoSocketStranded` are about the second.

### FreeRTOS+TCP

`FreeRtosLayer` starts in `socket_startup`: `FreeRTOS_IPInit` (`IpInit`), rounds of the
loop (`Look`, `Delayed`), its end, and the result (`Outcome`). `NetUp` is
shared with the IP task without volatile; the compiler must read it again after
`osDelay`, but may use the value of an earlier round when there was no delay
since (`seenUp`). The event hook (`NetworkEvent`) toggles `NetUp` from the moment
the stack runs. Once the application runs nobody reads `NetUp`, and the hook is
followed no further.

`sockets` is what the stack keeps of each socket: kind, state, queues and the two
block times. The file keeps nothing, so that its calls are one step where the
stack answers at once, and an entry and an end where it may wait; how long is
settled at the entry. `SetMode` is FIONBIO, two calls of the stack with whatever
other threads do in between. `ToInt` is the cast of an address to `int32_t`. The
answers that hand out or close a socket (`CreateAnswer`, `AcceptAnswer`,
`CloseAnswer`) are part of the steps; the other results go to the caller and
change nothing here. `held` and `asked` are
history: the numbers the application holds, and what was asked of each socket
for receiving and for sending. FIONBIO asks "nowait" with a value and "blocking"
with 0, a timeout asks "limited" and with 0 "forever"; of calls that overlap and
ask different things (`mixed`) nothing is expected until the next one.

### Ethernet interface

`started` is the progress of `xNetworkInterfaceInitialise`: the thread is
created in one step and `ETH_tid` assigned in the next. `rxOn`, `rxq`, `irq` are
the MAC, `flag` the thread flag, `pc` and `buf` the receive thread, `free` the
pool, `evq` the event queue, `ipBuf` the buffer the IP task works on.
`received` is history. The actions of `ETH_Thread` are the calls of its loop in
the order of the code, with the three tests between them; the interrupt is
`ETH_MAC_SignalEvent`. The pool is shared with the IP task, which allocates
packets of its own (`NewPacket`) and releases buffers in `Output`.

`ImplementsChannel` maps this to `FrameChannel`: on the way (`OnTheWay`) are the
frames in queued buffers (`InQueue`, by the recursive function `Carried` over the
event queue, which also holds events without a buffer), the one about to be
sent, and the ones in the MAC.

## 3. The runs

| run | instance | shows |
|---|---|---|
| `vsocket_any` | 2 threads, 1 number, no discipline, `FairSpec` | `NothingLost`, `TimeoutHonoured`, `ConnectSettles`; a receive returns (`RecvReturns`); a waiting Accept is released by Close (`AcceptReleased`) |
| `vsocket_serial` | 2 threads, 2 numbers; `Apart`: two SetOpts on one socket, and a Close of it under a SetOpt or an Accept | every option is kept as it was given (`OptionsKept`); a connection is returned, number 0 included (`NothingLost`) |
| `vsocket_race` | 1 number, no socket is closed under another call | **fails** (`RecvAsksHost`): Close clears the attributes of a socket just created |
| `eth_rx` | 2 buffers, event queue of 2, MAC of 2, 3 frames, link up late, no read errors, `FairSpec` | ownership of buffers, no lost wake-up, order, every frame leaves the MAC, refinement of the channel |
| `eth_wakeup` | the same with a link that may be up at once | **fails**: the first wake-up is lost while `ETH_tid` is unset |
| `eth_readerr` | the same with errors of `ReadFrame` | **fails**: a negative error passes `rval > 0U` |
| `lwip` | 2 threads, 1 number, all operations, a stray number, timeouts 2000 and 500 ms, both modes, `FairSpec` | `OptionsMirrored`, `NoUnaskedWait`, `BoundIsNamed`, `RebindRefused`, `TimedRecvReturns` |
| `lwip_accept` | 2 threads, 2 numbers | the untouched attributes of an accepted socket are those of a new one |
| `lwip_torn` | SetOpt may overlap with a check | **fails**: half of the old and half of the new timeout make no timeout |
| `mdk` | 2 threads, 2 numbers, all operations, a stray number, timeout 1500 ms, both modes | `OptionsMirrored`: Accept copies the attributes as the stack copies the options; `CheckWaitsLikeRecv`: a check with length 0 waits as a receive does |
| `mux` | 2 threads, 2 APIs with 2 sockets each and the same numbers, both rules | `ImplementsSwitch`; when drained, `OwnersServe` and `NoSocketStranded` |
| `freertos` | 2 threads of which one may wait, 2 sockets, FIONBIO 1 and timeout 0, a wait of 3 delays, `FairSpec` | `SocketsAccounted`, `NonBlockingNeverWaits`, `UnlimitedCallsWait`, `StackIsThere`, `StartupWaits`; `socket_startup` returns (`StartupReturns`) |

Each failing run states a sentence of the documentation or of a comment; the
`findings` of `PROJECT.json` quote it.

### Bounds

Two threads are enough for every race the code has between two calls: each
step reads or writes one entry of the table, and the properties relate one call
to another. One socket number is the hard case for what follows the reuse of a
number, since every Create meets the one just closed; two are needed for Accept,
which has a listening and a new socket. `MaxPend = 1` and `MaxRx = 1`: a call
takes one request or one unit of data, so that one unit distinguishes empty,
full and "taken by the other thread". `MaxRx = 0` where the run is about
attributes only. VSocket's default timeout is 10 ms, one delay. `vsocket_any` sets 47 ms, which is no
multiple of 10 and with `TimeoMod = 32` does not fit: a truncated field is part of
this run. `vsocket_serial` sets 20 ms, which fits and differs from the default and
from 0: the field holds every timeout that the documented type `int32_t` has
(`IoT_Socket_API.txt:548`), and `OptionsKept` would fail for one it does not hold. For lwIP 2000 and 500 ms differ in both fields; 1500 uses both at once, and with the
0 of a new socket makes every half-written pair for MDK Network. For the multiplexer two APIs with two
sockets each are enough for a call that is served by another API than the one
before, and for a number that means two sockets. For FreeRTOS+TCP two sockets are
a listening one and its child; one thread that waits and one that
changes options meanwhile (`Waiters`) are the races there are, since every
operation but FIONBIO is one call of the stack. FIONBIO is given 1 and the
timeouts 0, the two that write opposite times for the same 0; other timeouts are
passed on as they are. FIONBIO with 0 does the same as with 1. The wait of the start-up is 3 delays instead of 150: the
loop compares the counter with 0 only. The addresses are 4 and 5 of 16, below the
half where `int32_t` turns negative. Two buffers, a queue of two and a MAC of two are
the smallest in which each of them can be full while the others are not, and
three frames the smallest number for which one can be lost between two that are
not. `CHECK_DEADLOCK FALSE`: the application and the network may stop, and
`socket_startup` may end with the network down.

Proofs have none of these bounds, except that `MaxFrames` and the capacities are
parameters.

### Fairness

`FairSpec` of `VSocket` and `LwipSocket` has weak fairness of `Step(t)` for each
thread: a thread that can run is run by the RTOS scheduler in the end (the
threads here block in the stack or in `osDelay`), `osDelay(10)` ends, and so does
a wait of the stack that has a limit. Starting a call and what the network does
are not fair. `FairSpec` of `FreeRtosLayer` has weak fairness of the start-up: its
thread is run and `osDelay` ends, while the network may come and go for ever or
never come. `FairSpec` of `EthInterface` has weak fairness of the receive
thread, which runs at `osPriorityHigh`, and of the pending interrupt; nothing is
assumed of the link, the IP task or other tasks, so that the buffers may be
exhausted for ever.

## 4. The proofs

`VSocketProofs`, for any threads, numbers of sockets, timeouts, disciplines and
bounds, from the ASSUMEs of the modules alone:

* `TypeCorrect`: `TypeOK` and what holds of a call at each place (`Control`),
  by one lemma per group of actions;
* `Invariant`: the inductive invariant. `NothingLost` and `TimeoutHonoured` say
  something only of calls that sleep or are done; a call in the middle of a poll
  must be known to hold no gain yet, and the number of delays already made plus
  the variable `delay` must equal the rounded timeout. These are the conjuncts
  that are added;
* `NothingIsLost`, `TimeoutIsHonoured`: the two properties, from it;
* `ConnectsSettle`: an action property. The host call that ends a blocking
  Connect is looked at for every state the socket may be in;
* `OptionsAreKept`, assuming `Serial`: the application passes only what it holds
  (`Disciplined`), does not overlap two SetOpts on one socket, closes no socket
  under a SetOpt or an Accept, and gives timeouts that fit in 31 bits. Calls on
  different sockets, several Accepts on one socket, a SetOpt during an Accept, and any
  Create or Accept that is given the number a Close has still to clear, overlap freely. What
  `OptionsKept` says of `opt` is what was asked for: a value cut on its way to the
  table would not agree. The invariant `KeptInv` adds who owns what (`Ownership`): a held number is
  in use in the host (`HeldUsed`), so is one that is handed out and not yet
  returned, to one call only (`BornUsed`, `BornApart`); a call that needs a held
  socket finds it held (`UsesHeld`), the setters of a socket are alone
  (`SettersApart`), and a Close that has still to clear meets a free number or a
  tainted one (`ClearsOwn`). `AskOf` and `WorkOf` say what a call is to store,
  and that the word in its local variable is complete;
* `RecvHasAsked`, assuming `Timed`: `Serial`, no Close under a receive, and no
  timeout 0. An entry is 0 from the `memset` of Close to the stores of the next
  Create; `TimedInv` says that nobody receives on it in between unless the
  socket is tainted. The run `vsocket_race` is a counterexample for the others.
  No run states `SoundRecvAsks`: on an instance it adds little to `OptionsKept`.

`MdkProofs` and `LwipProofs`, for any threads, numbers of sockets, modes, timeouts
and bounds. What the stack's calls do to a socket is stated once, in `ApiProofs`:
which calls leave a socket in use, keep its options and its name, and which
touch no other socket (`KeepsAll`).

* `TypeCorrect`, twice: no discipline is assumed;
* `Mirrored`, and `ChecksWait` of MDK Network: with `Discipline`. It asks less of
  the application than the runs' `Alone` does: a call that writes the entry of a
  socket (over lwIP Bind and Connect write the flag `bound`), or closes
  it, overlaps with no other call on this socket, and no number is passed that the
  application does not hold but the stack may hand out. Calls on different
  sockets, and any number of receives on one, overlap. The run `lwip_torn` is a
  counterexample without it. The invariants `Inv` name who owns what: a new
  socket that is not returned yet belongs to the call that made it
  (`GivenNew`), a writer has its entry to itself (`SetterAlone`, `WriterAlone`),
  and a `Close` that has the table to clear yet meets a free number or a tainted socket
  (`NoClear`). The second part says how far the writer of an entry is: which
  fields are stored, what is in the word it loaded, what `socket_check_read` has
  read (`Course` in `MdkProofs`, `WriteAt` and `CheckAt` in `LwipProofs`). Over lwIP an
  accepted socket has the entry its number was left with; that this is all zeros is `Clean`;
* `AskedWait`, `BoundNamed`, `RebindTold` of lwIP: from the same invariant.
  `RebindTold` needs the converse of `BoundIsNamed` for open sockets (`OpenBound`): one
  that has an address is flagged, or a Bind of it is about to store the flag.

`EthInterfaceProofs`, for any pool, queue and MAC:

* `TypeCorrect`: types, and which places of the loop go with a buffer (`Hand`);
* `BuffersAreConserved`: `BuffersConserved` is inductive relative to the types;
* `WakeupNotLost`, assuming `SlowLink`: the strengthening `TidFirst` says that
  the receiver is off as long as `ETH_tid` is not set. Without the assumption
  the run `eth_wakeup` is a counterexample;
* `FramesStayInOrder`, assuming `~ReadErrors` (else the run `eth_readerr`):
  `received`, the queue, the buffer about to be sent and the MAC, one after the
  other, are one increasing sequence up to `count`. `InOrder` states this for any
  two frames of it; `FramesInOrder` alone is not inductive, since it says nothing
  of the frames still to come. It needs `BuffersConserved`: a buffer in two
  places would be overwritten in one of them;
* `ChannelIsImplemented`, assuming `~ReadErrors`: `ImplementsChannel`, by simulation. A
  frame that is read or sent moves within `OnTheWay`, which stays what it is; a
  frame that is filtered, discarded or finds the event queue full is lost at
  the place behind the queue (`LoseNext`); `TakeEvent` delivers the first. Filling a
  buffer leaves `InQueue` alone by `BuffersConserved`. What `Carried` gives for a queue
  with an event more or less at its end or front (`CarriedAppend`, `CarriedTail`) is
  shown by induction over the queue. The library's induction theorems take an
  operator as a parameter, which the provers cannot instantiate;
  `SetInduction` states induction for sets of numbers instead, from the
  well-foundedness of < on Nat.

`MuxProofs`, for any threads, APIs, numbers and rules:

* `TypeCorrect`: types, and no call through NULL. It needs `Registered`: while a
  call that passed the test is in progress an API is registered;
* `SwitchIsImplemented`: `ImplementsSwitch`, by simulation: every step of `Mux` is a
  step of `ApiSwitch` or leaves its variables alone. The load that counts is the
  test's or the call's, according to `req.twice`;
* `OwnersAlwaysServe` and `NoSocketIsStranded`, from one invariant: under the rule of
  draining the registered API, the API loaded by each call and the owners of all
  held sockets are the same as long as there are any.

`FreeRtosProofs`, for any length of the wait and of a delay that divides it:

* `StackIsThereAlways`, `StartupWaitsInFull`. The counter is a number of whole
  delays (`Rounds`), so that it meets 0; until the network has been up, what was
  waited and the counter add up to the announced wait, because every round is a
  delay then (`Course`). `QuietBefore` says that nobody calls before the start-up
  has ended.

`FreeRtosSocketProofs`, for any threads, heap, timeouts and bounds:

* `TypeCorrect`;
* `NonBlockingAlways`: `NonBlockingNeverWaits` is not inductive; `Marks` says what
  holds while FIONBIO is half done (the receive block time is 0) and that an
  address nobody uses carries no mark, `Busy` that a call in progress keeps its
  socket from being closed, and FIONBIO its mark;
* `UnlimitedAlways`: `UnlimitedCallsWait`, an action property. `Marks` relates what
  was asked of a socket to its block times, `Busy` says that a call in progress has
  the block time that was asked for when it started, and the stack answers a call
  without a limit only when there is something to answer;
* `NoSocketIsLost` assumes that the heap lies below 2^31. The
  invariant `Holding` needs no such assumption: the application holds the sockets
  below that address, and no others. So a socket above it is lost.

Every invariant, action property and refinement of the passing runs is proved.
Checked by TLC only are the liveness properties `RecvReturns`, `AcceptReleased`,
`MacDrained`, `TimedRecvReturns` and `StartupReturns`: they rest on
fairness and ENABLED, which the prover does not reason about. Where a theorem
has a hypothesis on the application or the driver (`Serial`, `Timed`, `Discipline`,
`SlowLink`, `~ReadErrors`, the heap below 2^31), the instance of the passing run
satisfies it: `vsocket_serial`, `lwip`, `lwip_accept`, `mdk`, `eth_rx`, `freertos`.

## 5. Not modelled, and why

* Payload, IP addresses, ports, the length of buffers, argument checks against
  `NULL`: no state depends on them. IPv6 likewise.
* Operations that are one call of the stack and touch no state of the file:
  VSocket's Send, SendTo, GetSockName, GetPeerName; lwIP's SendTo, GetPeerName,
  GetOpt, GetHostByName; the same and Send, GetSockName over MDK Network; GetOpt,
  GetSockName, GetPeerName and GetHostByName of FreeRTOS+TCP.
* The inside of the host, of lwIP, MDK-Middleware and FreeRTOS+TCP, and of the
  drivers: external, modelled from the calls made of them.
* Wi-Fi: one call of the driver per function. The template: empty functions.
* The start-up of the other layers: sequences of configuration calls, and for MDK
  Network a loop that asks for an address every 500 ms, without any shared state.
* A second initialisation of the Ethernet interface after a failed one, and its
  output path's statistics.
* Timeouts of 2^20 seconds and more over lwIP (2^21 over MDK Network), which the
  table cuts: excluded by `LwipAssumption` and `MdkAssumption`.

### Differences between text and code that no run states

All but the second are visible in one function, and need no sequence of steps to be seen:

* VSocket: a new socket has a receive timeout of 60 s (line 55), where
  `include/iot_socket.h:64` has 0 as the default, so that a blocking receive gives
  up after a minute without data. `OptionsKept` takes what Create stores for
  the options of a new socket.
* VSocket: a blocking Accept reads the timeout of the listening socket after it
  has its connection (line 126). When another thread closes the listening socket in
  between, the new socket inherits the timeout 0 of the cleared entry, and a blocking
  receive on it returns without asking the host. `Apart` of `vsocket_serial` and the
  hypothesis `Serial` leave this out (the pair Close, Accept).
* VSocket: a receive on a closed socket, or after `SO_RCVTIMEO` was set to 0, makes no round of
  the loop and returns `io.ret_val` uninitialised; `IoT_Socket_API.txt:608` has further
  references to a closed socket fail with EINVAL.
* FreeRTOS+TCP: FIONBIO with value 0 makes a socket non-blocking too
  (`include/iot_socket.h:63`: "0=blocking, non-blocking otherwise"); the check with length 0 answers the
  number of bytes, 0 for none, where `include/iot_socket.h:179` has 0 for data
  available; a non-blocking Connect that is under way answers ECONNABORTED, where
  `IoT_Socket_API.txt:239` has EINPROGRESS; a new socket has block times of 10 s
  (`FreeRTOSIPConfig.h:69`), where `include/iot_socket.h:64` has 0 as the default,
  so that a blocking receive gives up, and `iotSocketRecv` answers 0 at the end
  of the wait, where `IoT_Socket_API.txt:304` has EAGAIN; GetOpt of the type returns
  the type as its status and leaves the value unset; milliseconds are taken for
  ticks, which is right for a tick of 1 ms. No property asks for the contrary:
  `NonBlockingNeverWaits` is about FIONBIO with a value other than 0, and
  `UnlimitedCallsWait` about a timeout that was set to 0, not about a new socket.

What the properties leave out, because the application is assumed not to do it, is
named with each hazard in `PROJECT.json`: options of one socket set by two threads at
once, a SetOpt or Close under a call of lwIP or MDK Network on the same socket
(the run `lwip_torn` shows one of these), sockets handed out under a Close (the
run `vsocket_race` shows one), NULL registered during a call, an API registered
while sockets of another are held, a heap above 2^31.

## 6. Plan

Done: the modules of section 2, and the proofs of every safety property,
action property and refinement the runs check. In order of importance, the rest:

1. Initialisation of the Ethernet interface that fails and is repeated, with
   the drivers it leaves initialised.
2. `SocketOptions`, an abstract specification of one socket's mode and timeout,
   which `VSocket`, `LwipSocket` and `MdkSocket` implement under the discipline
   of `Serial` and of `Discipline`; the theorems `OptionsAreKept` and `Mirrored`
   have the invariants for its simulations.
3. The safety parts of the liveness properties: at every point of a limited wait
   a step is left that brings its end nearer, a measure that decreases.
