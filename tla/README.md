# INSTINCT in TLA+

INSTINCT is flow-based software for navigation: *nodes* (file readers, sensors,
filters, plots) are linked over *pins* to a *flow*, and a flow is executed, either in real
time or as post-processing of recorded data.  Every node has a worker thread; the GUI, the
flow executor, the loader and the workers themselves ask it to change its state and feed it with
data.  Nearly everything that is hard in this program is hard because of these threads,
and that is what this directory models.

Paths are relative to the repository's root; `Node.cpp` is `src/internal/Node/Node.cpp`.

## The system

| Part | State | Operations | What makes it correct |
|---|---|---|---|
| Node life cycle (`Node.cpp`, `Node.hpp`) | `_state`, `_reinitialize`, `_disable` (under `_stateMutex`); `_workerWakeup` (under `_workerMutex`) | `doInitialize`, `doReinitialize`, `doDeinitialize`, `doDisable`, `doEnable`, `wakeWorker`, the destructor; the worker's `workerInitializeNode`, `workerDeinitializeNode` | states follow the diagram of `doc/core/Nodes.dox`; the worker is not disturbed while it initializes; requests are served; a node is up only if what it depends on is |
| Worker, data handling (`Node.cpp`) | input queues, `noMoreDataAvailable`, `_mode`, `callbacksEnabled`, `pollEvents` | `workerThread` (second half), `invokeCallbacks` | order of time in post-processing; nothing sent after the end was announced; a node finishes when all its input is handled |
| Flow executor (`FlowExecutor.cpp`) | `_state`, `_activeNodes`, `_thd` | `start`, `stop`, `waitForFinish`, `deregisterNode`, `execute` | a run ends; a stop is not lost; between runs everything is off and empty |
| Node manager (`NodeManager.cpp`) | `m_nodes`, `m_NextId` | add, delete, pins, links, `InitializeAllNodes`, `EnableAllCallbacks`, ... | numbers are unique; deletion leaves no dangling link |
| Pins and links (`Pin.cpp`) | a list of links at an output pin, one link at an input pin | `createLink`, `recreateLink`, `deleteLink`, `connect`, `disconnect` | both ends of a link agree |
| Clipboard (`gui/GlobalActions.cpp`) | copied nodes and links, a flag for cut ones | cut, copy, paste | copies are linked like their originals |
| Pin values (`Node.cpp`) | `dataAccessMutex`, `dataAccessCounter`, condition variable | `requestOutputValueLock`, `notifyOutputValueChanged`, `releaseInputValue` | a value is not changed while a reader still needs it; the writer does not wait for good |
| Scrolling buffer (`util/Container/ScrollingBuffer.hpp`) | ring of a vector, padding, start and end index | `push_back`, `pop_front`, `resize`, `clear`, `at` | it is the log of the last values |
| Flow manager (`FlowManager.cpp`) | file name, unsaved changes | load and save | what is loaded is what was saved; nothing half-loaded runs |
| Application logic (`AppLogic.cpp`, `Sleep.cpp`) | | no-GUI main, interrupt thread | the program ends |
| GUI (`internal/gui`) | selections, undo | menus that issue requests | |
| Callback timer (`util/CallbackTimer.cpp`) | thread, stop flag | start, stop | |
| UART packet finders (`util/Vendor`) | a state machine over bytes, a buffer | one byte | only messages that were sent are found, resynchronisation |
| INS/GNSS loop (`ImuIntegrator.cpp`, `LooselyCoupledKF.cpp`) | the last observations and state, the time asked for; attributes of pins that change during a run | the callbacks of their six flow pins | the integrator does not run ahead of its corrections; two nodes that wait for each other finish |
| Navigation, decoders, other nodes, plots, configuration, logging | | | numerical results, formats, drawing: not modelled |

**How they interact.** A request (`do*`) changes `_state` under `_stateMutex`, releases it, then
wakes the worker (`_workerWakeup`, `notify_all`), and, if asked to, waits on the same condition
variable.  The worker reads the state, releases the mutex, and does the work in functions that
take the mutex anew; while it initializes it calls `doInitialize(true)` of the nodes its non-flow
pins depend on, while it deinitializes it passes the request to its dependents.  The executor
initializes all nodes, sets their mode, counts them, enables callbacks and wakes all workers; from
there data moves by pushes into the queues of linked pins, each followed by a wakeup.  A node that
has nothing left to expect marks its output pins, wakes its successors and deregisters; the
last one sets the executor's state to Stopping.
Not all data flow forward: the Kalman filter asks the integrator that feeds it for a solution at the time of each
GNSS measurement and sends it the errors it has estimated, so that each of the two waits for the other.

**Hard behaviours.** Check and use in different critical sections; a wakeup that comes between
a check and a wait; marks that outlive the request that set them; dependencies that change while
a node waits for them; an end that is announced and data that are still on the way; a stop during
the start; counters that go down before they went up; objects that point to each other and are changed one after
the other; numbers that come from a counter and from a file; a parser that mistakes data for a header; a loop in
the flow.  PROJECT.json lists each with its
line.

## Modules

| Module | Models |
|---|---|
| `NodeStates` | the state diagram of a node: the abstract specification of the life cycle |
| `NodeLifecycle` | the threads that implement it: requests, waiting, worker, dependencies, deletion |
| `NodeLifecycleProofs` | theorems about `NodeLifecycle`, with their proofs |
| `MCNodeLifecycle` | instances for TLC: dependency graphs, mixes of requests |
| `FlowNodes` | the workers while a flow runs: queues, temporal sorting, polling, finishing |
| `FlowExecutor` | the executor and the control thread, composed with `FlowNodes` |
| `FlowExecutorProofs` | theorems about every flow: types, stop, quiet between runs |
| `FlowRunProofs` | theorems about one post-processing run: the count of active nodes, the end of data; if nobody stops it, the order of time, that no node finishes early and that nothing is left |
| `MCFlow` | instances for TLC: a triangle of three nodes, a line of two |
| `BoundedLog` | the log of the last values: the abstract specification of the scrolling buffer |
| `ScrollingBuffer` | the vector that implements it, and the calls of its users |
| `ScrollingBufferProofs` | theorems about `ScrollingBuffer`: the refinement of `BoundedLog`, with their proofs |
| `MCScrolling` | instances for TLC: the combiner, the plot, the polynomial regressor |
| `PinValue` | the value of a pin: the node that changes it and those that read it |
| `PinValueProofs` | theorems about `PinValue`, with their proofs |
| `MCPinValue` | instances for TLC: a Kalman filter with two pins and three readers |
| `FlowGraph` | nodes, pins, links, their numbers; clipboard, saving and loading |
| `FlowGraphProofs` | its theorems: types, links and numbers in flows that are edited, copied and pasted |
| `MCFlowGraph` | instances for TLC: three sessions of a user |
| `PacketFinder` | finding messages in a byte stream: u-blox, Emlid, KVH |
| `PacketFinderProofs` | theorems about `PacketFinder`, with their proofs |
| `MCPacketFinder` | instances for TLC: streams of messages, damaged messages and foreign bytes |
| `InsGnssLoop` | `ImuIntegrator` and `LooselyCoupledKF` feeding each other, and the worker with the pin attributes they use |
| `InsGnssLoopProofs` | theorems about `InsGnssLoop`, with their proofs |
| `MCInsGnssLoop` | instances for TLC: five recordings |

`NodeLifecycle` implements `NodeStates` and `ScrollingBuffer` implements `BoundedLog`
(`INSTANCE ... WITH`, the abstract specification as a property of a run).  `FlowExecutor` extends
`FlowNodes`: the two share every variable of a node, and the executor adds its own.
`NodeLifecycle` and `FlowExecutor` are not composed: during a run nodes stay initialized in
`FlowNodes`, and what a life-cycle change in the middle of a run does is left out.  `PinValue`, `FlowGraph`,
`PacketFinder` and `InsGnssLoop` stand alone: pin values are exchanged while links do not change, the flow is edited by the
user interface's thread only, a packet finder belongs to one node, and the loop is a flow of its own.

### NodeLifecycle

One step is the code between two acquisitions of `_stateMutex` or `_workerMutex`.

| TLA+ | Code |
|---|---|
| `state`, `reinit`, `disable`, `wakeup` | `_state`, `_reinitialize`, `_disable`, `_workerWakeup` |
| `alive` | `NodeManager::m_nodes` |
| `call[t]` | the `do*` function thread `t` is in, its node, its `wait` argument, where it is, its answer |
| `DoInitialize` ... `DoEnable` | the switch of each `do*` under `_stateMutex`: one disjunct per group of cases |
| `DisableDeinitializes` | the `doDeinitialize()` inside `doDisable`, which takes the lock anew |
| `WakeWorker`, `WaitCheck`, `WaitBlock`, `WaitResult` | the end of a request: flag and `notify_all`; evaluate the predicate under `_workerMutex`, release it and block, read the answer |
| `DeleteCheck`, `Destroy`, `Join` | `NodeManager::DeleteNode` and `~Node` |
| `Dispatch`, `Wakeup`, `Timeout` | the head of `workerThread` and its `wait_for` |
| `InitEnter` ... `InitDone` | `workerInitializeNode` |
| `DeinitEnter` ... `DeinitDone` | `workerDeinitializeNode` |
| `Notify` | `notify_all` after the state has settled, without `_workerMutex` |

A thread's wait is modelled at the grain at which condition variables lose wakeups: between
`WaitCheck` (predicate false) and `WaitBlock` the caller holds `_workerMutex`, which `WakeWorker`
and the worker's wait need, and `Notify` does not.  `Deps` are the links of pins that are not flow pins, which decide who initializes whom;
a node that has come up wakes the workers behind all its links (`Successors`, with `FlowLinks`), and only nodes without links are deleted.  `initialize()` and `deinitialize()` of a concrete node
are a choice between success and failure.

### FlowNodes and FlowExecutor

| TLA+ | Code |
|---|---|
| `queue`, `noMore`, `mode`, `callbacks`, `poll` | `InputPin::queue`, `OutputPin::noMoreDataAvailable`, `_mode`, `callbacksEnabled`, `pollEvents` |
| `left` | what a file reader has still to read of `Data` |
| `Wakeup`, `Gate` | the wait of `workerThread`, and its tests of callbacks and mode |
| `TakeInput`, `NoInput` | the loop over input pins with the check for temporal sorting |
| `InvokeCallbacks`, `Push`, `PushDone` | `invokeCallbacks`: one lookup, then one push and wakeup per link |
| `HasPollEvents`, `Poll`, `NoPoll`, `PollNext`, `PollEnd` | the loop over poll events, peek and read; the end of the last one, which closes what is still open |
| `FinishCheck`, `FinishQueue`, `FinishMore`, `Finish` | "Check if node finished": two separate reads per pin |
| `state`, `activeNodes` | `FlowExecutor::_state`, `_activeNodes` (a `size_t`: modulo `SizeLimit`) |
| `Call`, `IsRunning`, `Stop`, `WaitForFinish`, `Join`, `Start` | `start`, `stop`, `waitForFinish`, `isRunning` as one control thread calls them |
| `InitializeAllNodes` | the initialization before a run, seen from the executor: it waits for every node, and a node that has come up wakes those behind it (`Node.cpp:891-899`), which may still be so when modes are set; `Woken` are the nodes it can happen to |
| `ClearNode` ... `EndExecution` | the rest of `execute`, one step per node in each loop |
| `Decrement`, `Compare`, `SetStopping` | `deregisterNode`: `--`, the second read, the locked assignment |

Every output of a node is one pin, every link leads to an input pin of its own, and an item is its
time stamp.  A node that takes an item passes it on.

### ScrollingBuffer

`buf` holds `_infiniteBuffer`, `_maxSize`, `_dataStart`, `_dataEnd` and the vector.  `Pushed`, `Popped`,
`Cleared`, `Resized` are `push_back`, `pop_front`, `clear`, `resize`; `Resized` keeps the order in which
`resize` erases (empty cells, padding, the oldest values to the end of the vector, then those at its
start).  `Slide` and `SetWindowSize` are the two sequences in which the polynomial regressor
uses the buffer.

### PinValue

| TLA+ | Code |
|---|---|
| `counter`, `marked`, `items` | `dataAccessCounter` of an output pin; `dataChangeNotification` of a link; entries in the queue of its input pin |
| `Begin`, `Check`, `Lock` | `requestOutputValueLock`: lock, wait for the counter to be zero (in steps: the wait lets go of the mutex, and the function lets go of it once more before the caller owns it) |
| `Publish` | the change, `notifyOutputValueChanged` for every link, and the end of the lock |
| `Take`, `Poll` | the worker hands an item to the callback; a callback of another pin looks at the value unasked |
| `Construct`, `Destroy` | constructor and destructor of `ValueWrapper` |
| `Get`, `Return`, `Copy`, `DropLocal`, `Finish` | `getValue` builds a wrapper and moves it out; a callback copies it; wrappers die |
| `Release` | `releaseInputValue` |
| `Clear` | queues emptied while the mark stays (`ClearAllNodeQueues`) |

The steps of a reader hold `dataAccessMutex` throughout and are single; the writer keeps the mutexes of its batch over
several steps (`Held`).

### FlowGraph

The user interface works on the flow with one thread, so every operation is one step, written as an
operator from flow to flow in the order in which the code makes its calls: `CreateLink`, `DeleteLink`, `Connected`, `Disconnected`
(`Pin.cpp`); `AddNode`, `DeleteNode`, `FindNode` with `Place`, `Erased`, `CreateInputPin` ... `DeleteAllNodes` (`NodeManager.cpp`); `Text`, `LoadNode`,
`LoadLink`, `LoadJson`, `LoadFlow`, `Changed` (`FlowManager.cpp`, `from_json`); `CutElements`, `CopyElements`, `PasteElements`, `RelinkCopies`
(`GlobalActions.cpp`).  `to` and `from` of a node are the two ends of a link, kept apart as in the code.  The clipboard and the file
are sets of texts; a JSON object lists its entries by key as text, which is what `Rank` and `ForEach` are for ("node-10" comes before "node-2").

### PacketFinder

`finder` is what `findPacket` keeps between two bytes, `Now` the check for a full buffer at its head, and each action one of its
branches: `Start`, `SecondSync`, `Header`, `Payload` (u-blox, Emlid), `KvhHeader`, `KvhStart`, `KvhPayload` (KVH), `Text`.  `Complete`
is the end of a packet: checksum, type, reset.  `Rewind` is `resetNode` of the file readers, which starts the file anew and leaves the
finder as it is.  The checksum is that of u-blox
(8-bit Fletcher) for all three protocols: of the others no more is needed than that they tell a damaged message from a whole one.

A stream is a sequence of bytes with its division into chunks, of which the finder sees nothing: messages, damaged messages, foreign bytes.
`IsMessage` says what a message is, from the protocols and not from the finders: binary data announce the length of their payload
(`BinaryFrame`), a text ends with its first pair of line ends (`TextFrame`), the KVH sensor sends binary data of known sizes that hold no second
header (`KvhFrame`) and lines of ASCII characters (`KvhLine`); the checksum is right and the buffer large enough.  `StreamsAssumption` says that every stream is cut like this, and TLC
evaluates it for the streams of the instance.  `ready` is history: the messages that the finder was free for when they began.

### InsGnssLoop

| TLA+ | Code |
|---|---|
| `Send`, `Announce` | `invokeCallbacks`; `noMoreDataAvailable` and the wakeups that go with it |
| `SendNext`, `EndOfData` | the poll loop of a node that reads a file |
| `Wakeup`, `Break`, `Drop`, `Chosen`, `AllInputPinsHaveData`, `Earliest`, `Firable` | `workerThread` from its wait to the choice of a pin |
| `FinishQueue`, `FinishMore`, `Finish` | "Check if node finished" |
| `RecvImuObs`, `RecvPosVelAttInit`, `RecvSync`, `RecvLcKfInsGnssErrors`, `Integrate` | the callbacks of `ImuIntegrator` and `integrateObservation` |
| `RecvInertialNavigationSolution`, `RecvGNSSNavigationSolution` | the callbacks of `LooselyCoupledKF` |
| `EndQueue`, `EndMore` | the end of `integrateObservation` and of an update: both nodes look whether an input has ended and announce it on an output |

An item is its time.  `data`, `applied`, `used` and `torn` are history: what was recorded, which corrections were applied, which
measurements used, and whether a pair of reads (queue, then flag) was torn as in `bug_flow_finish`.

## Runs

Passing runs.  Every model bounds the number of *calls* clients make, so a behaviour
ends when the calls are used up and nobody has anything to do; a blocked thread is then no deadlock
of the code, and all configurations say `CHECK_DEADLOCK FALSE`.  That somebody waits for ever is the
business of the liveness properties instead.

| Run | Instance | What it shows |
|---|---|---|
| `life_menu` | nodes *a* and *b*, *b* depends on *a*; two clients, two menu requests each (five kinds, not waiting); clients symmetric | whatever two threads ask in whatever order, no request changes the state of a node while its worker is at work on it (`WorkerOwnsTransient`), no mark to reinitialize outlives its initialization (`NoStaleReinit`), and what a worker has been asked is taken back only by a disable before it takes the lock again (`RequestKept`) |
| `life_dependency` | *a*, *b* as above, a node *d* without links; one client, four waiting requests (initialize, deinitialize, delete) | a node is up only while its dependency is, or is about to be told (`DependencyHeld`); all state changes are edges of the diagram (`StatesFollowDiagram`), deletion included |
| `life_served` | one node; two clients, three waiting requests each; fair threads | the life cycle implements the state diagram with its liveness (`StatesServed`); a reinitialization reaches `initialize()` (`ReinitServed`); a call that waits returns, if it is not just between check and wait when the worker notifies, and no reinitialization overtakes the deinitialization it waits for (`CallsReturn`) |
| `flow_run` | the triangle *a* → *b*, *a* → *c*, *b* → *c*; *a* has two items; one post-processing run, *b* possibly still awake from the initialization; fair threads | *c* has to sort two pins whose predecessors race: `TemporalOrder`; `CountAccurate`, `NoMoreIsFinal`, `NoDataLeft`; no node finishes before its predecessors, although *b* may pass while modes are set (`FinishedInTurn`); the run ends (`ExecutionEnds`), and who waits for it returns unless two nodes see themselves as the last (`WaitReturns`) |
| `flow_stop` | the line *a* → *b* with one item; two starts in either mode (the second stops the first), passes nobody asked for, timeouts | a stop is not taken back (`StopHolds`); callbacks, modes and pins are as before outside of a run (`QuietOutsideRun`) |
| `scroll_log` | three values, sizes 0 to 5, at most 6 cells | through wrapping, popping, growing and shrinking the buffer is the log of its last values (`IsLog`), and `front()`/`back()` are its ends (`EndsAgree`) |
| `value_access` | a filter with pins *x* and *P*, changed alone or together; a plot that copies and polls, a logger that may release, a monitor; 3 changes, one poll, one emptied queue; fair threads | the access counter stands for nothing that nobody takes off it (`CounterJustified`), and the writer gets to its change unless its own announcement was thrown away (`WriterProceeds`) |
| `graph_edit` | a chain of three nodes in a file, five slots; four edits of a session: editing with the clipboard, editing with files, nodes whose pins come and go | both ends of every link agree (`EndsAgree`); numbers are unique (`UniqueIds`); what is loaded is what was saved (`LoadRestores`); copies are linked like their originals (`PasteLinksCopies`) |
| `uart_find` | every stream of up to three chunks out of twelve (u-blox, Emlid) or nine (KVH), and a chunk before three calm messages; read once or twice | what is returned was sent (`FoundWereSent`); a message that begins when nothing is being built is found (`HeardIsFound`); after damage the finder recovers within the length of its buffer, the KVH one within a header (`Recovers`) |
| `fusion_loop` | five recordings: inertial data before, between, with and after the GNSS data; an initial state that is late; no GNSS data; fair threads | the integrator does not pass a measurement uncorrected (`Corrected`) and is asked for no time it has passed (`SyncInTime`); the end of Sync is announced when no measurement is left (`SyncEndIsFinal`); the loop ends (`LoopEnds`) |

*Why the bounds are enough.*  The races of the life cycle are between one worker, one or two
requesters and one dependent; two nodes joined by one link have all three roles, and two requests per client
are enough to bring a node up and act on it while it is going down.  The triangle is the smallest
flow with two pins at one node fed at different paces and with a node between source and sink; two items
are the smallest number that can be taken in the wrong order.  `SizeLimit` exceeds twice the number
of nodes, so that the wrapped counter is far from every correct value.  `Woken` is in
`flow_run` the node in the middle, whose early end would end *c* too, in `flow_stop` every node; each of them may be awake or not.  Three values and sizes up to 5
let the ring wrap, be scrolled to every offset, and grow and shrink over its seam.
Three changes of a value let a notification be pending, taken over and raised anew; one poll and one clear are the smallest number that
meet each of these.  Four edits suffice to copy, paste, delete and link what came of it; the saved chain lists its nodes out of the order
in which they were numbered.  `MaxId` is far above the numbers handed out, so that it never stops an edit.  The buffers of the packet finders
are scaled down (18 bytes; 41 for KVH, whose largest packet has 40; text of 12) so that damaged lengths, long texts and a full buffer fit in a short
stream; the chunks include sync characters inside a payload, cut-off messages, wrong bytes, wrong lengths and both line ends.  In the recordings each
order of an inertial and a GNSS measurement occurs, and with three measurements one waits while another is used and a third is on its way.

Runs that end in a violation, each a disagreement between the code and what it says of itself:

| Run | The code says | What happens |
|---|---|---|
| `bug_flow_finish` | `FlowExecutor.hpp:36` "Called by nodes when they finished with sending data" | `queue.empty()` and `noMoreDataAvailable` are read one after the other (`Node.cpp:804`); a push and a finish between them leave an item unhandled |
| `bug_value_edit` | `Pin.hpp:658` "Automatically increments the data access counter to prevent editing." | the move constructor of `ValueWrapper` copies the pointer to the pin (`Pin.hpp:625`), so the moved-from wrapper lowers the counter; the value is changed while the callback reads it |

Their neighbours are the passing runs of the same module: in `value_access` the same wrappers at least never leave a count behind, and in
`fusion_loop` the properties that need an untorn finish check say so (`~torn`).

**Seen, and not runs of their own.**  While modelling, more disagreements were met than there are runs; a reader who changes this code should
know of them.

* `Node.cpp:833` asserts `_state == DoInitialize`, as `Node.cpp:923` does for the deinitialization. The second holds (`RequestKept`), the first does not: `doDisable` may come between the dispatch (`Node.cpp:536-548`) and the lock in
  `workerInitializeNode`. In a release build the disable is lost. This is why `DiagramFollowed` has its assumption.
* `notify_all` without `_workerMutex` (`Node.cpp:540`) falls between a caller's predicate and its wait, which has no timeout: `Node.hpp:331`
  "Wait for the worker to complete the request". Likewise `doDeinitialize(true)` waits for `Deinitialized` only, which the worker skips when somebody asks
  for a reinitialization meanwhile. In `life_served` the request itself is always served; `CallsReturn` has both as exceptions, and fails when one of them is dropped.
* A dependent that is still `Initializing` is passed over when its dependency goes down (`Node.cpp:933-948`; `doc/core/Nodes.dox:33`) and
  comes up without it. `DependencyHeld` holds where one thread asks, waits and does not reinitialize (`life_dependency`, `DependenciesHeld`).
* An initialization leaves workers awake that it did not have to wake (`Node.cpp:891-899`), and they pass while the executor sets one mode after the
  other. A node whose predecessor stands behind it in `m_nodes` may then see pins that are still closed and finish before anything was sent, and so may a source
  that is awake and has no poll event yet; the count falls too soon, and the run may end with data in the queues. `FinishedInTurn` and `NoDataLeft` fail in `flow_run` with the order
  *b*, *a*, *c*; they hold where `WokenBehind` does (`FinishInTurn`, see below).
* `deregisterNode` reads the counter a second time after it has lowered it (`FlowExecutor.cpp:130-135`): the slower of two last nodes sets
  `Stopping` after the end of the run, and `waitForFinish` (`FlowExecutor.hpp:33`) never returns. `WaitReturns` has `OneLast` as its premise.
* The INS/GNSS loop hangs when the end of the GNSS data is found after the last update, when a torn read ends Sync early, when a GNSS
  measurement precedes the initial state, and when there is none: each premise of `LoopEnds` is one of these, and without it TLC finds the run that
  hangs. The one-minute wait of the executor does not end it (`FlowExecutor.cpp:255-270`).
* A writer holds the mutex of *x* while it waits for the readers of *P* (`LooselyCoupledKF.cpp:1041-1042`); a node that reads both may hold a
  wrapper of *P* and wait for the mutex of *x*: both wait for good. No reader of the instance reads both pins.
* The clipboard: `saveLastAction` puts all links of the flow into it (`GlobalActions.cpp:385-391`); it survives a new flow, whose
  numbers start again (`NodeManager.cpp:173`), so that create, cut, new, create, paste gives two nodes the same number, against `UniqueIds`; cutting the end of a link before its start loses it; pasting after the original was deleted dereferences null in a debug
  message (`GlobalActions.cpp:275-277`). The sessions of `graph_edit` are chosen to keep clear of these.
* `UpdateNode` does not count the number of the node itself (`NodeManager.cpp:109-116`): when two group boxes, which have no pins, are created, the first is deleted, and
  the flow is saved and loaded, the next node gets the number of the one that was loaded. In sessions with such files TLC finds `UniqueIds` violated.
* `createLink` with the number 0 on an input pin that has a link leaves a stale entry, which the editor prevents (`NodeEditorApplication.cpp:1175`).
* The KVH finder: a self-test result of unknown type makes it log at a level that throws (`KvhUartSensor.cpp:267-272`, `Logger.hpp:75`), binary data that ends
  like a line is returned as text without a checksum (`KvhUartSensor.cpp:257`). `FoundWereSent` therefore speaks of packets with a checksum.
* Scrolling buffer: making a regressor's window smaller while it is popped and not full leaves start and end behind the vector
  (`ScrollingBuffer.hpp:636`), where `at(0)` throws; `resize(0)` of a buffer that is neither empty nor full keeps `_dataEnd`, which an infinite buffer
  never advances. `IsLog` holds when the window only grows and the plot keeps finite sizes; and with `Padding > 0`, which no user asks for, shrinking a scrolled
  buffer goes wrong the same way.

Where the code itself runs into a hazard, no property over all runs can hold.  The list of hazards in PROJECT.json names no property there, but says
in which premise the neighbouring property excepts the case: the missed notification (`NobodyMisses`), the overtaken call (`Overtaken`), stale looks at
dependencies (one thread that waits), the double zero (`OneLast`), the announcement thrown away (`Lost`), and what the INS/GNSS loop sends once and
not again (`EndKnown`, `Startable`).  The false error of an executor whose wait times out (`FlowExecutor.cpp:261`) has none either: it changes what is
reported, and what has to be off afterwards is off with and without it.

The mutants in PROJECT.json are plausible slips in the code (a dropped guard, a missing wakeup, a
forgotten reset), one for each property of a passing run; under each, TLC finds the property violated.

## Fairness

*Assumed:* weak fairness of every thread's own steps: in `NodeLifecycle` each worker and each
thread that is inside a call, in `FlowExecutor` the execute thread, each worker, and the control thread once it
has called, in `PinValue` the writer once it has begun and each reader, in `InsGnssLoop` each source and each worker.  The threads are operating-system threads that hold no lock for more than one step, so a step that
stays enabled is taken; a step that needs a mutex is enabled when it is free, and no two threads take one from
each other for good in these instances.

*Not assumed:* that a client ever calls; that a one-minute timeout fires (`Timeout`, `WaitTimeout` are outside the
fair actions, so no property holds only because a timeout repairs it); that `initialize()` ever succeeds; that a reader ever copies a value or looks at it unasked, that a queue is emptied.

## Proofs

TLAPS checks the theorems for every value of the constants that satisfies the
named assumptions: `LifecycleAssumption` (clients are not nodes, no link leads from a node to itself),
`FlowAssumption` (finitely many nodes, links between different nodes, only sources read files) and
`ExecutorAssumption` (`Order` lists each node once; only nodes are `Woken`; `SizeLimit` exceeds twice the number of nodes) and
`PinValueAssumption` (finitely many nodes and links, every reader has a link, a batch is not empty),
`GraphAssumption` (finitely many places for nodes, sessions made of the operations of the module),
`PacketFinderAssumption` and `StreamsAssumption` (buffers of some size, that of the KVH sensor larger than its largest packet; what the sensors send, see above),
`BufferAssumption` (the marker of an empty cell is no value, sizes are natural numbers), `LoopAssumption` (a recording is three sequences of times)
and `GnssInOrder` (the GNSS solutions of a recording are in order of time: a receiver, or a solver that works epoch after epoch, makes them so;
inertial data need no such assumption).  Each
invariant below, the strengthenings included, was first checked by TLC on small instances.

| Theorem | Says | Argument |
|---|---|---|
| `TypeCorrect`, `OwnershipKept`, `ReinitMarkSpent` | `TypeOK`, `WorkerOwnsTransient`, `NoStaleReinit`, for any graph, any requests | `IInv` is the conjunction of the three with `MarkResetBeforeBody`: a worker past the reset of `_reinitialize` has a cleared mark. Without it, `NoStaleReinit` is not inductive: the step to `Initialized` says nothing of the mark |
| `DispatchedRequestKept` | `RequestKept`, for any graph, any requests | `RequestKept` is inductive with `TypeOK`: `CallEdge` lists what a call can make of a state, and no edge leaves what is allowed |
| `DiagramFollowed` | under `NoDisableOrDelete` every step is an edge of `NodeStates` or a stutter | `DispatchHolds`: the state a worker dispatched on is still there when it takes the lock. This is what fails with a disable (see above), hence the assumption |
| `DependenciesHeld` | under `OneCaller`, `RequestsWait` and `TwoLinks`, `DependencyHeld`, for any number of nodes and requests | `UpIsAsked`: while a dependent comes up the caller waits, if need be through the worker of a node further down; `DownIsAsked`: while the start of a chain goes down the caller waits for just that; so it is never both. `StaysUp`: what an initializing worker has found up is up until it is done; `StaysDown`: what a deinitializing one has told is not up again. `Disciplined` says which calls there can be at all |
| `FlowTypeCorrect` | `TypeOK`; in particular `Poll` and `TakeInput` never read from an empty sequence | `PollHasData`: a poll event means that there is an item to read, except where a worker is just about to find out |
| `StopKept` | `StopHolds`, for any calls, timeouts and spurious passes | `StartsAlone`: `start` creates a thread only after the last one was joined, so only `EndExecution` can leave `Stopping` |
| `QuietBetweenRuns` | `QuietOutsideRun` | `QuietSoFar`: at each loop of `execute` the nodes already visited are quiet, and a worker never enables anything |
| `CountIsAccurate` | under `OneRun`, `CountAccurate` | `RunInv`: before the run a worker is asleep or passes without doing anything (`RestBefore`), since it is still in real-time mode or all before it has been made ready (`ReadyBehind`); the mode of a node tells where its worker may be, the nodes counted so far are those in post-processing and those about to deregister |
| `EndOfDataFinal` | under `OneRun`, `NoMoreIsFinal` | `SendersOpen`: a node in the middle of a push has not closed its pin |
| `FinishInTurn` | under `Undisturbed`, `FinishedInTurn` | `FilesPrepared` and `FilesRead`: a source has something to poll as long as its file is not read, and leaves the polling only at its end; that all its predecessors have finished before a node does is `Finished`, a part of the invariant of `TakenInOrder` |
| `NothingLeft` | under `Undisturbed`, `NoDataLeft` | `Silent`: a worker that finds the count at zero is the last, by `CountExact` all nodes have finished, so that no callback is enabled and no worker is in the middle of a push; with callbacks off nobody starts one, and `ClearedSoFar` follows the loop that clears the queues. The queues need not be empty before it: a node may finish with data in its queue (see `bug_flow_finish`) |
| `TakenInOrder` | under `Undisturbed` and `DataInTime`, `TemporalOrder` | `AllInOrder`: a queue is in order, after all that its node has taken and not after what its predecessor has sent last, and a node is behind each predecessor that may still send. The last is what the check of all pins before an item is taken is for; a node in real-time mode does without it, and `Finished` says that it then has only finished predecessors |
| `ValueTypeCorrect` | `TypeOK` of `PinValue`: no counter below zero, no item taken that is not there | `Typed`: `TypeOK` with `WriterInBatch`, the writer's place in its batch |
| `ValueCounterJustified` | `CounterJustified`, for any pins, readers and links | `OnlyWrappersCount`: since the writer has seen the counter of a pin at zero, nothing but wrappers has raised it. Without it `Publish`, which raises the counter by the number of links it marks, could start from a count that stood for marks that are already there |
| `EndsAgreeAlways` | under `InOrder`, `EndsAgree`, for any values and sizes | `BufInv`: the ring has one of three shapes. Without a limit it is a plain vector; with one it is filling up, its end the length of the vector, or round, every cell in use |
| `BufferIsLog` | under `InOrder`, `IsLog`: every step is one of `BoundedLog` or leaves the log alone | `BufInv` again, with `Uncut` for users that change the size: the free cells, if any, lie between the end and the start. For each operation and shape a lemma says which cell of the new vector holds the *i*-th value; making a scrolled buffer smaller is the composition of its four erasures |
| `LoopTypeCorrect` | `TypeOK` of `InsGnssLoop`: no queue gives out an item it does not have | with `AtAPin`: a worker in a callback is at a pin of its node |
| `SyncEndFinal` | `SyncEndIsFinal`, for any recordings | `SourcesOpen` and `CheckedIsThrough`: a source that has something left has not announced its end, and a worker whose check found a pin at its end stays there |
| `NeverAheadOfCorrections`, `SyncNeverLate` | `Corrected`, `SyncInTime`, for any recordings with `GnssInOrder` | `Measurements` and `Corrections` account for every GNSS solution: used, waiting, or still to come, in order, and each used one with its errors applied or on their way; `Requested` and `NotAhead` say that the integrator stops at the first time asked for. None is inductive alone: what is asked for next depends on what was used, that on what the integrator has sent, and that on what was asked for |
| `GraphTypeCorrect` | under `EditingOnly`, `TypeOK` of `FlowGraph` | `Listed`: the list of nodes holds those that have a number, each once; erasing at a position takes out one node and no other |
| `LinksAgree`, `NumbersUnique` | under `EditingOnly`, `EndsAgree` and `UniqueIds`, for any flow, any edits and any number of them | `Agree` and `Numbered`: a link is known at both ends or at none, and every number in use is below the next one. The two need each other: `DeleteNode` finds its node by its number, and `deleteLink` the other end by the node a link leads to. Four lemmas say what the code does to the nodes: a link is made, a link is taken away, a node gets new numbers, a node with no links loses its own; every operation is a sequence of these. For pasting, `Copied` follows the clipboard: each text of a link and of a node has a number of its own (`Known`), and the numbers of nodes that were cut are used by nothing (`Unused`); `Tame` says of an operation that it uses no number anew, and so leaves both true |
| `FinderTypeCorrect` | `TypeOK` of `PacketFinder`: the buffer never holds more than its capacity | `Typed`: what is being built is the start of a packet of its kind (`Shaped`): binary data whose header is counted and whose rest is as long as announced, a text without its end, a part of a KVH packet. Every action of `findPacket` has one of five outcomes (`Outcome`: the byte is dropped with all before it, begins a packet, is added to one, completes a KVH header, completes a packet), and no later proof looks at an action again |
| `HeardFound` | `HeardIsFound`, for any streams, in any reading | `Tracking`: from its first to its last byte the finder is exactly as far as the message it was ready for, whatever the payload holds. With KVH data it tracks the header before anything is built, and no header may begin inside, which is what `IsMessage` says of this protocol |
| `FinderRecovers` | `Recovers`, for any streams, in any reading | `Known`: what a serial finder builds began in a chunk that disturbs or is a message it was ready for; since it never holds more than its buffer, it is free for a message further away than that (`Heard`), and `Tracking` does the rest |
| `SerialInOrder` | `FoundInOrder` for u-blox and Emlid, for any bytes and any number of readings | `Ordered`: the buffer holds consecutive bytes that end here (`Placed`) and begin after the last packet; after a rewind they begin before the file, and nothing has been found |
| `SentOnly` | under `NoFalsePackets` and in the first reading, `FoundWereSent` | `AllSent`: what is returned are consecutive bytes of the stream, framed like a packet because `Shaped` says how it was built, and valid because `Complete` has checked it; by `NoFalsePackets` they are a message. A KVH header found in the middle of a text would let a line and a packet share bytes; `AllSent` says that a line without a checksum is the only one that may |

`NoFalsePackets` says that nothing in the stream but its messages (no damaged message, no foreign bytes, no bytes across two chunks) is framed like
a packet and has a checksum that fits: what a checksum excludes with high probability and not for certain.  All but a few streams of `uart_find` satisfy it.  In a later
reading the end of the file and its start meet in the buffer, so that a packet need not be a piece of the stream.  `FoundWereSent` without the two
hypotheses is what TLC checks, for the chunks of the instance.

`EditingOnly` says that the program starts without a file and loads none, and that a session which pastes does not start a new flow; creating,
linking, deleting, cutting, copying, pasting and saving in any order are covered. Both exceptions are needed: after them
`UniqueIds` holds for chosen sessions only, those of `graph_edit` (see what is said of `UpdateNode` and the clipboard above).  Of pasting the proofs follow each step: a copy is made by `AddNode` in a slot
that is there because `Room` has been checked (`FreeThere`) and gets new pins (`LoadNewKeeps`) or, when it was cut, its old numbers, which by `Unused` nothing has (`LoadKeeps`); a
link of the text is made again under its number where it is missing, and by `Known` only there (`LinkAgainKeeps`); the position at which `CopyOf` looks
for a copy is in the list (`CopyThere`).
`DeleteLinks`, `ForEach`, `CutElements`, `CopyElements` and `Text` are recursive. That the function such a definition chooses exists, and that a fact holds along it, is shown by
induction on sets of numbers (`Induction`, `Along`, `AlongSubsets`, `StepsExist`, `FoldExists`), which rests on the library's least counterexample (`WFMin`).

The hypotheses of `DependenciesHeld`: one thread issues requests, it waits for each and asks for no reinitialization and no disable
(`RequestsWait`), and no chain of dependencies has more than two links (`TwoLinks`); otherwise the graph is any.  `life_dependency` is the smallest such
instance.  None can be dropped: with two threads, with requests that do not wait, and with a chain of three links TLC finds a node that comes
up while its dependency goes down, which `Node.cpp:941` passes over.  In the long chain the workers in its middle are the second requester: a
request to deinitialize returns when the dependents have been told, while theirs have not.

`InOrder == Padding = 0 /\ \A u \in Users : KeepsOrder(u)` says how the buffer is used: nobody asks for padding (every
`ScrollingBuffer<...>` in the code has the default), and a user either takes values away or changes the size (to one that is not zero).  The three
users of `scroll_log` are of this kind.  The two together are what the code gets wrong
(`ScrollingBuffer.hpp:636`, see above), so that the hypothesis cannot be dropped.

`OneRun == ~Timeouts /\ Modes = {FALSE} /\ MaxStarts = 1 /\ WokenBehind` is a real restriction, not a convenience.  `WokenBehind` says which passes of
workers there may be at the start: those of nodes that have predecessors and stand behind all of them in `Order`, which is `m_nodes`.  The first run of a
flow is the usual case of such passes, because its nodes still have to be initialized; it is covered when they were created or loaded in the order of their links.  A
run whose nodes are initialized already wakes nobody (`Woken = {}`) and is covered in any order.  What is left out is a node that is awake and stands before its predecessor, and a
source that is awake: both do finish early (see above).  As to the rest: a worker
may still be in its finish check when a run is stopped; in a second run, or after a pass nobody asked for, it can
deregister at a moment when the executor has reset the counter or not yet counted it, and an unsigned counter
wraps.  PROJECT.json lists that as a hazard; TLC finds it when `CountAccurate` is checked with two starts.

`Undisturbed == OneRun /\ MaxStops = 0` is the run that `FinishedInTurn`, `NoDataLeft` and `TemporalOrder` are about (one that ends by itself).  With one stop
TLC refutes the last two: workers still push while the executor clears the queues of one node after the other, so that an item
stays behind, or is taken after a later one by a node that has been put back into real-time mode.  `DataInTime` says that each data file is in
order; the model has a source read what the file holds.

**Only model-checked.**  Liveness (`StatesServed`, `ReinitServed`, `ExecutionEnds`, `CallsReturn`, `WaitReturns`, `WriterProceeds`, `LoopEnds`), as TLAPS does not handle
`ENABLED`; the invariants of `FlowGraph` in sessions that load, with `LoadRestores` and `PasteLinksCopies` (where the links of copies lead depends on what recursive definitions compute); `FoundWereSent` of `PacketFinder` when a file is read again.

## Not modelled

* *Within the modelled parts:* notify callbacks and links of pins that are not flow pins during a run of `FlowNodes` (`PinValue` has
  them apart from a run); firable conditions, priorities, blocked and dropped queues and several output pins outside of the flow of `InsGnssLoop`;
  creating and deleting links while threads run; exceptions out of `initialize()`; in `FlowGraph` the types of pins, several pins on one side of a
  node, damaged files; in `InsGnssLoop` a `PosVelAttInitializer` that is fed with data, the time source
  `timeSinceStartup` of the integrator (`ImuIntegrator.cpp:530`, `545-565`; off by default), observations without a time tag, which are ignored (`ImuIntegrator.cpp:320-324`), the rounding of a time
  (`LooselyCoupledKF.cpp:745-760` compares with `_lastPredictTime`, which has been through a double and is equal within the epsilon of `InsTime`; `RecvInertialNavigationSolution` compares the times themselves), and `TightlyCoupledKF`, whose loop has the same form but takes
  observations from several pins.
* `TsDeque` is used as a FIFO whose operations are atomic; its mutex is not modelled.  Iterators, `max` and `min`
  of the scrolling buffer do not change it.
* The packet finder of VectorNav sensors is in a library that is not part of the repository; the callback timer is a thread with a flag that only one
  thread uses.
* *Out of reach or without state:* navigation algorithms (real numbers), decoders, the other
  nodes beyond their contract with the worker, drawing, configuration and logging.

## Plan

1. `NodeStates`, `NodeLifecycle`: done, with its proofs.
2. `FlowNodes`, `FlowExecutor`: done, with its proofs.
3. `BoundedLog`, `ScrollingBuffer`: done, with its proofs.
4. `FlowGraph` (`Pin.cpp`, `NodeManager.cpp`, `FlowManager.cpp`, `GlobalActions.cpp`): done, with proofs for flows that are not loaded.
5. `PinValue` (`Node.cpp`, `Pin.hpp`): done, with its proofs.
6. `PacketFinder` (`UbloxUartSensor.cpp`, `EmlidUartSensor.cpp`, `KvhUartSensor.cpp`): done, with its proofs.
7. `InsGnssLoop` (`ImuIntegrator.cpp`, `LooselyCoupledKF.cpp`): done, with its proofs.
8. To come: pins that block or drop and several output pins in `FlowNodes`; `AppLogic` on top of `FlowExecutor`; links that change while a flow runs.

Theorems to come: the invariants of `FlowGraph` for the files on which they hold.
