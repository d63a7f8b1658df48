# Plugin_SM_Fighting: specifications and proofs

TLA+ models of the code in this repository, checked with TLC on small instances
and, where the property does not depend on the size of anything, proved with
TLAPS for every value of the constants. Two programs live here: a fighting game
whose moves are chosen by state machines over the player's input, and RiderLink,
JetBrains' editor plugin, whose protocol library `RD` has the repository's real
concurrency.

## 1. The system

### The game

| component | state | operations | interacts with |
|---|---|---|---|
| `BasicStateMachine` plugin: `USM_State`, `USM_Transition` | none: assets are read-only; a run has a current state, an index into the input, a step budget | `RunState`, `LoopState`, `TryTransition` | called by `UFGMoveLink::TryLink` |
| `FGStateMachine` module: `UFGState`, atoms | none | `LoopState` override (skips a whole frame of input) | the runner |
| `UFGInputTransition` | none | `TryTransition` override (always fails) | the runner |
| `UFGMove`, `UFGMoveLink` | none: assets | `TryLinks` (links in order), `TryLink` (cancel windows, then the machine) | called by the pawn's `Tick` |
| `AFGDefaultPawn`, input | `ButtonsDown`, `ButtonsDown_Old`, `DirectionInput`, the parallel arrays `InputStream` and `InputTimeStamps`, `CurrentMove`, `TimeInCurrentMove` | button and axis callbacks, `Tick` (sample, prune, try links, clear or consume, enter a move or let time pass) | the engine calls callbacks and ticks on one thread |
| `AFGGameMode`, `AFGCameraActor`, `BeginPlay` / `UseGameCamera` of the pawn | `MainGameCamera`, `Players`, the pawn's timer | `StartPlay`, `BeginPlay`, the retried `UseGameCamera`, the camera's `Tick` | order of spawning, possession and timers is the engine's |
| `Content/`, `Config/` | | assets and key bindings | the values of the constants |

What is hard: the pawn's two arrays are cut by three different rules (expiry
counts frames, clearing takes everything, consuming counts atoms), while the
number of atoms consumed comes out of a designer's state machine that reads one
atom at a time and may loop by one atom or by three. Callbacks fall between any
two ticks. Recursion has no explicit bound.

What makes each part correct: a run returns what its graph says, in priority
order, within its budget, and reads on with each call; the buffer always consists
of whole frames, fresh, in order, with a consistent story for each key; a link is
followed only in its window, the first that qualifies wins, input is used once;
nothing crashes; every fighter reaches the camera once.

### RiderLink

| component | state | operations | hard behaviour |
|---|---|---|---|
| `ByteBufferAsyncProcessor` | `data`, `queue`, `pending_queue`, three sequence numbers, `interrupt_balance`, life-cycle state | `put`, `pause`, `resume`, `acknowledge`, `start`, `stop`, `terminate`, a worker thread | three locks, failed sends, replay after a reconnection, stop with a timeout |
| `SocketWire` (client, server), `PkgInputStream` | socket, `max_received_seqn`, heartbeat time stamps | connect and accept loops, send, receive, acknowledge, ping | lost connections, duplicates, restarts of a process |
| `MessageBroker` | subscriptions, queues of messages that came before their handler | `dispatch`, `advise_on`, the queued actions | state read without the lock, buffered against direct deliveries, handlers that disappear |
| `ExtWire`, `RdExtBase` | connected flag, queue of unsent messages | Ready / ReceivedCounterpart / Disconnected handshake, `send` | messages before the counterpart is there, a send outside the lock |
| `RdProperty`, `RdMap`, `RdList`, `RdSet`, `RdSignal` | value and version | local and remote changes | both sides change at once |
| `RdCall`, `RdEndpoint`, `WiredRdTask` | pending tasks, the id of the running `sync` | `start`, `sync`, answers, cancellation | an answer, a timeout and the end of a lifetime race |
| `LifetimeImpl` | ordered actions, terminated flag | `add_action`, `remove_action`, `attach_nested`, `terminate` | terminate against add, nested lifetimes on other threads |
| `SingleThreadScheduler` on a `ctpl` pool | task counter, task queue, done flag | `queue`, `flush`, `stop` | the worker's sleep against pushes and the stop |
| `RiderLink`, `RiderGameControl` | connection, `RdIsModelAlive`, the model, play mode | start-up, connections, requests and replies, play settings | three threads, objects that are reset while calls on them are queued |
| `RiderBlueprint`, `RiderLogging`, `RiderShaderInfoDump` | | text passed to the model | |

How they interact: an entity's change goes through the extension (`ExtWire`) to
the wire's send buffer; the peer's wire hands each message to the broker, which
gives it to its entity on the entity's scheduler; the entity is subscribed and
undone by actions of lifetimes. The wire's thread, the scheduler's thread, the
worker of the buffer and the game's thread are different threads.

What makes each part correct: no message is lost or reordered on the way, sides
that change something at once end up equal or are told, a result is final, a
waiter is released, a lifetime runs everything that was added to it in reverse
order, what is queued is run, and nobody is left with a model that is gone.

## 2. Modules

| module | models | notes |
|---|---|---|
| `SMState` | the runner with its two subclasses | assets are the constant `StateAsset`; one step is one call of `RunState`; five actions for the five ways a call goes on. `Reference` is what the recursion returns, as a recursive function over the remaining input. Its lemmas are used by every proof about a module that runs it |
| `SMRun` | one call from outside, any entry state, input and budget | adds the caller's `entry` and `budget` |
| `FGPawn` | callbacks and `Tick` of the pawn, `TryLinks`, `TryLink` | instantiates `SMState` with the input buffer as `DataSource` |
| `FGBuffer` | what the pawn promises of its input, abstractly: a queue of frames, one record per frame | sampled at the back; a taken link clears it or takes some frames off the front |
| `FGPawnBuffer` | the refinement mapping from `FGPawn` to `FGBuffer` | `ImplementsQueue` |
| `FGMatchStart` | `StartPlay`, `BeginPlay`, `UseGameCamera`, the camera | |
| `RdSendBuffer` | `ByteBufferAsyncProcessor` and the threads around it: putters, its worker, the wire's thread (connect, resume, acknowledge, pause), the end of the lifetime | a message is the number of its put |
| `RdWire` | `RdSendBuffer` and the peer that reads its packages | late packages of broken connections, duplicates, restart of the sending process |
| `RdSides` | the two ends of a wire, named by role (`Sides`) or by place (`Peers`) | |
| `RdProperty`, `RdMap`, `RdList` | the three entities with a state to agree on | both sides, an ordered wire between them |
| `RdCall` | one call and its endpoint: `sync`, `start`, answers, the end of its lifetime | |
| `RdExt` | an extension on both sides: handshake, `ExtWire::send`, flush of the queue, end of life | |
| `RdBroker` | `MessageBroker` for one id, with three kinds of scheduler | |
| `RdLifetime` | `LifetimeImpl`: a lifetime and one nested in it, several threads | |
| `RdScheduler` | `SingleThreadScheduler` and its pool's one thread | |
| `RiderLink` | the module `RiderLink` and `RiderGameControl`: connections, requests, play mode | |
| `MCRiderLink` | the parts above the wire, checked together | see below |
| `Assets`, `MCSMRun`, `MCFGPawn`, `MCFGPawnLoose`, `MCFGPawnShipped` | constructors and content for TLC | |
| `SMRunProofs` | theorems about `SMRun` | section 5 |
| `FGPawnProofs` | about `FGPawn`, and that it implements `FGBuffer` | |
| `FGMatchStartProofs` | about `FGMatchStart` | |
| `RdWireProofs` | about `RdSendBuffer` and `RdWire` | |
| `RdEntityProofs` | about `RdProperty`, `RdMap`, `RdList` and `RdExt` | |
| `RdThreadsProofs` | about `RdCall`, `RdScheduler` and `RdLifetime` | |
| `RiderLinkProofs` | about `RiderLink` and `RdBroker`, and about all parts above the wire together | extends the two above and `MCRiderLink` |

`FGPawn` is composed with `SMState`, `RdWire` with `RdSendBuffer`. `MCRiderLink`
is a sum and extends all of its parts, whose names are apart for that reason:
messages go to one entity by its id, so the parts above the wire share
no variables. In the run a behaviour is one of one part while the others rest
(`part` is chosen in `Init`); their product is out of TLC's reach. The proofs close
that gap: `Together` lets the steps of all parts mix in any order, contains what the
run checks (`OneIsTogether`), and each of its steps is a step of the parts that move and
a stutter of the others, so what is proved of a part holds of all of them at once.
What they assume of each other is a property of a neighbour: the entities assume an ordered wire, which is what
`HeardInOrder`, `HeardOnceInOrder` and `NoGap` say of the extension, of the broker
and of the wire (up to the finding `wire_lost`); `RiderLink` assumes that a
scheduler runs what is queued in order, which is `QueuedIsRun`.

### Correspondence: the game

`RunState` is tail recursive: it returns, or returns what one further call
returns. So a run is a behaviour whose state is the arguments of the call in
progress, and `CompletionType` is `"Running"` until a value is returned.
`DataIndex` stays 0-based as in the code.

A tick is several steps, and `pc` says how far it has come: `input` (between
ticks: only then do callbacks run, everything is on the game thread), `prune`,
`links` (the head of the loop of `TryLinks`), `run` (inside `RunState`), and
`crashed` after a failed `check`, a null dereference, or a `RemoveAt` past the
end of an array. Intermediate states carry no meaning for another thread; they
exist so that the runner's steps and the state it sees can be spoken about.

Abstractions, all of the data:

- Time is in whole units. The code only compares a time stamp with the current
  time, so the model keeps `InputAges[i] = CurrentTime - InputTimeStamps[i]`, to
  which a tick adds its length. `TimeInCurrentMove` saturates at `TimeCap`; a
  window that should stay open for ever ends at `TimeCap`.
- The bit masks of buttons are sets; atoms are names; the stick takes a few
  positions around the threshold.
- `Shipping` says whether `check()` and `UE_LOG` are compiled in: both matter,
  `UE_LOG` because its arguments dereference pointers.
- The mapping to `FGBuffer` reads one frame off every third atom, and leaves out
  the frames at the front that have expired but are not pruned yet (`Stale`): so
  the concrete `Sample` is the abstract one, expiry included, and `Prune` is a
  stutter. The abstract queue is choosing while `pc` is not `input`. It promises safety only.
- `DoMove` is a Blueprint event and plays an animation.
- In `FGMatchStart` the engine (spawning, possession, timers) is external; a
  timer of the next tick is an action enabled from then on.

### Correspondence: the link

Every step is a stretch of code that runs under one lock, or up to the next call
that may wait or be interleaved with another thread. A lock is a variable only
where it is held over more than one step (the pool's `mutex` in `RdScheduler`);
elsewhere the guards say who may hold it.

- `RdSendBuffer`: `lock` is held for more than one step only by the wire's thread
  in `pause` and `resume` (`LockIsFree`), `queue_lock` and `processing_lock` by
  `process` and `reprocess` (`WorkerProcesses`, `WireReprocesses`), and
  `in_processing` is never seen true by a thread that has `processing_lock`. The
  step that unlocks also notifies. A send is one step: over an open connection
  the package arrives on `line`, over a lost one the send fails; a connection may
  be lost at any time. The peer acknowledges what it reads, in order.
- `RdWire`: `put` makes one package of one message. Of what the peer has not read
  when a connection breaks any number of packages still arrives (`late`) and is
  read before the next connection. `aligned` is FALSE from the moment
  `read_package` returns `true` for a duplicate and its caller takes it for a
  length of one: what an out-of-step peer makes of the following bytes is not
  followed further, it acknowledges and dispatches nothing that counts.
  `overtaken` remembers that the worker has sent ahead of `reprocess` (an
  interleaving of its own, after which numbers no longer order messages) and
  restricts `NoGap` and `ForgottenIsDispatched`. A restart begins with an empty
  buffer and number 1 while the peer lives on.
- `RdProperty`, `RdMap`: the master is the side whose `is_master` is set. A set of
  the value an entity has fires nothing. `RdMap` has one key, entries of different
  keys do not affect each other; `pendingForAck` points to a key that may be gone,
  and then a look-up may or may not find it (`IsPending`). `missed` remembers
  that one has not found it, `again` that the master has changed the key once
  more before its acknowledgement: `MapConverges` is conditional on both.
- `RdList`: one event per element as `ViewableList` fires them, each with a
  number. `reported` is the failed assertion on the number, after which a build
  without assertions goes on. `addAll` adds two different elements. `Stages` are
  the list after each event of a call; the caller's list is the last of them.
- `RdBroker`: `dispatch` under its lock; the action it queues in the steps between
  which it holds none, the move of the `Mq` (line 92) and its erase (line 93) among them.
  `swept` has the messages that `dispatch` has put aside in between, in a `Mq` that
  goes with them: they are lost. `undefined` marks the use of an erased entry, by a
  queued action or by a `dispatch` that had found it before the erase
  (`DispatchToErased`), or of a null subscription, and the model stops there.
- `RdExt`: `send` hands a message on in a second step, because it has given up its
  lock; the queue is flushed under it.
- `RdCall`: `sync` waits on the scheduler's thread; `refused`, `failed` and
  `touched` remember what has happened. The endpoint answers from its handler.
  A result is set in two steps, by three threads (`Setters`): `set_if_empty` looks and
  keeps in `to_set` what it is about to set, `Sets` sets it. When the lifetime ends,
  cancellation and an answer under way can so replace each other; `settled` has the
  tasks with a result before that.
- `RdLifetime`: what a thread is in the middle of is a stack of frames, since an
  action may terminate another lifetime. A map is the set of its actions, with their
  ids; the one with the greatest id runs next (`Latest`). `terminated` is set without
  the lock and tested under it. A `bracket` is an `add_action` behind a check. `raced` (the
  parent's map used by two threads, one of them without its lock) and `unwound`
  (an action's exception) restrict `LifetimesEnd`; nothing is said behind a race.
- `RdScheduler`: the pool's mutex guards the worker's sleep, not the queue, so a
  push falls between the worker's look and its sleep unless it waits for the
  notification. Actions queued while or after the pool stops are dropped but stay
  counted (`Stranded`). An action may queue but neither flush nor stop, which an
  assertion and a join with oneself exclude.
- `RiderLink`: actions of the `Scheduler`, tasks of the game thread and the wire's
  thread. The constructor of `FRiderGameControl` has four steps, between which the
  game thread runs: it adds its handler (line 362, in `OnConnected`), reads the
  settings, stores `playMode` (`Unwritten` before), and tells it. `freed` remembers that
  something queued, or a change begun under another one, has used a
  `FRiderGameControl` after its reset; `crossed` that a change by Rider and one by the
  user were under way at once, or that the user's fell between reading and storing
  (lines 445 and 446) or was the second since the handler was added and before the
  reading. Then what the constructor stores or tells is older than what the handler
  has stored, and Rider may keep the old mode.

Variables such as these (`overtaken`, `again`, `touched`, `heard`, `owed`, ...) are
history: no state of the code. No guard reads them, but for `raced`,
`undefined` and `freed`, at which a model stops.

## 3. Runs

| run | instance | shows |
|---|---|---|
| `runner` | 4 states with every kind of transition and both loops, all inputs up to 4 atoms over 3, budgets -1, 0, 1, 3 | `RunMatchesReference`: every call returns what the recursion over the remaining input (`Reference`) returns, and a budget only turns it into `OutOfSteps`, exactly when it is too small; `BudgetSpent`; `RunAdvances`: on a cyclic graph too each call reads further on, which is why the recursion ends |
| `fighter` | aligned content (jab, two-frame motion, cancel window, link without machine), both axes, both buttons, ticks of 1 and 2, expiry 1 | `NeverCrashes`, `InputIsFresh`, `PressEdges`; `PressesConsumed` (a followed press leaves the buffer, so with `PressEdges` one press starts one move); `FirstLinkWins`: the link that is followed is the first one in a window whose machine, by `Reference`, accepts the buffer; `ImplementsQueue`: the parallel arrays behave as `FGBuffer`'s queue; `FireballEnds`. The link jab to jab clears the buffer, the others consume |
| `loose` | content the editor admits but that accepts in the middle of a frame, has null links and links without a move; development build | `StreamsInLockstep`: the checks stop the pawn before its arrays disagree. Without `check(DataIndex % 3 == 0)`, as in a shipping build, they do |
| `shipped` | the assets of `Content/`, milliseconds, 4 ticks a second | violated `JabIsTaken`, see findings |
| `match_start` | all settings, all outcomes of the engine's calls | `NoFighterForgotten`, `MatchGetsGoing` |
| `send_buffer` | 3 messages, 3 connections | `NothingLost` (pending, queue and data together hold every message from `current_seqn` on, once, in order), `NeverCrashes` (no pop from an empty deque), `PutFlushes` (no lost wake-up), `StopEnds` (the lifetime ends even when `stop` times out) |
| `send_buffer_stuck` | 2 and 2 | violated `ConnectedSends`, see findings |
| `wire` | 2 messages, 2 connections, a restart of the sender | `NoGap` (the broker gets messages in order, from the first on, without a gap), `ForgottenIsDispatched`, `FirstConnectionIsExact`, `PutArrives` |
| `wire_lost` | 2 and 3 | violated `SentIsDispatched`, see findings |
| `rider_link` | the parts above the wire, each on a small instance | below |
| `sync_call` | 3 calls | violated `SyncInvokes`, see findings |
| `broker_ended` | 3 messages | violated `EndedIsNotCalled`, see findings |

In `rider_link`:

| part | instance | properties |
|---|---|---|
| `property` | 2 values, 4 sets by either side | `PropertyConverges` |
| `map` | 2 values, 4 changes by either side | `MapConverges`: open to both sides in the end unless a look-up has missed the number because its key was gone, and equal unless the master changed it again before the acknowledgement. Otherwise it can end up different: the two conditions are needed |
| `list` | 2 elements, 3 operations by either side | `ListsDifferOnlyReported` |
| `broker` | 4 messages, 3 kinds of scheduler | `HeardOnceInOrder`; on a scheduler other than the default one up to `swept`, the one way to lose a message |
| `ext` | 2 messages from each side | `HeardInOrder`, `NothingIsStuck` |
| `call` | 2 calls | `SuccessIsClean`, `ResultIsFinal` (a result had before the call's lifetime ends is not replaced), `CallsEnd` |
| `lifetime` | 2 threads, 5 calls, a nested lifetime | `LifetimesEnd` |
| `scheduler` | 2 threads and the worker, 3 actions | `QueuedIsRun`, `FlushEnds` |
| `rider` | 2 connections, 1 request, 2 changes by the user or Rider; settings that a mode stands for and settings with 6 clients in a mode of play that has no number; Rider asks for mode 44 | `AliveModelIsCurrent`, `RequestIsAnswered`, `RiderKnowsMode` |

Bounds. With expiry 1 and ticks of 1 the pawn's buffer holds two frames, so
pruning of none, one and two frames, consuming of one of two, and runs over two
frames all happen; a motion of two frames with a press fits. `loose` has expiry 2,
so three frames. `TimeCap` 3 leaves time before, inside and behind every window.
In the runner four atoms are enough for a looping `UFGState` (stride 3) to jump
past the end from each of the last positions.

Three messages and three connections let a message be acknowledged, one be
pending and one fail, and let a replay be cut short and be done again. End to
end, two of each let one message be dispatched and its acknowledgement be lost,
which is what every duplicate comes from. Four sets of a property are two crossing
pairs; four changes of a map entry are a pending change, one that is refused, a
removal and a return. Four messages let the broker have buffered ones, one in
delivery, and one that is put aside meanwhile. Five calls on two threads let a
lifetime be nested, get actions, and both be terminated at once. Two connections
let the second come before the first one's end is carried out.

Deadlock is checked in `fighter`: a pawn can always go on. It is not where the
system may stop: a finished run, a pawn in a failed check, a match that has
started, a wire whose lifetime is over, peers who need not send.

Fairness. `WF_vars(Tick)`: the engine ticks each actor every frame and a tick
once begun runs to its end, being one C++ call. Nothing is assumed of callbacks.
`FireballEnds` needs content with a link that needs no input and whose window
does not close, as the shipped moves have. In `FGMatchStart` timers and actor
ticks are fair, and so is the engine's possession of the fighters it spawns for
players. In `RdSendBuffer` and `RdWire` the worker, the wire's thread, the thread
that ends the lifetime and the peer are scheduled, and a send returns because the
peer reads or the connection is lost; nobody has to put, to connect or to end
anything, and connections need not hold. In `RdExt` both sides create the
extension. In `RdCall` an answer under way arrives, but an endpoint need not
answer. In `RdScheduler` the worker and each thread inside a call go on. In
`RiderLink` the scheduler's and the game's threads go on. `MCRiderLink` assumes
less than its parts do: threads of one part do not all stop while one of them has
something to do, and a waiting `flush` looks again.

## 4. Findings

- `shipped`: `UFGInputTransition::TryTransition` (`FGInputTransition.cpp:3`)
  returns `nullptr` for everything, against `FGInputTransition.h:16-31`; the shipped
  machines are made of it, so no link out of `Idle` is ever followed.
- `send_buffer_stuck`: a message whose first send fails stays in `queue`; resuming
  sends only `pending_queue` again and the worker waits for new `data`. Over a
  connection that lasts it is not sent until the next `put`, against the
  promise of `send` at `IWire.h:36`. `PutFlushes` is what holds.
- `wire_lost`: for a package it has had before `read_package` acknowledges and
  returns `true` (`SocketWire.cpp:325`), which its caller takes for a length of one
  byte. The peer is out of step with the messages from then on, acknowledges all
  and dispatches nothing more, so the sender forgets messages that never arrived.
  `NoGap`, `FirstConnectionIsExact` and `PutArrives` say what holds until then.
- `sync_call`: `sync` gives the call free on `RdCall.h:84`, a line that the throwing
  `value_or_throw` and `unwrap` of line 83 skip: after one timeout or fault every
  later `sync` is refused (line 126), against `RdCall.h:67`. `SuccessIsClean` is what
  holds.
- `broker_ended`: `subscriptions[id]` in `dispatch` enters a null, and the check for a
  disappeared handler (`MessageBroker.cpp:28-37`) counts entries. After the next
  dispatch an entity whose lifetime has ended counts as there and is called.
- Of `loose`: the comment at `FGDefaultPawn.h:84` requires the two arrays to be
  updated together. On consuming that rests on `check(DataIndex % 3 == 0)` at
  `FGDefaultPawn.cpp:189`, absent from shipping builds.

Met while modelling and not followed by a run: between two ticks a press and
release of the same key leaves no trace; with `DirectionThreshold` 0, which the
editor admits, a centred stick is forward; time stamps are single-precision game
seconds; `RdEndpoint.h:115` captures a reference to a local in an action that may
outlive it; `RiderGameControl.cpp:225` compares with the index of the wrong loop.

## 5. Proofs

All theorems hold for every value of the constants, under assumptions that TLC
evaluates on every instance: `ContentAssumption` (assets have the types the
editor enforces, the initial move exists, as `BeginPlay` tests; lists may hold
null entries) and `NumberAssumption` (naturals where the editor clamps, ticks
longer than 0) of `FGPawn`, `CallerAssumption` of `SMRun`, `BoundAssumption` of
`RdSendBuffer`, `ActionsAssumption` of `RdScheduler`, `MessagesAssumption` of
`RdBroker` (the bounds are natural numbers). The theorems about calls (`Bound`:
`MaxCalls` is a natural number), those about `RiderLink` (`Chosen`: settings and
modes have their types) and those about all parts (both) have a hypothesis
instead; those about entities, extensions, lifetimes and the start of a match have
none. The bounds only end behaviours: each theorem says it for any of them.

### The game

`SMState` proves what one call does: `StepOfRun` (it goes on behind a valid
index, one step poorer, by one atom or by a loop's stride, or returns without
moving) and `RunStepType`. `Reference` is the recursion of `RunState` itself, as
one recursive function over index and state. Such a definition is a `CHOOSE`, so
`ReferenceExists` has to be proved first: what is read lies behind, so the
outcomes are determined from the end of the input backwards (`FromTheEnd`,
induction by the least counterexample). `ReferenceStep` compares one call with it.

`SMRunProofs`: `TypeCorrect`, `Advances` (an action property), `NearEnd`
(inductive with the type invariant: only a call behind a valid index moves the
index, by at most 3), `Budget` (the strengthening: the steps spent are at most
the atoms read), `MatchesReference`: each call, and so the run, returns what the
recursion says (`OnReference`: what it says of the caller is what it says of the
call in progress and the steps spent since).

`FGPawnProofs`:

- `TypeCorrect` and `OpenLinks` (a machine runs only for a link in one of its
  windows) have one inductive invariant: while a machine runs, the link in
  progress is open, the state is an asset. Nothing between the test of the window
  and the end of the run changes time or move.
- `FirstQualifies`: `FirstLinkWins` for every content. `LinksInv`: the links
  tried so far do not qualify, and the run in progress is on its way to the
  verdict of `Reference` about the whole buffer.
- `Lockstep`, for development builds: sampling, pruning, clearing keep whole
  frames, and `check` guards consuming.
- `NoCrash`, for every build: if the states of the content can be labelled with
  their place in a frame (`AlignedBy(Phase)`) and no link is null or without a
  move (`LinksComplete`), no check ever fails and no array is cut beyond its
  end. The invariant `InPhase`: the index of the running machine is congruent to
  the label of its state modulo 3. Because a machine can return an index past
  the end (`IndexNearEnd` says by how much), one also has to see that an accepting
  state stands on a frame boundary, where a looping `UFGState` overshoots by nothing.
- `Freshness` and `Presses` hold wherever the arrays are in lockstep; the
  strengthenings `AgesInv` (ages strictly decrease, the newest is 0 during a
  tick) and `EdgesInv` (whole story of each key up to the last frame, compared
  with `ButtonsDown_Old`) survive cutting a prefix at a frame boundary.
- `PressesTaken`: `PressesConsumed`, for any content and in any build.
  `NeedsPress` is the largest set of states that a machine leaves only over a press
  and in which it does not accept. `PressInv`: a machine entered there either is
  still there or has a press among the atoms it has read (`WayOutReadsPress`), and a
  state that has accepted is one that accepts. So the press lies before the index the
  machine returns, and is cut or cleared; `CutCounts` maps the presses left one to one to
  those there were.
- `QueueImplemented`: wherever the arrays are in lockstep, `FGPawn` implements
  `FGBuffer`. Initial states map to initial states, and each step of each action
  to a step of the queue or a stutter: what `Stale` leaves out of the mapping is a
  prefix, because ages decrease (`AgesInv`), so ageing the frames leaves expired
  ones out, pruning them in earnest is a stutter, and what is consumed and cut is a
  whole number of frames at the front.
- `BufferInvariant`, `SoundContent`, `QueueInBuildsWithChecks` and
  `QueueWithSoundContent` combine them: without preconditions in development
  builds, and for sound content in every build.

`FGMatchStartProofs`: `NobodyForgotten` is `NoFighterForgotten`. `StartInv` adds what
makes it inductive: while `StartPlay` runs the camera's list is empty, so that the
timer `BeginPlay` arms is that of a fighter not yet on it, and only a complete fighter plays, so that one
that destroys itself has no timer. That two fighters take two places at most follows.

### The wire

`RdWireProofs`, for any number of messages and connections. First the sender:
`TypeCorrect`, `NoCrash`, `Numbering` (a sequence number stands for the message
of that put, on every connection), `Complete`. They have one inductive invariant
(`Inductive`). `InOrder`: each container is a run of consecutive numbers that
begins where the one before it ends. `NumbersSent`: nothing above `Highest` was
sent or acknowledged, where `Highest` is one more than `max_sent_seqn` while the
worker has sent a package and not yet recorded it. `Balanced`: the buffer is
paused except while the wire receives. The point is `DropAcknowledgedStep`:
reprocess waits until the worker is not between sending and recording, so what
is acknowledged is at most `max_sent_seqn`, and pending.

Then both ends, with any number of restarts: `InOrderWithoutGap`,
`NothingForgotten`, `FirstConnectionExact` (an action property). `WireInductive`
has the invariant `WireInv`. `Places`: where the threads can be on a connection.
As long as the worker has not sent ahead of reprocess (`overtaken`), `LineInOrder`: a
connection carries the messages from `current_seqn` on without a gap;
`AcksCounted`: the acknowledgements of a connection are counted one by one. If the
peer also reads the bytes in step (`aligned`), `LateInOrder`: what is still to come
of broken connections comes in its place; and `PeerFollows`: what the sender takes
for received is dispatched. So a package the peer reads is at most one ahead of the
last. `FirstConnection`: nothing else is read while a process has its first
connection. When the two conditions fail, messages can be lost: see findings.

### The parts above the wire

`RdEntityProofs`, for any values and any number of changes:

- `PropertyTypeCorrect`, `Converges`, `MasterIsKept` (a master's value under way is
  the master's own). `PropertyCounted`: the versions on the way to the slave count on
  from the slave's to the master's. `NotAhead`: nothing on the way to the master is
  newer than what the slave has received. So while a change of the master's is under
  way whatever arrives is rejected; and when none is, the last message of the newest
  version is the slave's value (`SlaveKeeps`).
- `EntriesConverge` (from `MapInductive`): `MapConverges` with its two conditions. `NumberUnderWay`: while an
  entry is closed to the slave, the number or its acknowledgement is under way,
  unless a look-up has missed it. `OneChange`: without a second change
  there is one number under way, and the message that carries it has the master's
  entry. `LastTells`: once it is taken, the last message to the master tells it the
  slave's entry.
- `DifferOnlyReported` (from `ListInductive`), for any elements. `BothCount`: the
  counters plus what is under way agree. `ListsFollow`: as long as nothing has been
  reported, messages under way in one direction only lead from the one list to the other, and are
  numbered as expected (`Expecting`); if they have crossed, the next
  number is an old one and will be reported (`Crossed`). What a call does to its own
  list and what the other side does event by event is compared on `Stages`, a
  recursive function like `Reference`, by induction on the number of events: for
  `removeAll` this needs that indices go down.

- `ExtTypeCorrect`, `HeardFromTheFirst`, for any number of messages. For each side, `Kept`: the queue holds the
  last messages given to `send`, or one is about to be handed to the wire, and those
  before have been passed on. `NoneBefore`: nothing is passed on before the other side
  is bound, because only its `Ready` or its answer connects. `UnderWay`: while the
  other side lives, what was passed on and not heard is on the wire, in order,
  between the messages of the handshake. `Quiet`: who is not bound sends nothing.

`RdThreadsProofs`:

- `CallTypeCorrect`, `CleanUntilFailed`, `FirstResultStays`, for any number of calls.
  A request has one answer, which is in one place (`OnePlace`: request, on its way,
  queued on the scheduler, or held by the thread that is about to set it), so a task
  that was destroyed with its result has none coming; until a sync fails the task of
  `sync_task_id` is waited for (`NoneFailed`). `FirstResultStays` is about look and set as
  two steps, so it does not follow from the look: `Decided` says that no thread holds
  anything to set for a task with a result in time (`InTime`: the lifetime lasts, or it
  is among `settled`). That needs that only one answer comes, and that the cancellation
  looks only once `settled` is fixed.
- `QueuedActionsRun` (from `SchedulerInductive`), for any threads and actions.
  `MutexHeld`: the worker holds the mutex from its look at the queue to its sleep.
  `PushedOnce`: an action is pushed by the one caller that numbered it, and `queue`
  returns after that. `RunInOrder`: what was pushed is what has run and what is
  queued. `TasksCounted`: `tasks_executing` counts what was given to `queue` and has
  not ended. `LeavesLast`: between the worker's look at the queue and its decision to
  leave there may be another push, but no return of one.
- `LifetimesEndInOrder` (from `LifetimesInductive`): `LifetimesEnd`, for any threads,
  calls and actions. `Shape`: what a thread can be in the middle of, so a terminate
  waits at most for that of the nested lifetime. `NoneLost`: while no exception ends a
  terminate early, each id that was given out is that of an action in the map, of one
  left to a terminate, of one that has run, or of one that was taken out (`Somewhere`).
  `TakenOnce`, `OneTaker`: once an action has run nothing is added, and only one thread
  has actions of a lifetime left to run, though several may be in its terminate; so what is
  left is earlier than what has run (`LatestFirst`). `NestedKnown` and `NestedEnds`
  follow the two actions by which a nested lifetime and its parent know of each other:
  the parent's, once run, has ended the nested one or is about to set its flag; the
  nested one's, once run, has left nothing with the parent.

`RiderLinkProofs`, for any number of connections, requests and changes:

- `LinkTypeCorrect`, `AliveIsCurrent`. The point is the order on the scheduler:
  connections are announced in order (`Numbered`), and while a model is alive "lost"
  is queued before any "connected" (`LostFirst`), because a connection is made when
  the last one has ended and a model that is alive has asked to be told
  (`AliveIsNotified`).
- `RiderIsTold`: `RiderKnowsMode`. `ModeInv`: as long as nothing has crossed
  (`crossed`), a thread in the handler carries the mode of the present settings,
  outside it `playMode` is that mode, and the last "tell" queued for a control that
  lives tells it. While a `FRiderGameControl` is made (`Constructs`, `Making`) `playMode`
  may be unwritten, or be what a handler on the game thread has stored and queued, and
  the constructor carries or will read the mode of the present settings (`MakesRight`).
- `NoSecondReply`: `RepliedOnce`, the safety half of `RequestIsAnswered`. `OnceAtMost`: a
  request that has no reply yet is in one place at most, an action of the Scheduler or a task
  of the game thread, and one that has a reply is in none.
- `DispatchedIsHeard` (from `BrokerInductive`): `HeardOnceInOrder`, for any number of messages. `EachIsTaken`:
  the actions queued on the default scheduler that take a message of this `Mq` and
  the messages it keeps correspond one to one and in order, and an action that
  carries a message itself lies where it belongs among them. `DefaultInOrder`: what was executed,
  what is kept and what is carried rises. `OneStop`: for other schedulers, a message
  is in one place. `HeardComes`: what was dispatched to a subscriber is in a place from where it is
  executed, or was put aside between move and erase (`swept`). `PlacesUsed`: which places a scheduler uses.
- `PartsTypeCorrect` (`PartsTypeOK`, also for the run's own specification) and
  `PartsAreSafe`, which has all safety properties of the run, are about `Together`. They
  follow from the conjunction of the parts' invariants (`PartsInv`), each of which is
  that of the part alone: the parts share no variable, which is what the lemma
  `EachImplemented` uses.

### Only model-checked

- Liveness, since liveness under fairness is out of the prover's reach: `FireballEnds`,
  `MatchGetsGoing`, `PutFlushes`, `StopEnds`, `PutArrives`, `NothingIsStuck`,
  `CallsEnd`, `FlushEnds`, the second half of `RequestIsAnswered`. Every safety
  property of a passing run is proved.
- The runs `shipped`, `send_buffer_stuck`, `wire_lost`, `sync_call`, `broker_ended`,
  which refute.

## 6. Not modelled

Of the 55,000 lines of implementation 33,000 are third-party libraries under
`RD/thirdparty` and 7,000 are generated marshalling code; neither has logic of this
repository. Of the remaining 15,000 most are containers, serializers, hashing,
logging, editor user interface and templates that only forward. The models stand
for the parts of it that keep state.

- Of the game: floating point; positions, angles and animations; replication (the
  code has none); pawns destroyed or respawned by Blueprints after the match has
  started (they would stay on the camera's list).
- Of the send buffer: `terminate`, which nothing calls, and `stop` before `start`.
- Of the wire: the heartbeat (nothing in this repository reads `heartbeatAlive`); what
  a peer that is out of step makes of the bytes; sockets of bounded capacity, over
  which two sides that both send their pending packages again, each under its lock
  and before it reads, could wait for each other.
- Of the entities: `RdSet` and `RdSignal` (changes without a version, nothing to agree
  on but their order), nested entities, which generated code binds, and `InternRoot`.
- `awaiting_tasks` of `RdEndpoint`, endpoints that answer later; the listeners that
  `Property::set` fires when it has stored a result.
- What two threads do to one container at the same instant (the `Mq` that is moved out while
  `dispatch` pushes into it, a result that two threads store): each such access is a step.
- `SequentialLifetimes`; `SimpleScheduler` and `SynchronousScheduler`, which run an
  action where it is queued; `InternScheduler`, which promises no order; pools of
  several threads and `stop(false)`, which are not used.
- Of the editor modules: the signals of play-in-editor and the `init` flag, fired in the
  same way as the mode; the cache of commands; `RiderLogging`, `RiderBlueprint` and
  `RiderShaderInfoDump`, which pass text on.
- Serialization, identities, logging, generated models, third-party libraries, build
  files.

What would come next: the two directions of a wire over bounded sockets; pawns
that leave a match.
