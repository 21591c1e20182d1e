# SphericalDirectDrive: specification, model checking and proofs

The repository is the host program of a spherical direct drive. It talks to the
drive's controller over a Windows COM port in small binary packages, and runs on
an event loop of its own. This directory models the parts of it that carry state
and order: the event loop with its mutex, the package format, the buffer that
looks for packages in a byte stream, the asynchronous serial port, and the worker
that reads the drive and sends it commands. Paths are relative to the repository.

## 1. Inventory

| Component | State | Operations | Interaction |
|---|---|---|---|
| **EventLoop** `src/event_loop/EventLoop.cpp` | `events_map` (multimap type → handler, registrar), `time_events`, message `queue`, `isRun`, `mutex_global` | `addEvent` (two), `delEvent`, `sendMessage`, `run`, `stop` | any thread calls it; `run` calls handlers with the mutex released; handlers call it back |
| **Mutex** `src/serial/Mutex.cpp` | a recursive Windows mutex | `lock`, `release` | used by EventLoop and Buffer |
| **Event** `src/event_loop/Event.cpp` | type, list of handlers | `execute`, `addHandler` | called by `run`; swallows exceptions |
| **Timer** `src/event_loop/Timer.cpp` | a point of time | `setPeriod`, `isRang` | polled by `run` in every cycle |
| **Connector** `src/event_loop/Connector.cpp`, `createConnector` | weak pointer to the loop, id | `sendMessage`, `registerEvent`, `resetEvent` | keeps the loop alive for the length of a call; calls it with its own registrar id |
| **IMessage** | type | `getType` | queued in EventLoop |
| **Field, Message, Package** `src/serialization/`, `src/sdd_protocol/Package.cpp` | bytes of named fields | `fill`, `toBinary`, `fromBinary`, `hash` | the base of the package kinds |
| **State, Position, Mode, Light, PackageFactory** | – | getters, setters | kinds of Package |
| **PackageBuffer** `src/sdd_protocol/PackageBuffer.cpp` | circular buffer of bytes | `addBytes`, `formPackage`, `flush` | State, Package |
| **Serial** `src/serial/Serial.cpp` | handle, two OVERLAPPED structures, `internal_buffer`, the user's buffer and how much of it is filled, `async_write_started` | `open`, `close`, `read`, `write`, `isReadAlready`, `isWriteAlready`, `flush`, setters | the driver completes its operations at any time |
| **AsyncSerial** `src/serial/AsyncSerial.cpp` | two flags, two handlers | `async_read`, `async_write`, two polls | polls Serial from two timers of the loop |
| **ComWorker** in `src/main.cpp` | file, console handles, `light_state` | `readFromComPort`, `consoleCommands`, commands | AsyncSerial and a timer of the loop |
| **Buffer**, **BinaryBuffer**, `plot_sdd_position.py` | – | – | without a caller, or pure output |

What is hard here:

* **Handlers run outside the lock.** `run` keeps two iterators over `events_map`
  (and one over `time_events`) while it releases the mutex, and everybody,
  the handler included, may then change the container (EventLoop.cpp:72-95).
* **Order across the mutex.** Registrations, resets and messages of several
  threads meet a dispatch that is half done.
* **`isRun` without a lock**, written by `stop` and by `run` itself.
* **Portions.** An asynchronous read is a chain of `ReadFile`s that come back
  with any number of bytes, none included; each is sized by what is missing.
* **One OVERLAPPED for two operations.** `open` leaves a `WaitCommEvent` under
  way in `sync_read`, which all reads share.
* **A stream without frames.** Bytes are lost or altered, and packages are found
  again by id, length and check sum.
* **Exceptions in the middle** of a handler, after part of its work: a command is
  refused while a write is pending, and what it had still to do is left out.
* **Requests that fail.** `ReadFile` is called without a look at its result, and the
  polls do nothing when `GetOverlappedResult` fails (Serial.cpp:304, 322, 347, 473): what was
  started stays started.
* **A console that waits.** `std::getline` keeps the loop's thread until a line is entered.
* **State kept twice**: AsyncSerial's flags mirror what Serial has under way, and
  `light_state` mirrors the light of the drive.
* **The end.** The owner lets go of the loop while other threads are inside it.

What makes each part correct: the loop delivers each message once, in order, to
the handlers that were there, keeps its lock discipline and starves nobody; the
package format gives back what was put in and recognises damage; the buffer is
the newest part of the stream and finds a package that is in it; the port hands
out every byte once and in order, inside the user's buffer; the worker reads on
whatever the line brings, finds the frames again, and sends what it accepted;
Connectors keep their users apart and never reach a loop that is gone.

`main()` as it stands is a trial of Serial; the lines that start the loop and a
ComWorker are commented out at its head (main.cpp:268-272). The models take the
program they make up, as the tests under `src/tests` and the classes do.

## 2. Modules

| Module | Models | Notes |
|---|---|---|
| `Mutex` | Mutex.cpp | INSTANCEd by `EventLoop` as `Mtx` |
| `EventLoop` | EventLoop.cpp with Timer, IMessage, the span of `Event::execute` | one action per operation and per step of `run` |
| `Dispatcher` | – | the abstract contract of the loop: no threads, locks or iterators |
| `PackageFormat` | Field, Message, Package and the kinds of package as constants | constant operators only |
| `Package` | two packages and a line that damages bytes | extends `PackageFormat` |
| `PackageBuffer` | PackageBuffer.cpp | extends `PackageFormat` |
| `Serial` | Serial.cpp, `Mode::ASYNC`, and the driver | |
| `Connector` | Connector.cpp, `create`, `createConnector` and the destructor of EventLoop | extends `EventLoop`: the loop with its users |
| `AsyncSerial` | AsyncSerial.cpp | extends `Serial`; operations and polls, no `Next` of its own |
| `AsyncUser` | AsyncSerial with any user: all of its operations, at any time, also from handlers | extends `AsyncSerial` |
| `ComWorker` | ComWorker in main.cpp, the cycle of its three timers, the line and the drive | extends `AsyncSerial` |
| `MC…` | – | constants for TLC |
| `EventLoopProofs`, `ConnectorProofs`, `PackageFormatProofs`, `PackageProofs`, `PackageBufferProofs`, `SerialProofs`, `AsyncUserProofs`, `ComWorkerProofs` | – | theorems and proofs |

### EventLoop

`events_map` is the list of nodes behind an `unordered_multimap`: nodes of a type
are adjacent, a further one goes behind the last of them, and a new type goes to
any place between two types, because its place depends on the hash. A node is
`[rid, type, conn]`; the number `rid` is the order of insertion and stands for the
address of the node, so that an iterator is a `rid` or `End`.

The loop's thread has a program counter. `LockCycle` is line 70; `RunTimer`,
`HandlerReturns`, `RelockTimer`, `TimersDone` are 72-80; `TakeMessage` or
`QueueEmpty` 82-85; `RunHandler`, `HandlerReturns`, `RelockEvent`, `MessageDone`
86-97. A step is what happens between two places where another thread can see a
difference, that is, at the mutex and at `isRun`. A call of the interface is
`MakeCall` (it waits for the mutex), `Acquire` and one action for its body, made by a
client at any time, and by the loop's thread while it executes a handler.

`wild` says that an iterator `run` still uses has been invalidated, by an insert
that reallocates a full table (`Buckets`, `GrowthFactor`) or by an erase. When
the loop then goes on, it is in `"undefined"`: nothing is claimed of what it does.
The safety properties therefore speak of the executions in which that does not
happen, and `loop_iterators` shows that it can. `owed`, `ran`, `takenAt` and `stopped` are
history variables; `takenAt` is the last number given when the loop took its message, so that
`OwnTypeUnlessNewer` can say of a handler of another type that it was registered after that.

`Stop` is a single write, and `CheckRunning` a single read, of `isRun`. It is an
unprotected `bool`; between two reads `run` calls the mutex, so that a compiler
has to read it again, and the model reads the value of the moment.

### Connector

`Connector` is `EventLoop` with its users: an owner, which holds the loop, calls `run`
and lets go (`LetGo`), and clients, each with a Connector that it has made with the
loop lent to it. `createConnector` is three steps, since nothing protects
`last_id_connector`: `LoadId`, `StoreId` and `MakeConnector`, whose id is what was
written or what is in the counter by then (`make_shared` passes the reference on).
`Concurrently` says whether two clients may be in it at once.

`Ask` is the head of each operation of ConnectorImpl: `event_loop.lock()` succeeds (`LockLoop`),
and the call of `EventLoop` begins; `Return` is the body with the end of the temporary pointer.
When nobody holds the loop (`Alive`), it has been destroyed, and every operation returns false
(`Expired`), as `sendMessage` does at once with a null message. `run` and `stop` are called
through the owner's pointer. `via` and `by` record whose Connector is used and who registered
what.

### PackageFormat, Package, PackageBuffer

A kind of package is its id and the sizes of its fields; a byte has `Base` values and the check
sum is computed modulo `Base`, by subtraction as in Package.h:40-47. `Package` sets fields to
numbers, which become bytes as the setters make them (`ToBytes`) and come back as `Field::to`
reads them (`FromBytes`: a short has a sign, a byte has none), sends the binary form over a line
that alters, loses or adds bytes, and parses what arrives into a package that holds older
contents. `PackageBuffer` keeps `LastBytes` of old and new bytes, and `FormPackage` is the scan of
PackageBuffer.cpp:15-34: its candidate test sums one byte less than the check sum does, and
State's constructor then applies the exact test and may throw.

### Serial

The n-th byte that arrives is the number n, so that loss, repetition and exchange
are visible. `rx` is the driver's queue. With the timeouts that `open` sets,
`ReadFile` ends at once with what is there: `count` bytes in `internal`, the event
`signalled`. `ReadAlready`, `ReadOn` and `Overrun` are the three ways
`isReadAlready` can go once the event is set: a full buffer is handed out, the
rest is asked for, or the copy loop passes the end. `CommEvent` completes the
`WaitCommEvent` of `open` in the same structure; Windows leaves its byte count
undefined, and it is any member of `EventCounts` (the usual driver reports the four
bytes of an event mask).

Any request may fail. `ReadFile` may fail at once or later (`RequestFails`), and `WaitCommEvent`
later (`WaitFails`): both leave sync_read in an error that every poll takes for "not yet"
(`readError`), so that nothing goes on, unless the port event of `open`, which uses the same
structure, is still to come. A `WriteFile` that fails at once throws and is one of the refused
writes; one that fails later (`OutputFails`, `writeError`) is never seen by `isWriteAlready`.
 The failures of `open` are `OpenFails`, `ConfigureFails`
and `EventsFail`; they differ in what they leave behind. `held` is the handle the
process really has, known to it or not: `close` never gives it back.

`Configure` stands for the setters, which all refuse an open port:
`internal_buffer_size` is kept, because every `ReadFile` is sized by it, and all
other settings are one value that `open` hands to the device. There is one device,
so `setPort` is left out, and `open` never uses the value of `setTimeout`.

### AsyncSerial, ComWorker

`AsyncSerial` wraps `Serial`: `AsyncRead`, `AsyncWrite` and their refusals are its two
operations, `ReadNothing`, `ReadPortion`, `ReadComplete`, `WriteNothing` and
`WriteComplete` the ways its polls can go. All of them run in the loop's thread.

`AsyncUser` adds a user about whom nothing is known. `running` is the handler that a
poll has called; while it runs no other poll comes, and the user may call everything,
the next read or write included; a handler ends by returning or by throwing
(`HandlerReturns`), which makes no difference to AsyncSerial. `asked` are the handlers
given since the last write that was accepted.

`ComWorker` has a program counter for that thread: the constructor (`SetUp` or `SetUpFails`,
`FirstFlush`, `FirstRead`), then the read poll with `readFromComPort` (`Show` or `ParseError`,
then `ReadNext`), the write poll, and `consoleCommands`, in the order in which their timers were
registered. `Key` is the "c" that begins a line, and in `"typing"` the thread waits in
`std::getline`; what is entered is one of `Entered`. Between any two calls of Serial the driver
and the line go on (`Arrival`, `Sent`), and requests fail (`Failure`). The drive sends packages
without a pause, so that byte n belongs to package (n - 1) ÷ `PackageSize`, and `Whole` says that
a buffer is one package: State's constructor is taken to refuse all others, since what the check
sum misses is the matter of `Package`. A command is accepted (`SendCommand`), refused by a pending
write or by `WriteFile` (`CommandRefused`: `command_position` catches the exception and the flush still comes, from
all others it escapes to `Event::execute`), or writes nothing (`OtherCommand`). `command_light`
toggles `light_state` before it writes (`Toggle`), also when the write is then refused, and leaves
it alone when it sends a number, which may say on or off as well (`PackagesOf`): `told` is what
the last package for the light says of `light_state` (`"neither"` before the first); `coils` and
`lamp` are what the drive does, which is unknown until it has been told: it obeys a package when
all of it has been sent. `aligned` is a history variable: since the last re-synchronisation no
input was dropped and no port event counted in the middle of a package.

## 3. Runs

| Run | Instance | Shows |
|---|---|---|
| `loop_reset` | 2 clients + handlers, 2 types, 2 registrars, 4 calls, table of 2 nodes | `MutexInv`, `DeliveredToAll`, `RegistrationOrder`, `OwnTypeUnlessNewer`, and that the loop implements `Dispatcher` |
| `loop_live` | `Connector` with 2 clients that get their Connectors one after the other, all operations, 3 calls, fair | `LivesWhileUsed`, `ForeignHandlersStay`, `MessagesTaken`, `CallsReturn`, `StopObeyed` |
| `package` | bytes of 3 values, fields of 1 and 2 bytes, numbers in and beyond their range, up to 2 damages | `RoundTrip`, `OneAlterationFound`, `RefusedWithoutTrace` |
| `package_buffer` | packages of 4 bytes, buffer of 6, streams of up to 9 in all cuts | `BufferIsNewest`, `PackageCameIn`, `PlainPackageFound` |
| `serial` | `AsyncUser`: `internal_buffer` of 2 or 3, reads of 1 and 3, 3 bytes, 2 opens, 2 line settings, any request may fail, fair | `NothingLost`, `InOrder`, `OverrunOnlyByEvent`, `SettingsHold`, `FlagsAgree`, `AnsweredByOwn`, `ReadsFinish` |
| `com_worker` | packages of 2 bytes, 6 bytes of line, 2 commands, a port event that counts 1 byte, any request may fail, fair | `FlagsAgree`, `AlwaysReading`, `ShownInOrder`, `InStepIsWhole`, `NeverOverruns`, `LampInStep`, `CoilsOffAtEnd`, `CommandsGoOut` |

and the violations, each a place where the code does not do what the repository
says of it:

| Run | Property | What happens |
|---|---|---|
| `loop_iterators` | `IteratorsValid` | `events_map` reallocates under the iterators of `run` (TODO at EventLoop.cpp:88) |
| `connector_ids` | `ForeignHandlersStay` | two threads in `createConnector` at once get one id, and one resets the handler of the other (EventLoop.h:18-19) |
| `loop_reset_all` | `ResetRemovesAll` | `delEvent` stops at the first match; EventLoop.h:52 says all |
| `loop_stop` | `StopTakesEffect` | `isRun = true` at the head of `run` overwrites a `stop` that has just been made |
| `package_found` | `PackageFound` | the scan's sum is one byte short: a valid State with R ≠ 0 is not found |
| `serial_overrun` | `NoOverrun` | a port event is counted as bytes read and the copy leaves the buffer |

Findings that need no run: a handler can get a message of another type (EventLoop.h:71),
when its type is registered during the dispatch and lands before the end `run` has
remembered; `OwnTypeUnlessNewer` says that it cannot be otherwise. EventLoop.h:72-74
passes the message a handler returns on to the next, and Event.cpp:42 drops what
handlers return. `test_package.cpp:63` expects the check sum to be the
sum of the bytes (55), and the code subtracts them (201). The setters ask the user
to close the port first (Serial.cpp:50-51), but `close` compares `hWinSerial` with
itself and never closes it (358). After one failed request of the port nothing goes on:
`ReadFile` failing at 473 or 322, or `GetOverlappedResult` at 304, leaves
`buffer_write_when_read_com` set, so that no poll reads on and every later read is
refused as "already started"; a failure at 347 does the same to writes. No doc or test
speaks of it. `ReadsFinish`, `AlwaysReading`, `CommandsGoOut` and `CoilsOffAtEnd` say
what is left: reading and writing go on for as long as no request has failed.

`ForeignHandlersStay` is in two runs: it holds when Connectors are made one after the other, as
`main` and the tests do, and not otherwise. `LampInStep` says what is left of the toggle when a
"light" is refused, or a "light 0" was sent: the next one may change nothing. `CoilsOffAtEnd` has
the condition that the port outlives the loop until its output has been sent: `ProcessEnds` is the
other case, in which "exit" leaves the coils on. An "exit" that is refused does not stop the loop
at all, and `CoilsOffAtEnd` would fail if it did.

`serial_overrun` and `NeverOverruns` belong together: Serial allows an overrun, and
ComWorker does not meet it, because the port event of `open` comes no later than
the first byte, when nothing of the first package has been gathered, and counts
no more bytes than a package has (`WorkerAssumption`: four, of 36, with the usual
driver).

**Bounds.** `MaxCalls` limits calls of the loop: four are enough for two handlers, a message and a
reset or registration in the middle of its dispatch, by any two threads, and for a table of two
nodes to be full. `loop_live` uses three, which leaves room for a message and a waiting client
behind a timer that rings for ever. The loop takes a message in one step, so more messages only
repeat it. Two Connectors and a registration and a reset are what `ForeignHandlersStay` needs.
Clients are interchangeable, and so are event types, and `loop_reset` reduces both by symmetry.
`MaxDamage` 2 is the first number the check sum cannot promise to find. `MaxStream` 9 overflows
the buffer of six and holds two packages, in all alignments. In `serial` one read is larger than
`internal_buffer` and one smaller, and three bytes are enough for the larger one in portions, for
several of the smaller, and for a flush in the middle; one handler, and none, are what a refused
write can exchange. In `com_worker` the port event counts half a package when it hits the first
read, so that reading starts out of step, and none when it comes before it; six bytes are then
enough for the bad buffer, the flush of the parse error in the middle of a package, one more
resynchronisation and a whole package, and two commands for one to be refused by the other or to
flush in between.

**Fairness.** `loop_live`: the loop's steps are weakly fair (its thread is
scheduled and handlers return), and so are the bodies of operations; waiting for
the mutex is strongly fair, for the loop and for callers, although the loop locks
again as soon as it has released: a Windows mutex that is released with threads
in its queue goes to one of them. Clients need not call, timers need not ring.
`loop_stop` uses the same fairness. `serial`: the loop calls both polls in every cycle
(AsyncSerial.cpp:7-8), and handlers return. The polls are strongly fair because a
handler that one of them has called stands in the way of the other again and again;
what a poll looks for stays there until it comes. The user, the line and the driver
owe nothing: the driver may fail a request, and a failure is never owed either. `com_worker`:
the loop's thread is scheduled, its handlers are called in every cycle, and the driver sends
what it was given or gives it up; keys need not be pressed, bytes need not come, and a line
that was begun need not be entered. `CommandsGoOut` assumes that it is (`[]<>(pc # "typing")`),
since otherwise no poll comes any more.

Deadlock is checked in every run. When the calls are used up the loop still
cycles, or has not been started; a handle can always be closed; a buffer can always
be searched. In `com_worker` a program that has ended rests (`Rest`).

## 4. Proofs

TLAPS checks these for all values of the constants, from the assumptions `ThreadAssumption`,
`SizeAssumption`, `OpAssumption`, `CreationAssumption`, `FormatAssumption`, `ValuesAssumption`,
`BufferAssumption`, `SerialAssumption`, `HandlerAssumption` and `WorkerAssumption`, which say no
more than what kind of thing each constant is, and how they hang together: the id of a package is
a byte and its first field is one byte long (PackageFormat), there is an id for every client, as
`last_id_connector` is an `int` (Connector), and a port event counts no more bytes than a package
has (ComWorker).

* `EventLoopProofs!TypeCorrect`, `MutexDiscipline`: `Spec => []TypeOK` and
  `Spec => []MutexInv`. Neither is inductive. A lock by the loop keeps `MutexInv` only
  if its thread is not inside a call of its own (`LoopIdle`); the body of an
  operation is typed only if its call is there (`CallsPresent`), and gives a number
  only if one is left: the numbers given plus the calls under way are at most
  the calls made (`NumbersLeft`, a cardinality). `IInv` is the conjunction; there
  is one lemma per operation, and the steps of `run` are grouped by what they do to the
  mutex: they lock, release, or leave it.
* `EventLoopProofs!NoHandlerMissed`, `HandlersInOrder`, `ForeignOnlyIfNewer`, `KeepsContract`. The
  invariant `Dispatching` gives the two iterators of `run()`, while they are valid, places p <= q
  in `events_map` (`InPlace`): every handler owed the message that has not run lies from p up to
  q, or behind p while the handler at p runs, and what lies there is of the message's type or
  registered since it was taken (`takenAt`), and younger than what has run of its type (`Ahead`).
  An insertion between the two moves q, one before p moves both, and an erased place makes the
  loop wild, which it can only be met with in a handler (`WildInHandler`). It needs the shape of
  the `multimap`: the nodes of one type are adjacent and in order (`Grouped`), which the place
  that insert chooses keeps, and numbers that are always new (`NumbersOld`). `LeastNat` (a set of
  naturals has a least one) gives the first place of a type. Then each step of the loop is one of
  `Dispatcher` or none: leaving a message is `Leave` by `NoHandlerMissed`, and running a handler
  is `Handle` because it has not run before.
* `PackageFormatProofs`: what the operators of the binary form compute, for every range of a byte,
  id and table of sizes. `Span`, `Offset`, `Hash`, `Magnitude` and the library's `FlattenSeq` are
  recursive functions. `RecursionTo` shows that a function with such an equation exists up to any
  bound, and so is the one that CHOOSE takes; `Induction` is over a set of naturals, which is well
  founded, and needs no operator as a parameter. From these: `MagnitudeOfNumber` (n bytes keep of
  a number its remainder, negative or not), `BinaryFormAccepted` (the binary form passes the tests
  of `fromBinary`, and each field comes back from its place, `FlattenPlaces`), and
  `OneByteRefused`: each step of the check sum is one-to-one in the sum and in the byte, so that
  two buffers that differ in one byte have different sums from there on (`HashFindsOneByte`).
* `PackageProofs!FormKept`, `NumbersArrive`, `AlterationFound`, `NoTraceOfRefused`. `RoundTrip` and
  `OneAlterationFound` speak of the moment after `Receive`; the invariant adds what is on
  the wire before (`OnTheWire`: undamaged it is the binary form, with one alteration it differs in
  one byte, with one loss it has another length), what the fields hold (`Holds`), and
  what the copy holds afterwards (`Arrived`). `NoTraceOfRefused` is the action property
  `RefusedWithoutTrace`: the length alone tells a loss, whatever else was altered.
* `PackageBufferProofs!KeepsNewest`: `Spec => []BufferIsNewest`, for every capacity (0 included)
  and pieces longer than the buffer. The step is arithmetic on positions: old buffer and new bytes
  together are the end of the new stream, and `LastBytes` is the end of that. `BufferTypeKept`,
  `FoundCameIn` and `PlainFound` add what the last `formPackage` has answered (`Answered`). A
  candidate has the length and the id of a package, and so only its check sum can be wrong
  (`CandidateOutcome`); a window of the buffer is one of the stream (`WindowInStream`); and a
  valid package whose R is zero is a candidate, because the byte that the scan's sum leaves out
  changes nothing (`PlainIsCandidate`).
* `SerialProofs!SerialTypeCorrect`, `SettingsStay`, `CopyStaysInside`. `SInv` adds
  to the three that what has been gathered fits (`GotFits`) and that what the `ReadFile`
  under way has moved still fits behind it, while no port event hit the read
  (`PortionFits`). The second is where `Asked` counts; without `SettingsHold` a
  `ReadFile` could move more than `internal_buffer` holds.
* `SerialProofs!NothingIsLost`, `OrderIsKept`. `Received` is the concatenation of what was
  handed out, gathered, moved and left in the queue. Each step on a port in use leaves it
  as it is, appends the next byte or purges its end; there is one lemma per step about that
  (`ReadReceived`, `ReadOnReceived`, …). `Fresh` says that a port which never had its
  device holds nothing of an earlier use: `open` succeeds at most once, since `close`
  does not give the handle back.
* `AsyncUserProofs!RefinesSerial`: each step of AsyncSerial and its user is one of
  `Serial` or none, so that all of the above holds with any user. `UserTypeCorrect`,
  `FlagsAlwaysAgree` (inductive alone) and `OwnHandlerAnswers` (from `HandlerAsked`: the
  handler of a pending write is one that was asked for since) are about the wrapper.
* `ConnectorProofs!RefinesEventLoop` does the same for `Connector` and `EventLoop`.
  `LoopLivesWhileUsed` needs that exactly the threads in `createConnector` or in a call hold
  the loop (`HoldersInside`), so that no return takes the pointer of another call, and that the owner
  holds it during `run` (`RunKept`). `ConnectorTypeKept` needs that no id is
  higher than the number of Connectors begun (`IdsCounted`), which holds although two threads may be
  in `createConnector`: a lost increment makes ids too low. `ForeignHandlersKept` has the hypothesis
  `~Concurrently`: then ids are distinct (`IdsDistinct`, from what the counter and the one
  client in `createConnector` know of each other), every node carries the id of
  the Connector it came through (`NodesOwned`), and every call its own (`CallsOwn`);
  `SetErase` says that `delEvent` removes nodes of one registrar only.

* `ComWorkerProofs`: all safety properties of `ComWorker`. Each of its steps is one of `Serial` or
  the end of the process (`StepOfPort`), so that `SInv` holds here too. A request that fails
  counts no bytes (`FailurePort`) and takes none away (`FailureKept`). `ReadStaysInside` needs
  more than Serial gives: where the loop's thread is tells what the port is doing (`Stage`),
  nothing has come before the port event of `open` (`Quiet`), and so the bytes it counts fit into
  the read it hits (`Room`). `KeepsReading` follows from that and `WorkerFlagsAgree`.
  `LampFollows` and `CoilsEndOff` are about the package on its way (`CommandInv`): it is known
  until it is out, one that was given up lets no other follow, and the lamp is on its way to what
  the last toggle left. `PackagesInOrder` and `FramesFound` are about byte numbers (`ByteInv`):
  what was received rises, but for zeros the port event may add before the first byte (`Rising`);
  the last byte of each package shown is behind; and in step the rest goes on with the first byte
  of a package (`InStep`), which a flush between two packages sets up when what has arrived is a
  number of whole ones. Quotients and remainders are unique (`DivisionUnique`), and so the first
  byte of a whole buffer gives its number.

Model-checked only: liveness (`MessagesTaken`, `CallsReturn`, `StopObeyed`, `ReadsFinish`,
`CommandsGoOut`), because the prover does not treat fairness and ENABLED. Every
invariant and every action property of the passing runs is proved.

## 5. Not modelled

Big-endian packages (`Message::toBinary` never ends for them: `size_t i >= 0`), copies
and moves of `Field`, getters and setters, console and file output, `setPort` and
`setTimeout`, clocks. No code uses the synchronous mode of Serial, though it is the default; its read
never copies `tmp_buffer` to the user's buffer (Serial.cpp:442-459). Several handlers
in one `Event`: no code registers such an Event. The memory of an
asynchronous write, the life of the object AsyncSerial's polls are bound to, what a
`std::function` that is replaced while it runs keeps alive, and the stack variable
`state` that `WaitCommEvent` still points to after `open` has returned, are outside the
state. `CreateEvent` failing is left out: the code tests for a value it never returns.
`Buffer` does not compile and is not built, `BinaryBuffer` is commented out, and the plot
is not part of the program's behaviour.

## 6. Plan

In this order:

1. **Core** (done): `Mutex`, `EventLoop`, `Dispatcher`, `PackageFormat`, `Package`,
   `PackageBuffer`, `Serial`; type correctness, the lock discipline and the
   content of the buffer proved.
2. **`ComWorker`** on `AsyncSerial` (done): the commands, the flushes and the next read.
3. **`AsyncUser`** (done): handlers replaced before a call that may throw, handlers that
   start the next operation. In `ComWorker` (done): the toggle of the light, the coils.
4. **`Connector`** (done): the life of the loop behind a weak pointer, ids given without
   a lock against "protects others' handlers" (EventLoop.h:15-20).
5. **Proofs** of the port, its wrapper and the Connectors (done).
6. **The loop implements `Dispatcher`** (done).
7. **Proofs about `ComWorker`** (done): all of its safety properties.
8. **Proofs about the packages** (done): the binary form, the line that damages it, and the
   scan of `PackageBuffer`.
9. **Left**: that ComWorker's `Whole` agrees with the check sum and the scan of a stream of real
   packages; a contract of `AsyncSerial` without portions, as `Dispatcher` is one of the loop.
