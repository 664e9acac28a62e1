# Verification project for mediasoup-client-swift

TLA+ models of the code in `src/Mediasoup` (the Swift API) and
`src/Mediasoup_Private` (the Objective-C++ wrappers around libmediasoupclient
and WebRTC), the TLC runs that check them, and TLAPS proofs about them.

## 1. The system

The library is a thin object layer. Its own logic is small; what is hard is
that native objects are owned by hand, that native threads call into Swift,
and that application code runs in the middle of native calls.

| Component | Code | State | Operations |
|---|---|---|---|
| Producing handshake | `SendTransport.swift`, `SendTransportWrapper.mm`, `SendTransportListenerAdapter.mm` | a promise per call, its block, the adapter made for the call | `createProducer`, `createDataProducer`, `onProduce`, `onProduceData`, the answer block |
| Transport lifecycle, send and receive | `SendTransport.swift`, `ReceiveTransport.swift`, their wrappers and adapters, `ProducerWrapper.mm`, `ConsumerWrapper.mm` and their adapters | `_transport`, its adapter, the native maps of producers or consumers, of media and of data, the weak delegates | `createProducer`, `createDataProducer`, `consume`, `consumeData`, `onConnect`, `restartICE`, `close`, `dispose`, `dealloc`, `onConnectionStateChange`; `close` and `dealloc` of a producer or consumer, `onTransportClose` |
| Track replacement | `ProducerWrapper.mm`, `Producer.swift`, `ConsumerWrapper.mm` | the track property, the native pointer to the track, the sender's track, the track's enabled flag | `replaceTrack`, `pause`, `resume`, `isPaused`, `track` |
| Sender parameters | `Producer.swift`, `ProducerWrapper.mm`, `WrappedRTPParameters+Internal.mm`, `RTPEncodingParameters+Internal.mm`, `RTPParameters.swift` | the parameters of the RTP sender, a copy per update | `updateSenderParameters`, `setMaxSpatialLayer` |
| Device capabilities and transport creation | `Device.swift`, `DeviceWrapper.mm` | the native `Device`: `loaded` and the capabilities; the adapter of a transport being made | `load`, `isLoaded`, `rtpCapabilities`, `sctpCapabilities`, `canProduce`, `createSendTransport`, `createReceiveTransport` |
| Audio session and device lifetime | `Device.swift`, `DeviceWrapper.mm` | the wrapper, the shared factory, its worker's queue, the audio device module | `init(captureAudioSession:)`, `init(pcFactory:)`, `retainAudioSession`, `releaseAudioSession`, `dealloc` |
| Data producers and data consumers | `DataProducerWrapper.mm`, `DataConsumerWrapper.mm` and their Swift classes | the native object and its adapter, the weak delegates | `consumeData`, `close`, `send`, `dealloc`, the events of the data channel, `onTransportClose` |
| Logger | `Logger.swift`, `LoggerWrapper.mm`, `LogHandlerAdapter.mm` | the static holder, the static adapter, the native handler pointer | `setHandler`, `setDefaultHandler`, `onLog` |
| Error conversion | `MediasoupClientErrorHandler.h`, `.mm`, `MediasoupClientErrorConverter.swift` | none | C++ exception to `NSError` to `MediasoupError` |
| Enumerations, library initialisation | `MediaKind.swift`, `LogLevel.swift`, ..., `MediasoupClientWrapper.mm` | none | total mappings; two calls |

How they interact. The application calls Swift objects from its own threads;
each passes the call to its wrapper, which calls libmediasoupclient inside
`mediasoupTry...`, so that a C++ exception becomes an `NSError` and then a
`MediasoupError`. In the other direction a native listener adapter, owned by
the wrapper and known to the native object by a raw pointer, calls a weak
delegate (the wrapper), which calls a weak delegate (the Swift object), which
calls the application's delegate. `createProducer` blocks its thread in the
middle of all that until the application answers `onProduce`. The state
callbacks come on the WebRTC signaling thread, on which closing a peer
connection waits, and so does every negotiation: making a producer or consumer,
closing one, restarting ICE. The tasks of the audio session run on the factory's
worker. A transport shares the factory with its device, and its native half
keeps raw pointers into the native `Device`.

What makes each component correct:

- *handshake*: the first answer decides; a blocked call can always be woken;
  the adapter of a call that fails is undone, and the RTP sender of one that is
  refused;
- *transport*: no freed memory is used whatever callbacks do, and no C++
  exception escapes; a producer or consumer hears of the transport's closing
  exactly once, unless it was closed before; the application is asked to connect
  once; disposing silences the callbacks, completes, and frees everything; no
  thread waits for itself;
- *tracks*: the property, the native producer and the sender agree between
  calls, the raw pointer to a track never dangles, and a pause outlives a
  replacement of the track;
- *device*: one version of the capabilities is in use; the adapter of a
  transport is freed exactly once on every path; the worker outlives the
  transports that share it;
- *sender parameters*: an update changes what its closure changed and nothing
  else, overlapping updates do not overwrite one another, and the layer limit the
  producer has noted is in force;
- *audio session*: the last call wins, in the order of the calls; no task
  outlives the wrapper it uses;
- *logger*: messages reach the handler that is set, no other, and no deleted
  adapter;
- *data producers and consumers*: every event of the channel reaches the
  application once and in order, none reaches a deleted object, and what is sent
  is sent.

## 2. Modules

| Module | What it is |
|---|---|
| `AnswerSlot` | abstract: a call is asked once, gets one answer or is abandoned, and its outcome is that answer |
| `ProduceHandshake` | the promise, block, future, adapter and sender of every call |
| `ProduceHandshakeProofs` | theorems about `ProduceHandshake` |
| `TransportContract` | abstract: a producer or consumer is made while the transport is open, closing closes them all, destruction comes last |
| `Transport` | a send or receive transport: calls as stack frames on several threads, re-entered from callbacks; native objects as live or freed |
| `TransportProofs` | theorems about `Transport` |
| `Tracks` | the references of a producer or consumer to its track, `replaceTrack` step by step, pause and resume |
| `TracksProofs` | theorems about `Tracks` |
| `AudioSession` | the worker's queue, what its tasks retain, `dealloc`, the shared factory |
| `AudioSessionProofs` | theorems about `AudioSession` |
| `Device` | extends `AudioSession`: `load`, the capabilities, the creation and the end of transports |
| `DeviceProofs` | theorems about `Device`, among them that it is an `AudioSession` |
| `LoggerHandler` | the three pointers, set one after the other, and the threads that log |
| `LoggerHandlerProofs` | theorems about `LoggerHandler` |
| `DataChannels` | the data channels of a transport: network, signaling thread, native objects, application |
| `DataChannelsProofs` | theorems about `DataChannels` |
| `SenderParameters` | read, edit, write back, with the conversions on the way |
| `SenderParametersProofs` | theorems about `SenderParameters` |
| `MCProduceHandshake`, `MCTransport`, `MCTracks`, `MCSenderParameters` | instances for TLC |

How they compose. `Transport` takes from `ProduceHandshake` that a
`createProducer` in progress ends (`CallReturns`) and how (`Get`), and keeps
only two stages of it: asking and waiting. `Device` EXTENDS `AudioSession`: its
two transports refine the one Boolean `transport` there (the factory is shared
while there is any), its steps are those of `AudioSession` or leave its variables
alone, and `DeviceProofs!DeviceIsAudioSession` proves that. `Tracks` takes the
closing of the transport as a step of its own that may come at any time.
`TransportContract` and `AnswerSlot` are implemented by `Transport` and
`ProduceHandshake`.

### ProduceHandshake

`stage[c]` is where the calling thread is: arguments checked and sender started
(`Send`), in the application's handler (`OnProduce`), blocked in
`future.get()` (`HandlerReturns`, `OnProduceUnheard`), returned (`Get`).
`promise[c]` is the `std::promise` of `SendTransportListenerAdapter.mm:40`;
`refs[c]` is what keeps it alive. The promise is a `__block` variable, so it
dies with the last copy of the block, and a promise that dies unset breaks its
future: `Unref` is that destructor. `Callback` is the body of the block: `set_exception` for nil,
`set_value` for an id, and the `future_error` of a second run is swallowed.
`GetId`, `GetNil` and `GetBroken` are the three ways `Produce` and `ProduceData`
go on, with the `catch` blocks of `createProducerForTrack` and
`createDataProducerWithLabel`. The two differ when the application refuses:
`Produce` stops its sender, `ProduceData` (the calls in `DataCall`) leaves the
channel it opened. `Thrown` composes `mediasoupTryWithResult` with
`convertMediasoupErrors`; the latter's case `mediasoup` asks for an underlying error,
which `mediasoupError` never puts there.

### Transport

A medium is a producer, consumer, data producer or data consumer; `DataMedia` are
the last two. A frame is one call on a thread's stack: the creation of a medium,
`restartICE`, the `close` of a medium ("shut"), `close`,
`dispose` or a state callback, and the place it has reached. A frame is pushed on
a thread only when the thread runs application code, on its own or in a callback,
so re-entrance comes out of the stack and not of special actions. `handle`,
`native`, `adapter`, `heard` are the wrapper's members; `closed`, `pcOpen`,
`registered`, `connected` and the media's `shut` are the native state. `Leave`,
`StateReturns` and `Release` model reference counting: a wrapper whose last
reference goes runs `dealloc`, and so `dispose`, at that point. Each direction
of transport is an initial state: the wrappers are the same but for the question
(`Described`).

A creation waits for descriptions of the signaling thread (`Negotiated`,
`Described`, `NotCreated`); with the first one in hand the native handler calls
`onConnect` through the adapter ("connecting"), unless the transport was closed
meanwhile, for which the native `OnConnect` looks at `closed` again and throws; from
then on the transport is connected. Only the first data channel needs a description
(`section`); the creation of a later one, which waits for nobody, reaches the
question also on a transport that is being closed. The wrapper keeps its promise when
the application returns from the handler, whatever it has started. The `close` of a
medium renegotiates too, with no
`try` around it, so it waits for the signaling thread and throws once the peer
connection is closed (`CloseMediumReturns`); that of a data medium only closes its
channel.

The native library is not under `src/`; from its use here and its public
source the model takes that `Close` sets `closed` first, closes the peer
connection (which waits for the signaling thread), then walks the map and calls
`TransportClosed` on each medium; that `Producer::Close` erases the map entry
and the destructor does not; that `Produce`, `Consume` and `ConsumeData` look at
`closed` before they negotiate and, but for `OnConnect`, not after; that
`ProduceData` does not look at it at all, but that a closed peer connection makes no
channel.

### Tracks

`native[p]` is the raw pointer of the native object, `property[p]` the wrapper's
strong reference (`ProducerWrapper.mm`), `sender[p]` the counted reference of the WebRTC sender or receiver.
`replaceTrack` is `BeginReplace` (the checks of `ReplaceTrack`),
`SetSenderTrack` (the handler, which waits for the signaling thread and does not
look at the sender's answer), `SetNativeTrack` (the pointer and the enabled flag)
and `StoreTrack`. `SetNativeTrack` does not look at `closed` a second time: the native
`ReplaceTrack` is past its check, and sets the flag on the track itself and not
through `Pause` or `Resume`. `pause` and `resume` are the enabled flag of whatever track
the native object has. Meanwhile the application lets tracks go, gets them back
from the property, enables and disables them; sources end; the transport closes.

### Device

`BeginLoad` is the check of `loaded`, `LoadEnds` the assignment of the
capabilities and, last, of `loaded`; in between the call waits for a peer
connection. `BeginCreate` parses the ICE servers outside the `try`, makes the
adapter and copies the capabilities; `CreateEnds` gives both to a wrapper that
shares the factory, `CreateFails` is the `catch` block. `MakeMedium` is what the
native transport does with its raw pointer into the native `Device` on every
`produce` and `consume`. `told`, `copied` and `agreed` are where the capabilities
went.

### SenderParameters

`Begin` is `GetParameters`, `Finish` the closure's return and `SetParameters`.
`RTPParameters` is the copy into Swift, with the fall-through of the switch in
`WrappedRTPParameters+Internal.mm:26`; `WriteBack` is the loop of
`updateRTPParameters`, which leaves `active` out; `IntValue` truncates to 32
bits. WebRTC accepts a `SetParameters` only for the last `GetParameters`;
`Accepted` models that and the range check of the bit rates. A `setMaxSpatialLayer`
is an update with the edit "limit" (`Limited`: the native handler counts the layers
from 1 to 3 and ignores any other). It returns at once if the producer has noted the
layer already (`Begin`), and notes it in a step of its own (`Note`) after the sender
has accepted it. The producer is an open video producer; on any other one the call
throws before it does anything.

### AudioSession

A task retains the wrapper when a method posts it and does not when `dealloc`
posts it. The wrapper dies when neither the application nor a task retains
it, on the thread that lets go; the factory dies with its last owner and joins
its worker. `module` is what the tasks last did to the audio device module.
`Device.swift:26-29` says that WebRTC starts and stops it too, as audio tracks come
and go; that is not modelled, so the properties are about the order and the loss of
the commands and not about whether the module runs at a given time.

### LoggerHandler

Every store of `setHandler` and `setDefaultHandler` is a step of its own, and
so are the load of the native pointer by a logging thread, the load of the weak
delegate, and the return of the application's handler. `span` is a history
variable: what was installed at some time since the message was logged.

### DataChannels

`channel[d]` is the data channel on the network, `posted` the FIFO queue of the
signaling thread, on which `RunEvent` passes an event from the native object
through the adapter and the wrapper to the application; `running` is the object
whose callback is in progress. The application acts on a thread of its own
(`"app"`) or in that callback (`"signal"`). `Drop` ends its last reference;
the wrapper's `dealloc`, which deletes the native object, runs then or when the
callback that retains the Swift object returns (`EventReturns`,
`OnTransportCloseReturns`). `TransportClosed` is one turn of the loop of the
transport's `Close`. `Send` changes nothing, since the body of the
wrapper's `send` is commented out. `EventsOf` and the tasks that die with an object
are given by positions in the queue (`TasksOn`, `Picked`): `Picked` selects by
counting, since the provers have no definition of the library's recursive
`SelectSeq`. Creation is one step; the question that
precedes a data producer is in `ProduceHandshake`.

From the native library the model takes that the destructor does not unregister
the observer, that `Close` and `TransportClosed` look at `closed` first, that
`Close` erases the map entry, and that state changes are reported whether the
object is closed or not.

## 3. Runs

| Run | Result | Question |
|---|---|---|
| `handshake` | pass, 4512 states | a call for media and one for data from two queues, answered on a third: does the first answer decide, does every call return, is anything leaked, and is it an `AnswerSlot`? |
| `transport` | pass, 92296 states | does a send or receive transport whose application keeps the eight duties below stay memory safe, connect once, inform its media exactly once, return from every call, free itself and keep the contract? |
| `transport_closed_while_producing` | violation of `DataProducersClosed` | what if a send transport is closed while a data producer is being made? |
| `transport_closed_while_closing` | violation of `NothingEscapes` | what if it is closed on one thread while a medium is closed on another? |
| `device` | pass, 36602 states | two threads load, ask, make two transports and let the device go while its audio session is retained and released: one truth about the capabilities, no leak, nothing freed in use? |
| `audio_captured` | violation of `MemorySafe` | the release that `dealloc` posts with `captureAudioSession` |
| `tracks` | pass, 251904 states | tracks replaced, paused, resumed, closed and let go from two threads |
| `logger_handler` | pass, 16751 states | handlers replaced while two threads log |
| `parameters_updates` | pass, 98376 states | two overlapping updates or layer limits: is any overwritten, does one alone take effect, and is the layer the producer has noted in force? |
| `parameters_preference` | violation of `OneEditAtATime` | the degradation preference after an unrelated update |
| `data_channels` | pass, 266262 states | a data producer and a data consumer: is every event heard once and in order, does an open object hear that its channel goes down, and is no freed object reached? |
| `data_send` | violation of `SendReaches` | what becomes of the data passed to `DataProducer.send`? |

### Duties of the application

The code puts most of the burden on its user, so the modules take a constant
that lists the duties a run assumes. Each is one conjunct of one action (or of the
actions that begin the same call). The passing runs assume what they need and
nothing else; each duty was lifted alone and TLC refuted the run:

| Module | Duty | Without it |
|---|---|---|
| `Transport` | `CloseBeforeDrop` | the map keeps a dangling producer, and the next `Close` calls it |
| | `NoCloseWhileCreating` | a medium enters a closed transport: a data producer in `transport_closed_while_producing`, the others alike |
| | `NoCloseWhileClosing` | the renegotiation of a medium's `close` throws out of the wrapper (`transport_closed_while_closing`) |
| | `NoDisposeInCallback` | `dispose` deletes the transport under the frames that called back |
| | `NoDisposeWhileCalling` | the same, from another thread |
| | `NoWaitOnSignal` | a call made in a state callback waits for the thread it runs on |
| | `ConnectAlone` | two first creations each find the transport unconnected, and `onConnect` is called twice |
| | `ReleaseSafely` | the last release in a callback runs `dealloc`, hence `dispose`, in that callback |
| `AudioSession` | `KeepTransport` | a task holds the last reference to the device and destroys the factory on the factory's own worker |
| `Device` | `LoadAlone` | the second `load` changes capabilities that are in use |
| | `SoundICEServers` | the exception of the JSON parser leaves the wrapper |
| | `KeepDevice` | `produce` reads the capabilities of a native `Device` that is deleted |
| `Tracks` | `OneCall` | a `pause` during `replaceTrack` is lost, and two overlapping replacements leave the three references apart |
| | `OwnTrack` | another producer on the same track pauses this one |
| `LoggerHandler` | `OneCaller` | two setters interleave and the pointers do not lead to one handler |
| | `QuietDefault` | the adapter is deleted before the native logger forgets it, and the next message runs through a dangling pointer |
| `SenderParameters` | `LimitAlone` | two overlapping limits are accepted in one order and noted in the other |
| `DataChannels` | `AwaitClose` | an object that is let go open stays in the transport's map, and the next `Close` visits it |

A duty rules a case out; the passing run says nothing about it. The hazards in
`PROJECT.json` that a duty rules out, in part or wholly, say so in their notes.

`KeepTransport` and `KeepDevice` together leave one safe order of letting go:
stop producing and consuming, drop the device while a transport is kept, then
drop the transports.

### What else was seen

These have no run of their own.

- In the trace of `transport_closed_while_producing` one thread creates a data
  producer, is asked to connect, sets the descriptions and asks for the id; another
  closes the transport meanwhile. The answer makes a producer that `Close` has not
  visited, and its delegate never hears `onTransportClose`.
- `transport_closed_while_closing` shows the close of a consumer
  (`ConsumerWrapper.mm:89-91`) or of a producer (`ProducerWrapper.mm:91-93`),
  whichever TLC reaches first; the code is the same.
- `DataProducerDelegate.swift:8` has `onClose` "Executed when the underlying
  DataChannel is closed for unknown reasons." The code calls it for every closing of
  the channel: after the application's own `close()` as well, and after
  `onTransportClose` (the wrapper passes on what the adapter hears, whether the object
  is closed or not). `NothingLost` takes the code's word: every event is passed on.
  `ClosureHeard` claims no more than the documentation, that an *open* object whose
  channel is closed by the other side or the network hears of it.
- A data producer that the application refuses with `nil` leaves its channel open
  (`GetNil`), where a refused producer of media stops its sender.
- `Producer.swift:82` calls the argument of `setMaxSpatialLayer` "The index of the
  entry in encodings"; the native handler counts the layers from 1. So 0 limits nothing, without
  an error, and is noted as the maximum; 1 leaves one encoding, index 0.
- On a device made with `init(pcFactory:)` the audio device module is null and
  the first task dereferences it (`OwnModule = FALSE`).
- Retain and release are not counted, so one balanced pair of calls stops a
  session that `captureAudioSession` started.
- A closure that returns more encodings than the sender has makes
  `updateRTPParameters` write past the native vector (`ProducerWrapper.mm:113-116`).
  The run `parameters_updates` has such a closure (`Lengthen`): it sets `ub`, and
  nothing is said of the program after that. `active` is never written back (`ProducerWrapper.mm:113`), so
  that a closure which sets `isActive` has no effect (with the edit `mute` TLC refutes
  `UndisturbedTakesEffect`).
- `SendHandler::ReplaceTrack` ignores that the sender refuses a track of the
  other kind: the call succeeds, the property changes and the old track is sent.
  `TrackFollows` and `PauseLasts` speak of tracks of the right kind.
- `getStatsWithError:` returns nil without an error (`ProducerWrapper.mm:167-169`,
  `ConsumerWrapper.mm:93-95`), which Swift turns into a throw: `getStats()` always
  throws, where `Producer.swift:102-106` documents a JSON string.
- Errors of `setMaxSpatialLayer`, `replaceTrack` and `getStats` do not pass
  through `convertMediasoupErrors`, and the creation of a send transport maps every
  exception to `InvalidParameters`.

### Bounds

- *handshake*: two calls suffice for two calls to wait for each other or to
  be answered in either order; `MaxAnswers = 2` gives a block every pair of
  answers in either order, with two identifiers so that a second id can differ.
- *transport*: two application threads and the signaling thread are what the
  races need (a caller, a closer, a callback). With three media a callback
  can close one that the loop has visited and one it has not. `MaxLevel = 3`
  lets a call be re-entered from a callback and once more from one inside that
  call; the second of them is a data medium. One `restartICE` (`MaxRestarts = 1`) can overlap everything else; a second
  would be one more call that waits in the same way. The violation runs use two media and level 2, which
  suffices.
- *device*: two threads for calls that overlap, two transports so that one can
  end while the other goes on, two capabilities so that two versions differ,
  and three tasks in the queue.
- *tracks*: one producer with two tracks of its kind, to and fro, and a consumer
  whose track, once it is closed, is the one of the wrong kind; two threads to
  overlap a call on the producer with one on the consumer.
- *audio*: three tasks in the queue: retain, release and the one `dealloc` posts.
  `MaxTasks` only bounds how far the worker falls behind.
- *logger*: three holders: one set before a message is logged, one during,
  one after. `MaxAdapters = 3` bounds the number of times an adapter is made after
  the default handler was restored.
- *data channels*: one producer and one consumer, since the two kinds differ in
  what they report and one can be closed while the other is told; the objects
  share only the queue and the loop. One message in each direction, and three
  events in the queue before the network waits (a message, the closing and
  the closing for good of the same channel, or of both).
- *parameters*: two updates are enough for a stale transaction; two encodings
  so that a layer can be on while the other is off, and limits to 0, 1 and 2 of the
  layers; four bits so that both
  truncation (9) and the range check (0 below the lower rate) occur.

### Fairness

`ProduceHandshake!Fairness`: a running thread makes progress, and the
application runs or drops a block it stored (`Settle`), which is what the
delegate protocol asks. It is *not* assumed that the application answers from
the handler, that a delegate exists, or that anybody calls. `CallReturns` also
rests on `AnswerQueue` being distinct from the calling queues, which the cfg
states: with answers on the calling queue the call does deadlock, and
`WaitsOnlyForApp`, which needs no fairness and no such assumption, is what
still holds.

`Transport!Fairness`: threads run, handlers return, questions are answered in
the end (`ProduceHandshake!CallReturns`). The steps that wait for the signaling
thread have strong fairness, since a blocking invoke is a task in that thread's
FIFO queue and new state reports cannot overtake it for ever.
`AudioSession!Fairness`, which `Device` takes over: the worker runs and a
`dealloc` returns. `DataChannels!Fairness`: the signaling
thread runs, callbacks return, `Close` goes on, and WebRTC ends the closing
of a channel. It is not assumed that a channel ever opens.
`Tracks`, `LoggerHandler` and `SenderParameters` have no liveness property.

`CHECK_DEADLOCK FALSE` is set where the system may stop: all calls returned,
everything freed, no holder left.

## 4. Proofs

The columns "Under" name the duties of the application that a theorem assumes (or
other hypotheses, explained below it). The models of the transport, of the audio
session and of the device stop when something freed is reached (`ub`), since nothing
can be said of the program after that; a theorem about them that assumes no duty
is about the program up to that point.

`ProduceHandshakeProofs` proves, for every set of calls, queues and
identifiers, every assignment of queues and every bound on the answers:

| Theorem | States |
|---|---|
| `Typing` | `Spec => []TypeOK` |
| `NeverStranded` | `Spec => []WaitsOnlyForApp` |
| `FirstAnswer` | `Spec => []FirstAnswerDecides` |
| `OneOwner` | `Spec => []AdapterHasOneOwner` |
| `RefusalStops` | `Spec => []RefusalStopsSender` |
| `Refinement` | `Spec => ImplementsAnswerSlot` |

They rest on the assumptions named in the module: identifiers, errors and the
two special values are different things, and the queue maps are maps.

The argument. None of the properties is inductive. `CallInv(c)` is, together
with the types: it relates the three things that describe a call. `Holds(c)`
ties the references to the stage (before the question there are none; while
the handler runs there are both the frame's and the handler's) and says that
a promise which nobody holds any more is set or broken. `Holding(c)` ties the
promise to the history of answers (it is the first answer, if there was any).
`Owns(c)` ties adapter, sender and result to the stage and to the promise that
`Get` found. `InvStep` has one step per action; every action touches one call,
so each first proves that the invariant of the others is unchanged. TLC has
checked the same invariant on the instance of `handshake`.

For the refinement, `Ask` is `Send`, `Callback`, `Unref` and
`OnProduceUnheard` fill the slot or stutter, and `Get` is the outcome.

`AudioSessionProofs` proves, for queues of any length:

| Theorem | States | Under |
|---|---|---|
| `LastCallDecides` | `Spec => []LastCallWins` | nothing |
| `TasksAreSafe` | `Spec => []MemorySafe` | `Sheltered` |

`LastWanted` generalises `LastCallWins` to a queue that is not empty: its last task
carries what is wanted, the release of a `dealloc` included. It is inductive
together with the types and what holds of every application (`AnyInv`): whoever
refers to the device has its wrapper alive, and whoever shares the factory has its
worker running.

`Sheltered` is a device that made its own factory (`OwnModule`), did not capture the
session (`~Capture`) and whose application keeps a transport (`KeepTransport`). All
three are needed: without any one of them TLC refutes `MemorySafe`. The invariant
says why a queued task is safe: every task retains the wrapper (`TasksRetain`), so a
wrapper whose `dealloc` has begun has left an empty queue (`NothingQueuedBehind`),
and from the last reference to the freeing a transport keeps the factory
(`FactoryKept`).

`LoggerHandlerProofs` proves, for any threads, handlers and number of adapters:

| Theorem | States | Under |
|---|---|---|
| `Typing` | `Spec => []TypeOK` | nothing |
| `AdapterIsThere` | `Spec => []MemorySafe` | `QuietDefault` |
| `PointersAgree` | `Spec => []LeadsToHandler` | `OneCaller` |
| `NeverStale` | `Spec => []NoStaleDelivery` | `OneCaller` |
| `NoneDropped` | `Spec => NothingLost` | `OneCaller` |

Each duty is needed where it stands and nowhere else, and the two make two
invariants. `SafeInv` (for `QuietDefault`) lets calls overlap: a message that has
loaded the native pointer finds its adapter (`OnItsWay`), there is no message while
the default handler is restored, and the native pointer leads to a live adapter
except while the caller that deleted it has still to reset it (`Registered`). `Inv`
(for `OneCaller`) lets messages come at any time: `LeadsToHandler` speaks of the
moments between calls, and `Midway(t)` says how far the pointers agree at each
step of a call. `CallerStep` is shared by the six steps of a call. `Followed` adds
what the messages need: until a call has attached the new holder, the adapter that is
registered still has the one installed last; and what a message on its way could
be handed to is in its `span`, which is marked with `NoHolder` while a call goes on.
From that `NoStaleDelivery` is inductive, and `NothingLost` follows because a holder
can be found dead or missing only by a message so marked.

`DeviceProofs` proves, for any threads, transports and capabilities:

| Theorem | States | Under |
|---|---|---|
| `DeviceTyping` | `DeviceSpec => []DeviceTypeOK` | nothing |
| `TransportsKeepTheirOwn` | `DeviceSpec => []AdaptersOwned` | nothing |
| `WorkerStays` | `DeviceSpec => []WorkerOutlives` | nothing |
| `DeviceLastCall` | `DeviceSpec => []LastCallWins` | nothing |
| `CapabilitiesAgree` | `DeviceSpec => []OneTruth` | `LoadAlone` |
| `DeviceIsAudioSession` | `DeviceSpec => Spec` of `AudioSession` | `SoundICEServers`, `KeepDevice` |
| `DeviceIsSafe` | `DeviceSpec => []MemorySafe` | these two and `Sheltered` |

Every step of `Device` is a step of `AudioSession`, leaves its variables alone, or
breaks it (`Breaks`: an exception leaves the wrapper, or the freed native `Device` is
read), which takes ICE servers that cannot be parsed or a medium made after the
device is freed. A step that breaks the session leaves everything in it but `ub`
alone, so that what holds of every session still holds. With the two duties no
step breaks it; `DeviceIsAudioSession` is that composition, from which `DeviceIsSafe`
follows. `Own` says of the transports that one in the making has one maker, that
the factory is shared exactly while one lives, and whose the adapters are;
`Agreeing`, for `LoadAlone`, that no capabilities are told, copied or agreed on before
`loaded`, and that there is at most one `load`, which finds nothing loaded.

`SenderParametersProofs` proves, for any updates, number of encodings and width
of the bit rates:

| Theorem | States | For edits that are |
|---|---|---|
| `Typing` | `Spec => []TypeOK` | `Typed` |
| `LimitLasts` | `Spec => []LimitInForce` | `Typed`, under the duty `LimitAlone` |
| `UpdateTakesEffect` | `Spec => UndisturbedTakesEffect` | `CarriedOut` |
| `NoUpdateOverwritten` | `Spec => OneEditAtATime` | `CarriedOut` and `Representable` |

The hypotheses are about what the closures do. `Typed` is every edit of the model,
the closure that returns more encodings than the sender has included: after it `ub` is
set and nothing more happens, so the theorems are about the program up to that point.
The other two leave out what the code does not carry out.
`CarriedOut` leaves out `isActive`, which is never written back, and the preferences
that fall through to another (the finding of `parameters_preference`).
`Representable` asks that an upper bit rate have the width of the
native type, or be truncated below the lower rate: `intValue` cuts
the others silently, and WebRTC then accepts a rate nobody asked for. Layer limits
and the rates themselves are any integers a caller can pass. `ShapeInv` is the
invariant of `Typing`. For `LimitLasts`, `LimitInv` adds how
far the producer's note is behind the sender: there is at most one limit under way, and
while it has yet to be noted, its layer is the one in force, since no update writes
`active`. That of the others, `Inv`, says that the parameters an update has read are
still those of the sender if it was the last to read (`last`), which is why a
`SetParameters` that WebRTC accepts overwrites nothing. The lemmas under them say
what the copy, the edit and the loop that writes back do to one encoding
(`CopyOfPlain`, `OutcomeIsAsked`, `WriteBackKeeps`, `WriteBackFits`), and that
truncation has the width it should (`IntValueFits`, for which `PowerDoubles` gets
2^(n+1) = 2 * 2^n from the number of subsets). The constant's assumption is that a
rate has at least two bits, so that the rate 1 the sender starts with fits.

`DataChannelsProofs` proves, for any data producers and consumers and any number
of messages:

| Theorem | States | Under |
|---|---|---|
| `Typing` | `Spec => []TypeOK` | nothing |
| `EventsAreKept` | `Spec => []NothingLost` | nothing |
| `AwaitingIsSafe` | `Spec => []MemorySafe` | `AwaitClose` |

`EventsAreKept` is the promise of the FIFO queue through every native object that
comes and goes: what is due to an object is what it heard followed by its events
still queued. The invariant `Inv` adds to it that an object not made yet is known
to nobody and has no channel, that a freed one is neither held nor running, and that an
object without a listener has heard nothing. Its lemmas say what the queue's operations do to
the events of one object: a task appended, taken from the head, or removed with the
object it is about (`EventsAppend`, `EventsTail`, `EventsWithout`), from the ranks
of the positions (`RankOrder`, `RankOnto`, `PickedMoved`). `SafeInv` says why an
object that its owner let go after it was told of the closing is out of everybody's
reach: `closed` is the last event a channel queues and the last one heard
(`ClosedIsLast`, `HeardIsLast`), an object let go is closed and out of the map
(`LetGoIsClosed`), and the loop of `Close` has passed whatever was shut
(`ShutIsPassed`).

`TracksProofs` proves, for any threads, producers, consumers and tracks:

| Theorem | States | Under |
|---|---|---|
| `Typing` | `Spec => []TypeOK` | nothing |
| `TracksStay` | `Spec => []NeverDangles` | `OneCall` |
| `ReferencesAgree` | `Spec => []TrackFollows` | `OneCall` |
| `PausesLast` | `Spec => []PauseLasts` | `OneCall`, `OwnTrack` |

`OneCall` gives an object at most one `replaceTrack`, and the invariant says what
the three references are at each of its steps. For `PausesLast` it
also says that two objects never use one track and that the flag of the pause is where
it can be read at each step: in the track in use, or in the call's `pausing`.

`TransportProofs` proves, for any threads, media, depth of re-entrant calls and
number of restarts:

| Theorem | States | Under |
|---|---|---|
| `Typing` | `Spec => []TypeOK` | nothing |
| `Silence` | `Spec => SilentOnceDisposing` | nothing |
| `ConnectsAtMostOnce` | `Spec => []ConnectsOnce` | `ConnectAlone` |
| `MediaEndWithTransport` | `Spec => [](ClosedWithTransport /\ ToldExactlyOnce)` | `NoCloseWhileCreating`, `NoDisposeWhileCalling` |
| `IsSafe` | `Spec => [](MemorySafe /\ NothingEscapes)` | all but `NoWaitOnSignal` and `ConnectAlone` |
| `Refinement` | `Spec => ImplementsContract` | all but `NoWaitOnSignal` and `ConnectAlone` |

`NoWaitOnSignal` is about calls that never return, and these theorems are about
safety. Each of the six duties of `IsSafe` is needed: without any one of them TLC
refutes it. Of those of `Refinement`, it refutes four; without `NoCloseWhileClosing`
or `NoDisposeInCallback` the contract holds up to the point where an exception
escapes or something freed is reached, and there the model stops. The violation runs
refute `DataProducersClosed` (and so `ClosedWithTransport`) without `NoCloseWhileCreating` and `NothingEscapes`
without `NoCloseWhileClosing`.

There is an invariant for each of these groups. `AnyInv` holds whatever the
application does: the types, and where a call of each kind can be (`Located`).
`Muted` says that a transport which is being disposed of, or has been, has lost its
delegate; `Silence` is then about the one step that loads it. `Connecting` says that
there is one creation at a time until the transport is connected, and that
`onConnect` has been called only if that one is in it. `MediaInv` adds to `AnyInv`
that a medium is made by one call on an open transport (`Makers`), that once
`Close` is done the map has only closed media (`Emptying`), and that a medium is in
the map while it is open, and afterwards exactly if `Close` has told it (`InMap`). A
medium that the application drops open stays in the map with nothing behind it;
that is a matter of memory, not of who is told.

Safety and the contract need more, in `Inv`, which has these parts besides the
types. `Placed` says what a call relies on where it is: a medium is made or closed
only while the transport is open, a transport is disposed of only off the signaling
thread. `Pairs`: a medium has one maker, the transport is disposed of once. `Life`
follows the transport from `closed` to the end of `Close` and from `dispose` to the
end: once disposal has begun, nothing else is in progress but state callbacks, so
that `DeleteTransport`, which waits for those, is alone. `Objects` ties a medium's
memory, map entry, notice and reference together: one that is not closed is live,
held and in the map, so the loop of `Close` and the raw pointer of a medium never
reach anything freed. And `ub` is still `"none"`. Each kind of change to the frames
(one begins, goes on or returns) has lemmas that say what it keeps, and each action
one lemma for its rest. For the refinement, `PhaseMoves`, `MediumMoves` and
`Stutter` are the three things a step can be in the contract: `Created` is `Create`;
`CloseMedium` and `TransportClosed` are `Close`; a deallocation is `Drop`; `Close`,
`Dispose` and `Release` of an open transport are `BeginClose`; the last `CloseEnds`
is `EndClose`; `DeleteTransport` is `Destroy`.

TLC has checked each of these invariants on the instance of its run, those that
need fewer duties without the others (for `Transport`, with two media and level 2).

Only model-checked: liveness (`ProduceHandshake!CallReturns`,
`Transport!CallsReturn`, `ReleaseFrees`, `ReleaseStops`, `ClosureHeard`), which is
out of reach of the prover. Every invariant and action property of a passing run,
and both refinements, are stated by a theorem.

## 5. Not modelled

- `updateICEServers`, the getters and statistics: they change no state of the
  wrappers. (`isPaused`, `track` and the capabilities are read by the models
  where a call decides on them.)
- The log level: it filters messages before a handler is looked up.
- Message texts, JSON contents, codecs, ICE parameters: data no property
  distinguishes.
- Enumeration conversions and library initialisation: stateless.
- The framework binaries with their headers, the example application and the
  build scripts.
- What libmediasoupclient does beyond section 2.
- Data races of two threads inside the native library between two callbacks:
  native code there runs as one step, since the library has no locks and
  expects its callers not to overlap.

## 6. Plan

1. Done: every component with state is modelled: handshake, transports, tracks,
   device and audio session, logger, sender parameters, data channels.
2. Done: a theorem for every invariant, action property and refinement of the
   passing runs.
3. Done: each theorem assumes the duties that its property needs (section 4, the
   columns "Under").
4. Left: the liveness properties, which stay with TLC.
