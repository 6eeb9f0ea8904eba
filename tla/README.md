# Verification of ad-kafka-interface

TLA+ models of the two areaDetector components of this repository, checked with TLC
and, where it matters most, proved with TLAPS:

* **ADKafka**, a detector driver that takes images from a Kafka topic (`src/ADKafka`);
* **ADPluginKafka**, a plugin that sends images to a Kafka topic (`src/ADPluginKafka`).

Each is a small amount of code in which several threads share objects, with librdkafka's
threads and EPICS clients around it.  What joins the two is the format of a packet, and
there they differ (`images_format`).

## Inventory

| Component | State | Operations | Threads | What makes it correct |
|---|---|---|---|---|
| `KafkaDriver` | `acquire` of `consumeTask()`, start, stop and exit events, `ADAcquire`, `ADStatus`, `ADNumImagesCounter`, settings, `keepThreadAlive`, the image in hand | `writeInt32`, `writeOctet`, `consumeTask`, destructor | clients (port lock), `consumeTask()`, destroyer (no lock) | a stop stops, and soon; images are counted; the idle loop never sees a message; status at rest; stop and destructor complete; images are not lost to the pool |
| `KafkaConsumer` | `consumer`, `conf`, `topicName`, `topicOffset`, `consumptionHalted`, offset and status PVs | `SetBrokerAddr`, `SetGroupId`, `SetStatsTimeIntervalMS`, `SetTopic`, `SetOffset`, `StartConsumption`, `StopConsumption`, `WaitForPkg`, `event_cb` | port thread and `consumeTask()`, **no lock between them** | a halted consumer gives no message, a started one does; no message is skipped; a chosen offset is used; the object outlives its use |
| `KafkaProducer` | `Producer`, `conf`, `maxMessageSize`, `errorState`, `doFlush`, `TopicName`, status, unsent packets | `SendKafkaPacket`, setters and getters, `StartThread`, `ThreadFunction`, `event_cb` | senders (port lock released), port thread, polling thread; `brokerMutex` for `Producer` only | the producer has the current settings; the size limit follows the packets; the status is honest |
| `KafkaPlugin` | the shared serializer buffer, dropped-array counter | `processCallbacks`, read and write calls | thread of the plugin or of the source, clients | a packet holds one array; every array is delivered or counted |
| `ParameterHandler`, `Parameter` | map from parameter index to setter and getter (constant once built) | `registerParameter`, `write`, `read`, `updateDbValue` | all | the parameter library shows the value in use |
| `NDArraySerializer`, `NDArrayDeSerializer`, `TimeUtility` | one flatbuffer builder; images of the pool | serialise, deserialise, convert | callers' | an array arrives as it was sent |
| `ParamUtility.h`, jsoncpp, flatbuffers, IOC, databases, screens, build files, tests | none of their own | | | not modelled |

What is hard here: `consumeTask()` releases the port lock in its idle loop, while it waits for
a message and while it publishes an image, so clients run in between; starts and stops are
binary events without an order; `KafkaConsumer` is shared without a lock; `KafkaProducer`
protects one pointer only, and the plugin calls it with the port lock given back; every setting
tears a connection down and may fail half way; images are shared with plugins by reference.
`PROJECT.json` lists each of these hazards at its line, with the properties that watch it.

## Modules

| Module | Models |
|---|---|
| `AcquisitionControl` | what the driver promises to whoever starts and stops it: the abstract specification |
| `KafkaDriver` | acquisition control of the driver; implements `AcquisitionControl` |
| `KafkaDriver_proofs` | its theorems |
| `KafkaConsumer` | the consumer object between its two callers, with the offset logic of `writeInt32()` |
| `KafkaConsumer_proofs` | its theorems |
| `DriverWithConsumer` | `KafkaDriver` and `KafkaConsumer` joined, under the port lock they really have |
| `DriverWithConsumer_proofs` | its theorems, those of its two parts carried over included |
| `KafkaProducer` | the producer object between senders, settings and polling |
| `KafkaProducer_proofs` | its theorems |
| `KafkaPlugin` | the plugin around `KafkaProducer` (which it extends), its serializer, and `ParameterHandler` |
| `KafkaPlugin_proofs` | its theorems |
| `NDArrayFormat` | what both sides write and read of an array: the fields of a packet, type codes, time |
| `DriverImages` | the images of the driver's pool in `consumeTask()` and in its plugins |
| `DriverImages_proofs` | its theorems, and those about the format |
| `MC...` | constants for TLC; one `.cfg` per run |

A definition next to another one with the comment *Mutant* is a plausible bug of the
definition below it: each checked property is shown to fail under one of them.

### KafkaDriver

`pc` is the place in `consumeTask()`.  `pc \in Locked` marks the cuts inside a critical section
of the port lock: no client action is enabled there.  A client action is a whole
`writeInt32()`.  Writes that change nothing (acquire while acquiring) signal nothing and
are stutters.  The events are Booleans: signalling twice is signalling once, a wait takes
the event.  The destructor is three steps because it holds no lock.  `KafkaConsumer` appears as
`halted` and `nextMsg`: here only the driver's own thread changes them.

`runStart`, `late` and `stopped` are history variables: they are read by properties only.

* `StopNeverLost`, `StopIsPrompt`: a stop of a start that the task has *already taken* has its
  event pending until the task takes it, through any number of stops and restarts, and is
  followed by at most one published image.
* `IdleIsHalted`: every way into the idle loop has halted consumption; a message there calls
  `std::abort()`.
* `CountsEveryImage`: the image counter against the messages taken from the topic.
* `StatusSettled`: `ADStatus` at rest, in spite of `writeInt32()` leaving `Acquire` behind.  A stop that
  comes too late leaves its event pending in the idle loop, and `Acquire` with it: until a pass
  takes that event (`driver_start`) the property says nothing.
* `ImplementsControl`, `ServesRequests`: the refinement of `AcquisitionControl`, its safety and its
  liveness.  The mapping: a pass of the loop is `deciding`, `waiting` or `delivering` while `acquire`
  is set, `draining` when it has just been cleared, `idle` in the idle loop, `gone` at the end; the
  starts asked for are the pending event and the one the task has taken and not yet armed for; a stop
  asked for is the stop event.  The abstract specification adds a request only when a client turns
  `ADAcquire` on or when the destructor signals, and an acquisition uses one up, so an idle
  wait that timed out and went on as if it had been signalled would be no step of it.  What else it says
  that the code hides: a stop that is there when a pass decides is obeyed in that very
  pass and used up by it only, and every message is counted or is the one dropped after a stop.
* `DestructorReturns`: liveness.

### KafkaConsumer

Each call is cut at every access to state that the other thread can see or change: `port` and `task`
are the places of the two threads inside a call (`rest` between calls).  The cuts are

| Call | Steps |
|---|---|
| `MakeConnection()` | `Close` (check, unassign), `Delete` (`close()` and delete), `Forget` (the null pointer), `Create` |
| `UpdateTopic()` | `Unassign` (check too), `Assign`, `ReadHalted`, `PauseNew` |
| `SetOffset()` | `SetOffset` (`topicOffset`), `ShowOffset` (the PV), then `UpdateTopic()` |
| end of `writeInt32()` | `StoreWritten` |
| destructor | `Destroy`, `Close`, `Delete`, `Forget`; then the object is `gone` |
| `StopConsumption()`, `StartConsumption()` | the flag, `CheckConsumer` (the pointer), `GetAssignment`, `PauseNamed` or `ResumeNamed` |
| `WaitForPkg()` | `WaitForPkg` (the checks), `Consume` (the call begins), `Event`, `ConsumeNothing` or `Deliver`, `KeepOffset`, `ReportOffset` |

Joined in one step are `close()` and delete, because a call made in between finds an object with
nothing assigned, as before, and the test of `consumptionHalted` with its write, because only the
task writes it.  The check of the pointer and the call through it are separate steps.  The
destructor takes no lock and looks at no task; that no port call is in progress is its owner's part, and
that nobody calls the object once it is `gone`.

librdkafka (external) is one assignment of one partition:
topic, next offset, paused.  What `assign()` does with a logical offset is a choice
(`Positions`).  With `Serialised = TRUE` the calls exclude each other, as the
unit tests use the class; with `FALSE` they overlap as in the driver, which
calls `WaitForPkg()`, `StartConsumption()` and `StopConsumption()` after `unlock()`.  A consumer deleted
under a `consume()` is `dangling`: the call may still run `event_cb`, and ends without a message.
An `assignment()` on a deleted object may return any topic.

Serialised, everything holds: `HaltHolds`, `StartHolds`, `HaltedIsSilent`, `AtLeastOnce`,
`OffsetApplied`, `OffsetReadback`, `PortConsistent`, `ConnectedHasConsumer`.  `HaltHolds`,
`PortConsistent` and the types remain however the calls overlap: they are proved for calls in
any order, and checked for the calls the driver makes in `driver_consumer`.  The others are false of
overlapping calls, `ConnectedHasConsumer` among them: an event of the old
consumer can be shown after the reconnection has failed.

### DriverWithConsumer

Both modules are instantiated and their shared state identified: `halted` is
`consumptionHalted`, and `nextMsg` of the driver is the number of packets taken from the consumer.
A step of `consumeTask()` that calls the consumer begins the call; until the consumer's `task` is at
rest again the driver stands still, and `fetched` holds the result of `WaitForPkg()`.  The port lock is
`pc \in Locked` on one side and `port # "rest"` on the other: a port call needs both sides free, the
task cannot enter a locked section during a port call, but the parts that run unlocked overlap with
it.  `~KafkaDriver()` takes no lock, and neither do the steps of `Destructor`; the consumer, a member, is
destroyed after it.  `SetBrokerAddr` and `SetTopic` stand for all port calls: the others pass through the
same `MakeConnection()` and `UpdateTopic()`.  Settings of the image mode and events of librdkafka are left
out, and with the events every property of the connection status.  A packet handed to the idle loop is
`Aborted`, after which nothing moves.

* `ConsumerIsSound`: the types, `HaltHolds` and `PortConsistent`, for the calls the driver really makes.
* `AbortOnlyInUpdate`, `NoAbort`: the `abort()` is reachable, and only from a message delivered while a
  port call is between `assign()` and `pause()`.
* `OutlivesThread`: when the consumer's destructor begins the thread has ended and is in no call of it.
  Nothing in that destructor would wait for it: the order is `~KafkaDriver()`'s doing.
* `StopSilences`, `ShutsDown`: liveness across both components.

### KafkaProducer

`place[t]` is the place of thread `t` in `SendKafkaPacket()` or a setter; `MakeConnection()`, the
end of `SendKafkaPacket()` and the inside of the polling loop are atomic because they hold
`brokerMutex`.  Between them a call is cut at every access to what other threads use outside of the mutex:
`conf` (`SetConfMax`, `Configure`), `maxMessageSize` (`SetField`, `Show`), `BrokerAddr` (`StoreAddress`),
and the second look at `errorState` that a sender takes (`CheckError`) but a client does not.  A packet is its
size in units; `conf.max` is `message.max.bytes` without
the constant overhead.  Two senders are possible because array callbacks run in the
driver's thread when blocking, and in the plugin's when not, and the setting can be changed
while the plugin's queue still holds arrays; the port lock is released around the call.

A constructor that fails to set librdkafka up leaves `errorState` and no broker (`InitRdKafka`), and
`StartThread` then refuses.  The polling thread looks at `Producer` before it has the mutex; when a
reconnection has failed by the time it has, `PollNull` calls `poll()` on a null pointer and the
process is gone: after `crashed` nothing moves.  The null `conf` that librdkafka's
`create()` might return is not modelled.

* `ProducerIsCurrent`: whatever overlaps, the last connection comes after the last change of conf.
* `StatusTruthful`: no `CONNECTED` without a producer; a failed reconnection shows.

### KafkaPlugin

`step[t]` is the place of a thread in `processCallbacks()`, around the actions of `KafkaProducer` that are
the inside of `SendKafkaPacket()`.  The port lock is held while an array is packed (`Pack`) and while its
result is counted (`Return`), and by a client's write to its end (`PortFree`).  Arrays come from
`NDPluginDriver` (external): in the source's thread when callbacks are blocking, else through a queue that drops
what it cannot hold.  `writing` is the value that `writeInt32()` stores in the parameter library as it returns;
whether or not the setter took it, because for a rejected value the base class is asked, which
accepts it.  `shown` is `KAFKA_MAX_MSG_SIZE` there.

The constructor has set librdkafka up (a failure there leaves a plugin that drops every array, which
`KafkaProducer` covers), and the polling thread is started and then left out, its `PollNull`
included: what is said here holds until such a crash.

`alone`, `accepted` and `rejected` are history variables.  `alone` says that no two threads have had the size
limit in hand at once; without it `SizeInStep`, `SizeShown` and `SizeAccepted` are false of the code, which
has no lock around the limit.  So these three speak of failed reconnections, rejected values
and changes of other settings, and not of the overlap itself: a sender that raises the limit
between a client's `conf->set()` and the member's write, or a packet
refused because the limit shrank behind it, are behaviours of the model for which no doc
makes a promise to state.  What becomes of the refused packet is in `DropsCounted`, which has no such
condition.  `rejected` excuses `SizeShown` for a value that was stored although its setter refused it.

* `DropsCounted`: every array that arrived is queued, in a thread's hands, taken by librdkafka or counted.
* `SizeInStep`, `SizeShown`, `SizeAccepted`: the size limit is one value in `maxMessageSize`, in `conf`, in the
  parameter library and in the producer in use.
* `EveryArrayHandled`: liveness.
* `BufferIsOwn`: what the serializer's header says of its buffer; violated.

### NDArrayFormat and DriverImages

`NDArrayFormat` gives a packet as the sequence of the fields of its flatbuffer table.
`SerializeData` is the plugin's, `WriteNDArray` the generated writer of the driver's schema, `DeSerializeData` the
driver's reader, which reads a field that holds something else as `Garbage`.  The epoch difference and the nanoseconds of a second
are parameters, scaled down.

`DriverImages` is the loop of `consumeTask()` as its image sees it: release the last one, allocate, fill,
call each plugin.  `NDArrayPool` and plugins are external: reference counts, memory for `pool`
images, a bounded queue.  `alloc()` without memory left returns a null pointer, which `DeSerializeData()`
uses: `crashed`.

* `RefsMatch`: each count is the number of those who hold the image.
* `ImageIsAsSent`: what the task and each plugin have in hand is the array that was sent, and stays so.
* `PoolSuffices`: memory for one image more than the plugins can hold together is enough.

## Runs

| Run | Bounds | Result |
|---|---|---|
| `driver` | 3 messages, `ADNumImages` 0 or 2, all modes | holds |
| `driver_stop`, `driver_start` | same | violated, see below |
| `consumer_serial` | 2 topics, 2 brokers, 2 intervals, log of 5, integers -4..3 | holds |
| `consumer_lifetime` | log of 2, integers -8..7, calls overlap | violated |
| `driver_consumer` | 1 topic of 1 message, 1 broker, each there from the start or set later; 1 packet taken, `ADNumImages` 1, modes `Single` and `Continuous` | holds |
| `driver_consumer_abort` | same | violated |
| `producer` | 2 senders and the port thread, sizes 1..5, limit 2, cap 4, queues of 1 or 2 | holds |
| `plugin` | 2 arrays, a queue of 1, packets of 3 and 5, limit 2, cap 4, written sizes 1 and 6 | holds |
| `plugin_buffer` | same | violated |
| `images` | memory for 1 to 3 images, 2 plugins that hold 1 each, 3 arrays, driver's schema | holds |
| `images_format` | same, plugin's schema | violated |

Three messages let a run have an image before, during and after a stop and reach the end of a
`Multiple` acquisition of two; `ADNumImages = 0` is the value that ends one at its first image.
Two of everything that can be exchanged (topic, broker, interval) is enough to tell
old from new.  The long log exceeds the small integer range, so the conversion of 64-bit offsets wraps.  The cap of
4 under packets of 5 makes librdkafka reject a size; the queue of one packet fills.  In `driver_consumer` what
is asked is about the order of calls and not about which broker or which message, so exchanging one for
another is left to `consumer_serial` and a series of images to `driver`; the one
packet is taken in an acquisition or, through the window of `UpdateTopic()`, by the idle loop, and after it
`consume()` keeps timing out.  `Multiple` is left out (`MCSpec`): with one image asked for it ends where `Single`
does.  In `plugin` the two arrays can both be in
threads, or one be dropped by the full queue; the written sizes are one within the cap and one
beyond it.  In `images` the memory goes from too little (a crash is reached) to just enough.
The scaled-down second of `NDArrayFormat` has more nanoseconds than any array's `nsec`, as the real one has.
Deadlock checking is off where a destroyed driver, consumer or producer takes no more
steps, or where the process has crashed or aborted; it is on for the plugin, which is never destroyed.

### What the violations show

Each of these runs states what a comment or a test says and finds a behaviour of the code
that differs; `PROJECT.json` quotes both.

* `driver_stop`: writing 1, 0, 1, 0 when the task takes the first start at once and looks at the stop event
  only after the last write: the two stops are one event, which its pass takes and ends the
  acquisition, and the second start, still pending, begins another with `ADAcquire = 0`.
* `driver_start`: a stop event that outlives its acquisition ends the next one at once, and
  `ADAcquire` stays 1.
* `consumer_lifetime`: the consumer is deleted inside `consume()`.
* `driver_consumer_abort`: setting a broker or topic while the driver is idle can abort the process: the
  idle loop gets a message between `assign()` and `pause()`.
* `plugin_buffer`: making callbacks blocking while an array is queued lets two threads use one
  buffer.
* `images_format`: an array that ADPluginKafka sends is not what ADKafka receives: time, identifier and floating point
  types are read from other fields or codes.  `SerializeDeserializeTest` of the unit tests demands the opposite.

The models show more behaviours that have no run of their own: `UpdateTopic()` pauses a consumer that
has just been started (`StartHolds` with `Serialised = FALSE`); a message that arrives
during `SetOffset()` undoes it (`OffsetApplied` with `FALSE`); a rejected offset is shown
in `KAFKA_CURRENT_OFFSET`; a client that lowers the maximum size between a sender's check and
its `produce()` makes the packet fail (`SizeAccepted` without `alone`); one packet above the limit of librdkafka sets
`errorState` for good, which `KafkaProducer.h:214` describes as librdkafka that could not be initialized;
`ReconnectFlush` (`src/ADPluginKafka/README.md:37`) is stored and never used, so that a reconnection drops what is
queued; the polling thread can call `poll()` on a null producer after a failed reconnection; a parameter can be shown by
`updateDbValue()` in a sender's thread after a client's write has stored a newer one (`SizeShown` without `alone`).
In `PROJECT.json` these hazards have a note instead of a property: no doc, comment or test of the repository says
what should happen, and a property that allowed for all that does would only restate the model.

## Fairness

* `KafkaDriver`: `consumeTask()` is weakly fair as a whole: every wait
  of it has a timeout (the idle wait the statistics interval, `WaitForPkg()` its argument), and the
  port lock is held by others for one call only.  Nothing is assumed of which outcome a wait
  has: `FetchNothing` may happen for ever.  The destructor, once begun, is weakly fair;
  clients and the broker owe nothing.  `DestructorReturns` excludes the destructor that runs before
  the thread has set `keepThreadAlive`, which `KafkaDriver.h:85-88` documents as a deadlock.
* `DriverWithConsumer`: the same for the task, whose `consume()` has a timeout, and for a port
  call that has begun.  `StopSilences` speaks of behaviours in which clients eventually leave the port alone.
* `KafkaPlugin`: each sending thread, the plugin's thread on its queue, and a write that has begun.
  `EveryArrayHandled` assumes that the port lock is eventually free: it is not
  a fair lock, and clients that write for ever may starve a thread.

The other modules have safety properties only.

## Proofs

The theorems hold for all values of the constants that satisfy the modules' assumptions: counts and
sizes are natural numbers, the integer range holds the four logical offsets, buffers and plugins are
finitely many, the port thread is no sender, and the value that stands for "none" (an empty
string, a null pointer) is none of the values it is told apart from.  Every invariant and every action property of
the passing runs has a theorem.

Every theorem follows from an inductive invariant (`...Inv`, `...IInv`) that is stronger than the property, because the
property speaks of a call that has returned and a step starts from the middle of one.  What each
of them adds is the argument of the proof.

### The driver

| Theorem | Property | Argument |
|---|---|---|
| `TypeCorrect` | `TypeOK` | by lemmas on flags, states and counts; the counter's bound needs `CountsEveryImage` |
| `ImagesCounted` | `CountsEveryImage` | what `nextMsg - runStart - counter` is at each place |
| `IdleHalted` | `IdleIsHalted` | consumption is halted from `Halt` to `Resume` |
| `StopSafe`, `StopPrompt` | `StopNeverLost`, `StopIsPrompt` | while a stop is outstanding no start event is there, so only the task that already took its start can be `Engaged`; an image is late only after the places where the event is pending |
| `StatusAtRest` | `StatusSettled` | `StatusInv`: the status says otherwise only while `acquire` is set or a stop event is pending, and `acquire` is clear from the end of one acquisition to the beginning of the next |
| `ControlImplemented` | `ImplementsControl` | the initial states map to the initial state, and each action to one action of `AcquisitionControl` or a stutter, given where `acquire` can be set and (`ThreadInv`) that the thread leaves its loop only when told to and the destructor goes on only when told it has |

The lemmas are about `Safety`, which is `Spec` without its fairness: `DriverWithConsumer` has fairness of its own.

### The consumer

| Theorem | Property | Argument |
|---|---|---|
| `ConsumerTyped` | `TypeOK` | `TypeIInv`: the message that the task has got is one of the log; `Positions` stays in the log, `ToInt` in the integer range |
| `HaltIsKept` | `HaltHolds` | an unpaused assignment under a halt always has a call on its way to pause it, and no call that resumes can be in progress |
| `PortIsConsistent` | `PortConsistent` | the consumer lags behind settings or topic only at named places of the port call |
| `StatusIsConnected` | `ConnectedHasConsumer` | `StatusKnown`: a consumer, or one about to be created, has a broker |
| `StartIsKept`, `HaltIsSilent` | `StartHolds`, `HaltedIsSilent` | `StartComing`: what is paused without a halt has a `StartConsumption()` under way |
| `OffsetIsReadBack` | `OffsetReadback` | `ReadbackIInv`: the offset shown, the one in use and the one still to be stored agree, where each is an offset; for any integer width |
| `NothingIsSkipped` | `AtLeastOnce` | `LastIInv`: an assignment stands at the last message or after it, so a reconnection repeats one message and skips none |
| `OffsetIsApplied` | `OffsetApplied` | `ExpectIInv`: an offset just set is the one in use and the one of any assignment |
| `SerialCallsAreSafe` | `ConsumerOutlivesCall` | `NeverDangling`: who deletes the consumer finds the task at rest |

The first three hold however the calls overlap.  The others assume `Serialised`, as their runs do: `UpdateTopic()`
pauses a consumer that has just been started, a message that arrives during `SetOffset()` undoes it, an event of a consumer
just deleted can show it `CONNECTED`, and
`consumer_lifetime` shows the last one violated without it.  `SerialCallsAreSafe` is what that run adds up to:
the overlap is the only cause.

### The driver with its consumer

`CompositionImplementsParts` shows every step of `DriverWithConsumer` to be a step of `KafkaDriver` or none, and a
step of `KafkaConsumer` with overlapping calls or none.  All that is proved of the parts
without fairness and without `Serialised` then holds of the whole: `ConsumerStaysSound` (`ConsumerIsSound`),
`DriverStaysSound`, `CompositionImplementsControl`.  Two theorems need both sides:

* `ConsumerOutlivesThread` (`OutlivesThread`), from `LeavesFirst`: the consumer's destructor begins only after
  `~KafkaDriver()` has seen the thread's exit event, which follows its last call;
* `AbortsOnlyInUpdate` (`AbortOnlyInUpdate`): with `IdleHalted` and `HaltIsKept` a packet can reach the idle loop
  at no other time than between `assign()` and `pause()`.

### The producer and the plugin

| Theorem | Property | Argument |
|---|---|---|
| `ProducerTyped` | `TypeOK` | the size limit stays between the bounds of librdkafka |
| `ProducerCurrent` | `ProducerIsCurrent` | a producer that lags behind `conf` always has a thread on its way to `MakeConnection()` |
| `ProducerStatusTruthful` | `StatusTruthful` | `StatusIInv`: `CONNECTED` has a producer in every state, and a missing one shows unless a thread is on its way to `MakeConnection()` |
| `PluginImplementsProducer`, `PluginProducerSound` | the two above | a step of the plugin is a step of the producer or leaves it alone, so both hold inside the plugin |
| `PluginDropsCounted` | `DropsCounted` | `DropsIInv`: the arrays in hand are a finite set of senders, which every step changes by at most one; `StepsMatch` ties the place in `processCallbacks()` to the one in `SendKafkaPacket()` |
| `PluginTyped` | `PluginTypeOK` | the counters are bounded by the arrays that arrived |
| `PluginSizeInStep`, `PluginSizeShown`, `PluginSizeAccepted` | `SizeInStep`, `SizeShown`, `SizeAccepted` | `SizeIInv`: while the limit is left to one thread at a time, that thread is the only one that lags behind `conf.max`, at named places |
| `PluginBufferOwn` | `BufferIsOwn`, while `alone` | `BufferIInv`: at most one sender uses the buffer, and it packed it last |

The last two rows hold up to the first overlap of two threads, as their definitions say (`alone`).
`PluginBufferOwn` says of `plugin_buffer` that the overlap is the only cause.

### The format and the images

| Theorem | Property | Argument |
|---|---|---|
| `FormatRoundTrip` | reading what `WriteNDArray` wrote gives the array | the codes are distinct and the reader's switches invert them |
| `SchemasDiffer` | of every packet of the plugin the driver misreads number and both times | by its fields |
| `ImagesCounted` | `RefsMatch` | `RefsIInv`, by lemmas on the finite sets of places where plugins hold an image (`SlotsAdded`, `SlotsRemoved`) |
| `ImagesTyped` | `TypeOK` | the same invariant |
| `PoolIsEnough` | `PoolSuffices` | `AllHeld`: if none is free once the task has let go of its own, each is held by a plugin in a place of its own, of which there are `Capacity` for each |
| `ImagesAreAsSent` | `ImageIsAsSent` | a free image is held by nobody, so filling it changes nothing that is in use |
| `OwnImagesAreAsSent` | the same, for the driver's own schema | `FormatRoundTrip` |

`ImagesAreAsSent` assumes that the format carries each array sent.  `OwnImagesAreAsSent` discharges this for
arrays of the types the driver knows in the driver's schema; in the plugin's schema it is false
(`images_format`, `SchemasDiffer`).

### Only model-checked

The liveness properties `ServesRequests`, `DestructorReturns`, `StopSilences`, `ShutsDown` and `EveryArrayHandled`
stay with TLC: they need fairness and ENABLED, which are out of the prover's reach.  So do the
counterexamples of the violated runs.

## Plan

What is left: an abstract specification of a reader of a log (what a client of the topic sees: position, halt, settings), and
the proof that `KafkaConsumer` with serialised calls implements it.  It would join `HaltedIsSilent`,
`AtLeastOnce` and `OffsetApplied`, which are stated and proved one by one, in a single promise.

## Not modelled

Of some 30 000 lines that the repository holds, about 3 000 are its own; the rest are two copies each of jsoncpp and
flatbuffers and the accessors that flatbuffers generates, libraries whose
behaviour is that of their authors.  They are modelled where the code depends on them: the
schemas as fields and codes (`NDArrayFormat`), broker statistics as the states they name (`StatusOf`).

Of its own code: the wording of status messages, the shutter, logging and error messages of asyn calls, IOC start-up,
databases and screens; headers that declare what the models define; members that repeat what librdkafka was
told; the strings of attributes; the bytes of a flatbuffer.  `KafkaConsumer`'s
`errorState` is constant: only a librdkafka that rejects the constructor's defaults sets it.  `KafkaProducer`'s is
modelled, but for the null `conf` it also stands for.
librdkafka, `NDPluginDriver` and `NDArrayPool` are not in the repository and are modelled by what their callers can observe.
