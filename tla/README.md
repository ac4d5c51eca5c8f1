# cabl in TLA+

cabl ("Controller Abstraction Library") lets an application talk to USB and MIDI
controllers: it finds them, opens them, draws on their displays, lights their
LEDs and delivers their buttons, encoders, keys and pads as callbacks. It does so
on several threads at once. This project models that concurrent core, the drivers
of every controller on it and the algorithms they draw and look up with, checks them
with TLC and proves the parts that hold for every size with TLAPS.

Paths are relative to the repository (`src/` there is `src/src/` in
`PROJECT.json`, whose `map` gives the lines behind every definition).

Contents: [system](#1-the-system), [modules](#2-the-modules),
[runs](#3-the-runs), [fairness](#4-fairness), [proofs](#5-the-proofs),
[disagreements](#6-where-the-code-and-its-text-disagree),
[what the code does unasked](#7-what-the-code-does-unasked),
[not modelled](#8-not-modelled).

## 1. The system

### Threads

| thread | made by | runs |
|---|---|---|
| application ("main") | the program | constructs, initialises and destroys its `Client`s, asks for scans and frames, may call anything public |
| Coordinator ("cabl") | `Coordinator::Coordinator()` | waits for the first client, scans once, then ticks every device: `render()`, `tick()` with its synchronous reads and the callbacks these cause |
| USB events ("usb") | `DriverLibUSB` | one `scan()` for every hotplug event; the ends of asynchronous reads and the callbacks these cause |
| fast thread | `Device::startFastThread()` over `RTThreadRunner` | `writeMidiMsg()` of a MaschineMK1 once a period, from `onConnect()` to `onDisconnect()` |
| RT and UI | the application | the two ends of an `RTSafeEventDistributor` |

### Locks and other synchronisation

* `Coordinator::m_mtxDeviceDescriptors`: held by `scan()` for all of its length,
  callbacks into clients included.
* `Coordinator::m_mtxDevices`: held for a whole round of ticks, and by `scan()`
  while it disconnects what has gone.
* `Device::m_mtxCallbacks`, one per device: held while a callback is set, and
  while the client is called through one.
* `Device::m_mtxDeviceHandle`, one per device: held for a single access to the
  handle, never while another lock is asked for.
* Atomics: the two indices of a `LockFreeQueue`, `RTThreadRunner::m_running`,
  `Client::m_update`, the statistics of `RTSafeEventDistributor`.
* Not protected: `m_collDevices` in `connect()`, `m_collCbDevicesListChanged`,
  the list that `enumerate()` copies, `Device::m_connected`, dirty flags and
  pixels of the displays and LEDs.

### Components

| component | state | operations | correct when |
|---|---|---|---|
| `LockFreeQueue` (inc/cabl/threading) | ring, `m_head`, `m_tail` | `enqueue`, `dequeue`, `size`, `empty` | it is a bounded FIFO, no slot is accessed twice at a time, a check stays valid until it has been used |
| `RTThreadRunner` | `m_running`, `m_thread`, `m_tickFn` | `start`, `stop`, the loop | at most one thread ticks, on its cadence or catching up with it; `stop()` returns after one call or period at most and leaves nothing behind |
| `RTSafeEventDistributor` | observers, two queues, counters | `notifyRTObservers`, `processUIEvents`, `sendToRTThread`, `processRTEvents`, `initialize`, `shutdown`, `resetStatistics` | each event is observed before it is queued, by priority, and is then delivered or counted as dropped |
| `Coordinator` | list of descriptors, map of devices, map of clients' callbacks, `m_running`, `m_scanDone` | `scan`, `enumerate`, `connect`, `registerClient`, `unregisterClient`, the thread, the destructor | the list is the bus, nobody waits in a circle, a device is not taken away while it ticks, the destructor returns |
| `Client` | `m_pDevice`, `m_update`, the callbacks it has bound | constructor, `init`, `devicesListChanged`, `onInitDevice`, `onRender`, the input callbacks, destructor | a request is followed by a frame; no call reaches a destroyed client |
| `Device` | handle, `m_connected`, callbacks, fast thread | `onTick`, `onConnect`, `onDisconnect`, `setCallback...`, the calls | callbacks of one device run one at a time and are the ones that are bound |
| LibUSB driver | hotplug events, transfers in flight | `cbHotplug`, `cbTransfer`, `connect`, `enumerate` | no event is lost while libusb has the callback; a report is given once and whole; no transfer outlives its handle |
| `Driver`, `DeviceHandle`, `DeviceDescriptor`, `DiscoveryPolicy` | none of their own | wrappers; order and matching of descriptors | the order is strict and its ties an equivalence (it does not tell two units of one product apart: section 7) |
| HIDAPI, MIDI, Probe drivers | open ports | `enumerate`, `connect`, `read`, `write` | enumeration ends although a probe hangs |
| MAX3421E, SAM3X8E drivers | registers | the same, on Arduino boards | - |
| `DeviceFactory` | registry | `registerClass`, `device` | every descriptor finds its class |
| `MaschineMK1` | displays, LED groups, their dirty flags, MIDI queue and buffer | `tick`, `init`, `sendFrame`, `sendLeds`, `sendMidiMsg`, `writeMidiMsg`, `processMidiIn`, decoding of inputs | what is not dirty is shown; MIDI is neither lost, doubled nor reordered |
| MaschineMK2, Mikro, Jam, KompleteKontrol, TraktorF1 | the same, and a **static** step of `tick()` shared by all instances | the same | each instance gets to each of its steps |
| Push, Push2, USBMidi | the same | the same | the same |
| `Canvas` and its displays | pixels, dirty chunks | drawing | what has been drawn is marked to be sent; arithmetic stays in range |
| Text displays, LED arrays and matrices | characters, LEDs | `putText`, `setValue` | positions stay in range |
| Fonts | tables | - | - |
| `TraceRecorder` | one ring per thread | `record`, `writeJson`, `printSummary` | a dump has every event of a thread that rests, once and in order |
| `Color`, `Version`, `Log` | - | conversions, comparison | the orders are orders |
| Python bindings | Python callbacks, the interpreter's lock | as `Client` | the two kinds of lock cannot form a circle |

Interaction. A `Client` registers with the Coordinator, which keeps a callback
for it. A scan, on any of three threads, fills the list of descriptors,
disconnects what is gone and, when the list has changed, calls every registered
client; the client that finds a device to its liking calls back `connect()`,
which opens and initialises the device, and then binds its own callbacks to it.
From then on the device calls the client on two threads: input of synchronous
reads and `render()` on the Coordinator's, input of asynchronous reads on the USB
thread. A hotplug scan can take the device away at any moment, and the
application can destroy the client at any moment.

What makes this hard: four threads, calls that are made with two or three locks
held, registration tables that are read without one, objects that are destroyed
while others are about to call them, writes that fail halfway through a frame,
transfers that cut a MIDI stream anywhere, bounded queues, and a period that
`stop()` cannot interrupt. `PROJECT.json` lists these as hazards, each with its line and
the properties that cover it.

## 2. The modules

| module | models | composed of |
|---|---|---|
| `BoundedFifo` | what a queue promises (abstract) | - |
| `LockFreeQueue` | LockFreeQueue.h, one action per shared access | refines `BoundedFifo` |
| `RTThreadRunner` | RTThreadRunner.h, with discrete time | - |
| `RTSafeEventDistributor` | RTSafeEventDistributor.h | queues as `BoundedFifo`s |
| `Device` | the shared part of Device.h/.cpp | - |
| `Client` | Client.h/.cpp | extends `Device` |
| `Coordinator` | Coordinator.cpp, and the three threads that run all of the above | extends `Client` |
| `MaschineMK1` | what a MaschineMK1 sends: tick(), init(), MIDI out | queue as a `BoundedFifo` |
| `MaschineMidiIn` | what a MaschineMK1 relays: MIDI in | - |
| `ControllerTables` | the numbers of LEDs and buttons of all eight controllers | - |
| `Controllers` | what the other eight classes send: init(), setLedImpl(), drawing, tick() | extends `ControllerTables` |
| `ControllerInput` | what all eight controllers make of reports and MIDI messages | extends `ControllerTables` |
| `Figures`, `FigureShapes` | Canvas.cpp's figures; what each should look like | - |
| `Canvas` | a canvas, its chunks and the device that sends it | extends `Figures` |
| `Displays` | buffers, colours and dirty marks of the graphic displays; LedArray, LED matrix | - |
| `SegmentFonts`, `TextDisplays` | the two segment fonts; the three text displays | - |
| `TraceRecorder` | recording threads, the dump, the summary | - |
| `MidiDriver` | `DriverMIDI::enumerate()` and its tasks | - |
| `UsbTransfers` | `DriverLibUSB`'s list, `DeviceHandleLibUSB`'s transfers | - |
| `DeviceHandles` | the handles of HIDAPI and MIDI; packets of USBMidi | - |
| `Orders` | Version, DeviceDescriptor, DeviceFactory, DiscoveryPolicy, Color | - |
| `LockFreeQueueProofs`, `RTThreadRunnerProofs`, `RTSafeEventDistributorProofs`, `CoordinatorProofs`, `MaschineMK1Proofs`, `ControllersProofs`, `InputProofs`, `LibraryProofs` | theorems (section 5) | the module named; `MCInput`, `MCLibrary` for the last two |
| `MCInput` | `ControllerInput` beside `MaschineMidiIn` | both |
| `MCLibrary` | the parts that share no state with another, side by side, and the samples of the algorithms | all from `Figures` to `Orders` |
| other `MC...` | instances for TLC | the module named |

How they correspond to the code:

* **LockFreeQueue.** Variables have the names of the members. `enqueue()` is
  `EnqueueCheck`, `EnqueueWrite`, `EnqueuePublish`; `dequeue()` is `DequeueCheck`,
  `DequeueRead`, `DequeueRelease`. An acquire load may return an old value of the
  other thread's index, anything since the last value seen: `Between`. Slots are
  plain memory, so two overlapping accesses to one are a data race. The
  variant whose capacity is a run-time argument has the same protocol.
* **RTThreadRunner.** One action per access to `m_running`, `m_tickFn` and
  `m_thread`; each worker has a control point in the loop. Time passes
  (`Advance`) only when no thread can do anything: a bound that fails here
  fails on every scheduler. A call takes up to `MaxTick`, which may be many periods: the fast
  thread of MK1 has a period of 1 ms around writes to USB of about 50 (MaschineMK1.cpp:431,
  MaschineMK1.h:119-121). What its calls have overrun is `behind`, up to `MaxLate`, and the burst that
  makes up for it is in the model. Timers are relative, calls are counted modulo `Cycle` and the age
  of a thread modulo as many periods, so that the state is finite without a bound on
  time. `Starters` and `Stoppers` say who calls what.
* **RTSafeEventDistributor.** The two threads are the records `rt` and `ui`; an
  event is the number of its dispatch; each atomic statistic is written in its
  own step, except where one thread writes several that no property relates.
* **Coordinator, Client, Device.** A thread has a control point `pc[t]`, a
  device, a client and the rest of the loop it is in. A step ends wherever
  another thread can be seen: at a lock, a callback, an unprotected field. The
  same actions (`ScanLock` ... `BindDone`) run on whichever thread scans.
  The bus changes by `Plug`, and by `PlugOther` for hardware that the library has no use for;
  each makes an event as long as libusb has the callback (`registered`). `UsbHotplug` takes one: it
  scans, or, where `libusb_open()` fails for what has arrived, answers -1, on which libusb forgets the callback
  and every event behind it. `unseen` records the devices that no scan will look at because of this, and those that
  `enumerate()` could not open (`ScanSkip`); the next scan, whoever asks for it, starts anew.
  "input" stands for the four input callbacks, which are bound and called
  alike. `phase` follows a client through its constructor and destructor, in which
  it is registered and may be called.
* **MaschineMK1.** A surface is a display or a group of LEDs: `data` is what the
  client made of it, `shown` what the controller has, piece by piece. `tick()`
  and the `sendLeds()` of `init()` are the two positions of `pos`. Every write
  may fail. The fast thread and the client's callbacks on both
  threads interleave with them.
* **MaschineMidiIn.** A byte knows its kind and its message. The sender sends
  messages, system bytes and stray data bytes and may stop short; the transfers cut
  the bytes anywhere.
* **ControllerTables.** An `enum Led` or `enum Button` is a function from names to
  numbers, given by the runs in which the enum counts; `led()` and `deviceButton()` are the
  sets of names they have a case for.
* **Controllers.** One machine for eight classes; `kind` and the number of devices are
  chosen in `Init`. `step` is the `static` local of `tick()`, which all devices of a class
  share; `turn` is whose tick comes next. The state is that of the first device. Each
  class has its own way to send (`SendArrays`, `JamSendLeds`, Push's comparison with
  `m_ledsPrev`, MK2's frames), and each write may fail. `lost` records, at the step that
  forgets it, a change that the code will not send by itself any more.
* **ControllerInput.** The player's `hands` move between two reports; `states` is what
  the driver recorded, `picture` what the client was told. The slots that `read()` looks at
  (pads in every eighth, buttons in the rest), the early returns after the first button
  (MK2, Jam) and uninitialised members (`known`) are the code's.
* **Figures, Canvas, Displays.** A figure is the sequence of its strokes, sets of points,
  computed with the integer error terms of the code (as recursive functions); unsigned
  numbers that would wrap are larger than any canvas. `Canvas` draws them, marks chunks and lets the device
  send. `Displays` has for each display the bits of each point and the value that a grey
  becomes in them.
* **TextDisplays.** A display is the bytes of its buffer; texts, numbers, values and single
  characters are put in it with the code's alignment, padding and dots. Which texts and numbers is a
  constant.
* **TraceRecorder.** `record()` in two steps (what, when), the gathering of the used slots,
  the sort by time with any order of ties, the rows read again afterwards; one dump may follow
  another.
* **MidiDriver.** One task per pair of ports of one name, with its time-out of 500 ms as a
  nondeterministic end of the wait, and the list that is built in place.
* **UsbTransfers, DeviceHandles.** Submission, completion, callback and resubmission of an
  asynchronous transfer against synchronous reads of the same buffer; a transfer of either kind may bring a report and
  still end with an error (`Discard`), and both `cbTransfer()` and `read()` pass that report over; the loop of `read()`s of a tick over
  HIDAPI, where `TRUE` may bring nothing.

Definitions whose comment begins with "mutant" are variants with a
plausible bug. They are in no specification: each replaces its original when
the corresponding property is tested for being able to fail.

## 3. The runs

| run | instance | what it shows |
|---|---|---|
| `lock_free_queue` | ring of 4, items a, b | no slot race; late sizes bracket the true one; a passed check stays valid; the ring implements a bounded FIFO; what was accepted is delivered |
| `rt_thread_runner` | one owner, 2 workers, 2 functions, period 3, calls of up to 7, up to 8 behind | one thread ticks with its own function; its calls keep the cadence, none left out, and catch up when some overran; after `stop()` none is left; `stop()` waits for one call or the rest of one period; `start()` never ends the program |
| `rt_thread_runner_prompt` | the same, period 4, calls of up to 2 | **violated**: `stop()` is not prompt (section 6) |
| `rt_safe_event_distributor` | 2 RT observers of different priority, 1 UI observer, queues of 1, 2 events, 2 starts | `CountersAgree`: the accounting identity at every moment, maximum and last time; `ObservedInOrder`: observation before queueing, priority order; delivery both ways |
| `coordinator` | 2 clients, 1 device, 2 changes of the bus, 3 threads, opening may fail | callbacks are serialized; locks are ordered; the handle stays during a tick; when no scan runs, the list is wrong about no device but those named in `unseen` or with an event still queued |
| `coordinator_live` | 2 clients of 1 device, or 1 client and 1 change of the bus | the destructor returns; a request for a frame of the client whose callback is bound is followed by one, also while the other takes the device |
| `coordinator_dangling` | 1 client, 1 device, 1 change | **violated**: a destroyed client is called (section 6) |
| `maschine_mk1` | 1 display of 2 chunks, 1 LED group, 2 values, 3 retries, queue of 1, 2 operations | what is clean is shown; MIDI keeps its order and is not lost; a dirty display is served; a MIDI message is sent however long displays take |
| `controllers` | 8 classes, 1 to 3 devices, 2 pictures, every write may fail | `CleanIsShown`: what is not marked is shown; `CatchesUp`: after one calm round of ticks all is shown; `TablesAreConsistent`: LEDs in their arrays, apart from each other, buttons in their reports |
| `controller_input` | 8 classes and each of their parts; encoders of up to 4 turns; MIDI messages of 2 and 3 bytes, 3 of them, 2 extra bytes or cuts | `PictureIsCurrent`: a client's picture follows the hands; `TurnsKeepDirection`; `MidiInIsFramed`: whole messages are relayed once, in order, as they were sent, and the buffer stays short |
| `library` | canvas of 8 x 6 in 4 chunks and 13 figures; text displays with 3 texts, 4 numbers; 2 recording threads with rings of 2; 2 pairs of ports; 3 reports; samples of the algorithms | seven properties, one per part (below) |
| `maschine_midi_in_system` | sizes 2 and 3 | **violated**: a system byte is relayed as data (section 6) |

The properties of `library`: `DrawingsAreRight` (lines stay within half a point of the
true line, filled triangles have no hole, circles are round and have no gap, rectangles and bitmaps
are exactly themselves; each point has bits of its own; what a display does not mark did not change; a
row of LEDs shows its value), `LookupsAreRight` (orders, the factory's and the policy's
look-ups, the cache of greys, the device that is connected is the one that was listed),
`PictureIsShown` (a canvas without a mark is what the display shows),
`TextsAreShown`, `RestingThreadsAreWhole` (a dump has all of a thread that rests, whatever
the others do), `DevicesAreListed` (each device that answered is on the list once),
`ReportsAreWhole` (every report of a USB device is given once and in order, or it is one that the other endpoint
overwrote, or that came with a failed transfer; a transfer is always under way; HIDAPI and MIDI handles
give theirs once and in order; a sysex is whole in its packets).

Why the bounds are enough:

* Four slots let the ring wrap, fill and run empty, and let a late index be one,
  two or three behind. No history is kept, so that no bound on the number of
  calls is needed.
* Two workers are needed to see a thread outlive the next `start()`. A period of 4 with
  calls of 0 to 2 has calls that end at once and such that leave a
  part of the period; every `stop()` falls at every point of it.
* With a queue of one a second event meets it full; `MaxRTEventsPerCall` = 1
  ends a drain with something still queued; two starts let one session's queue
  reach the next. The two invariants are proved for all other sizes.
* Two clients compete for one device, one of them binding while the other is
  being destroyed, and change places (`ClientSymmetry`). Two changes of the bus are an event and one more behind it, which
  a failing `libusb_open()` takes along, and a device that comes or goes once libusb has forgotten the
  callback; each can fall at every point of a scan, a tick, a
  connection. `SafetyChoices` keeps the second client away once the bus has changed twice. With liveness the choices are
  fewer (`LiveChoices`): both clients are there only while the bus stays as it is and nobody rescans,
  one client with one change and any rescans, and what cannot be opened is left to the run `coordinator`. Fairness
  asks for none of the steps left out. More devices, clients and changes are
  covered, for the four invariants, by the proofs.
* Two chunks make a torn frame possible. Three retries are the code's own
  number. Two operations are a change and another during its sending, a change
  and a disconnection, or two messages. A second display or group is handled by
  the same loop after the first; a failed LED write, which ends the loop, is in
  the model for any number of groups, and one is what TLC checks in its time.
* Up to three devices share the state of `tick()`: with 2, 3 or 4 steps there are numbers
  of devices that divide it and such that do not. An LED array is seen through LEDs that
  take every path of `setLedImpl()` (`Touched`).
* Four turns go over the wrap of each encoder. Each part of a controller is played by itself,
  as the code keeps apart what they record.
* A cut and two stray bytes can meet in one message; three messages show what
  a torn one does to the next two.
* The canvas has chunks of one row and a last one that is higher; figures leave it on two sides and
  cross each other. Text displays have their real sizes, and texts are empty, short and longer than
  a row (the proof covers all others). A ring of two with three events wraps; time that stands still makes ties. Lines have all
  ends in a square of 5, triangles in one of 4 (no property of them depends on where they are).
* Two pairs of ports can have one name, two, or none. Three reports can overlap a synchronous
  and an asynchronous read. Pads are taken in every second try of four; in the
  code in every eighth of 32.

Deadlock is not checked where a system may stop: an application that does
nothing, an owner that never starts, bounded counters. Circles of locks are
found by `LocksAreOrdered` and by the liveness properties instead.

Properties that say less than their name:

* `CleanIsShown` excepts a surface that the client changed *while it was being
  sent* (`raced`). `sendLeds()` and `tick()` clear the flag after they have written, so
  such a change may really stay unsent until the next one. It also excepts a display
  that the code has given up after `kMaxSendFrameRetries` failures in a row.
* `ListIsCurrent` excepts what no scan has been told of. After a `libusb_open()` that failed for an
  arriving device, of whatever kind, the callback is gone for good: the list then stays as it is, however the bus changes, until
  somebody calls `enumerate(true)` (section 7).
* `RequestsAreRendered` is about the client whose `render` callback is bound. A second client that finds the
  same device binds its own in its place (Client.cpp:184-190, 89-95); the first is not told, keeps its
  `m_pDevice`, and its requests are never served again. That is the `~IsRendered(k)` of the property, and
  the run has two clients so that it comes about at every point of a frame.
* `ShutdownTerminates` supposes that a client was registered at some time:
  otherwise the thread waits for one without looking at `m_running`.
* `CleanIsShown` of `Controllers` excepts what is in `lost`: each step that adds to it is a
  loss of the code (section 7), and a mutant that loses more is caught.
* `CatchesUp` holds for a number of devices that has no divisor in common with the number
  of steps; for others it is false: each device sees the same steps for ever.
* `IntactAreRelayed`, in `MidiInIsFramed`, excepts a message that has a system byte inside, one that
  stopped short, and the one after that: the parser has no way to tell.
* `TablesAreConsistent` is about the tables of `ControllerTables`: MK1's are not among them, and it excepts
  the end of Push 2's array and Push's `textDisplay(4)` (section 7).
* `TurnsKeepDirection` supposes that an encoder was turned no farther than its code can
  tell; `PictureIsCurrent`, for the keyboards, that the octave was read before a key. A picture is
  compared with the hands when reports have settled, that is, after one that brought nothing new. A report of the pads
  that MK2's and Mikro's `read()` passes over (it takes the 1st, 9th, 17th ... of a call) settles nothing: a picture
  that stays behind because the last report was passed over is not caught.
* `ReportsAreWhole` excepts the reports of USB that are in `spoilt` and `discarded`. A report that the other
  endpoint overwrites in the shared buffer is lost to its reader, who is given the other's in its place; one that
  comes with a transfer that ends in a time-out or an error is thrown away. The code loses both (section 7). The property says
  that nothing else is lost, that a foreign report stands only where one was overwritten, and
  that none comes twice or late.
* `PictureIsShown` excepts `fill()` and `invert()` of a whole canvas, which mark nothing.
* `LookupsAreRight` looks colours up for greys only: for others the cache is wrong (section 7).
* `RTThreadRunner` is checked and proved for one owner. Nothing says that
  several threads may call `start()` and `stop()`, but `Device::onConnect()` and
  `onDisconnect()` can run on two threads if a device goes while it is being
  connected; then the new thread is not joined. This is listed as a hazard.

## 4. Fairness

| assumed | because |
|---|---|
| weak, for a thread that has begun something | threads are scheduled, calls of the client return, reads time out |
| weak, for `Advance` | time passes |
| weak, for a consumer that sees the latest index | the consumer polls, and a store becomes visible in finite time |
| strong, for `ProcessUIEvents`, `ProcessRTEvents` | the application's two loops come back to drain, whatever else they do in between |
| strong, for taking a mutex (`Acquire`) | the Coordinator's thread gives its lock back each round and takes it again: a waiter finds it free again and again and gets it in the end. `std::mutex` does not promise this; without it every scan could starve, and no property of progress would hold |
| strong, for `OnRender` | `compare_exchange_weak` fails now and then, not for ever |
| none, for the application and the bus | nobody has to plug, draw, send, start or stop anything |

## 5. The proofs

Eight modules hold theorems; every leaf is checked by TLAPS.

**LockFreeQueueProofs**, for every capacity and item set, under
`CapacityAssumption` (at least one slot) and `NothingAssumption`:
`TypeCorrect`, `RaceFree`, `SizeIsBracketed`, `ChecksStayValid` and `Refinement` (`Spec =>
Fifo!Spec`). The properties are not inductive by themselves: that a check stays
valid depends on how an index that was seen relates to the one that is now. The
inductive invariant adds `SeenHeadInv` and `SeenTailInv` (a seen index lies
between its last value and the ring's other end) and `SlotInv` (what a thread holds is
what its slot has). Arithmetic modulo the capacity is done in lemmas about
`Succ` and `Size`. For the refinement, a write, a load or a failed check leaves `Contents` alone;
a publication appends one item and a release removes one.

**RTThreadRunnerProofs**, for every period, every length of a call, set of functions and of workers,
and every bound on what a thread gets behind, under `PeriodAssumption` (a period is not 0), `BoundAssumption`
(the counters wrap later than the bound) and one caller: `TypeCorrect`, `OnlyOneThreadTicks`,
`StopLeavesQuiet`, `StopWaitsForOneCall`, `SingleCallerIsSafe`. The
inductive invariant relates the owner's place to the members (`CallerInv`), the workers to `m_thread`
(`WorkerInv`), `nextTick` to what the calls have overrun (`TimerInv`), and states for a waiting `stop()` that
what it has waited, and what is left of the call and of its period, are at most the
longer of the two (`WaitInv`): a thread that is behind sees `stop()` before its next call.
`CadenceKept` (`KeepsCadence`) rests on `CadenceInv`: the time
since a thread began plus what is left until `nextTick` is the periods of the calls it has made. A call that
takes long moves time from the one to the other and leaves the sum alone, which is the reason that
the cadence does not drift.

**RTSafeEventDistributorProofs**, for every set of observers and their priorities, every
capacity and bound of a drain and any number of events and restarts, under `PriorityAssumption`
(priorities are integers) and `BoundsAssumption`: `CountersRight`
(`CountersAgree`) and `InOrder` (`ObservedInOrder`). The first
rests on `CInv`: the identity is inductive, but that no counter exceeds what was
dispatched needs to know who still has an event in hand (`CountsAreCovered`), and that the greatest time
covers the last needs the time on its way in (`TimesAreCovered`). The second
rests on `OInv`: while an event is with the RT observers, those in front (`Told` of them)
have seen it and the rest, which is `rt.left` (`LeftIsRest`), the one before (`SeenInOrder`); what is on its way to
the UI is no newer than the last event that all have seen (`OnTheirWay`). Both
survive `initialize()` in the midst of a queue that still holds events, which is why they
speak of events since (`before`).

**CoordinatorProofs**, for every set of devices and clients, every policy and any number of changes
of the bus, with the three threads: `TypeCorrect`, `HandleStays`, `ListCurrent`,
`CallbacksSerialized` and `LocksOrdered`, that is all invariants of the run `coordinator`. The
inductive invariant `IInv` says where a thread is when it holds a lock (`DescriptorsHeld`,
`DevicesHeld`, and the same of the callbacks of a device), what its loop has still to visit,
that the callback it is inside is the one that is bound, and how the list relates to the bus while a
scan is under way (`ListFollowsBus`): outside of `unseen` and of the devices of queued events (`Pending`), what was found
and what is still due together are the bus, since every change puts its device into one of the two, and only a scan
that has the lock takes it out. It was checked with TLC for two instances before it was proved. That no thread waits in
a circle follows from the ranks of the three kinds of locks.

**MaschineMK1Proofs**, for any displays and groups of LEDs (distinct, under
`SurfacesAssumption`), any number of pieces to a frame and of retries, every capacity of the queue and any number of
messages, failures and reconnections: `MidiOrdered` (`MidiInOrder`), `ClientsSee`
(`CleanIsShown`) and `TypeCorrect` (`TypeOK`), all invariants of the run `maschine_mk1`.
The first rests on `MInv`: of one sender, what was sent is older than what the fast thread
has in hand, and this than what waits. The second rests on `DInv`: every surface is
settled (dirty, shown, given up or raced) but for the one the client is changing, whose
own place says what is still owed to it (`ClientIsRight`); what a sending has written
so far is shown unless a change raced it (`SentIsShown`), and the count of failures
never exceeds the failures there were (`CountIsCovered`), so that no frame is given up
early. `TypeCorrect` is where the count stays below `kMaxSendFrameRetries`.
Both invariants were checked with TLC for one display with one and two groups.

**ControllersProofs**, for any of the eight kinds, any pictures and any number of devices of the
kind: `CleanShown` (`CleanIsShown`) and `DevicesCatchUp` (`CatchesUp`). `CleanInv` takes the marks
one by one: an array without a mark is shown cell by cell (`ArraysClean`), a screen without a mark
as it is (`ScreensClean`), and a source (the Jam's matrix and strips, F1's display) has been copied to its array
(`SourcesClean`), each unless it is in `lost`; `Shape` says which arrays, screens and
sources there are. Every class has its own way to send, and so a lemma of its own. That a device
catches up rests on `RoundInv`: after `calm` ticks, each step of `tick()` has been served or is one
that the device's remaining ticks of the round come to, the static `step` moving on by the number of
devices from one of them to the next. That these ticks visit every step is the lemma
`RoundIsComplete`, where the number of devices and the number of steps have no common divisor.

**InputProofs**, for any number of turns, of transfers that a `read()` looks at, and of messages, stray bytes
and cuts at MIDI IN: `DirectionTold` (`TurnsKeepDirection`), `PictureCurrent`
(`PictureIsCurrent`) and `MidiInFramed` (`MidiInIsFramed`), all invariants of the run `controller_input`. The first rests on `EncoderInv`: the position is the recorded value plus what is owed to
the client, modulo the positions of the encoder. What the code compares then gives the
direction, over each wrap, by a lemma for each kind of encoder (`WheelDirection`, `KnobDirection`,
`DialDirection`). The second rests on `PictureInv`: the picture is what was recorded, a read that brings
nothing new has recorded all of the hands, and the first key of a settled picture is the octave's.
`MidiInFramed` (`MidiInIsFramed`) rests on `FrameInv`, about the bytes of which no message was made yet
(`Rest`: buffer and wire, so that a transfer changes nothing). What the parser
takes for a message ends before the next status byte, unless the message in front of that was cut (`SpansInv`), the bytes of a
whole message are in a row behind its status byte (`BytesInv`), what was relayed is in order and older than what waits (`RelayedInv`), no
message behind a whole one is missing from both (`NoneIsMissing`), and between transfers the buffer is the
beginning of one message (`BufferInv`). That a cut message can cost the next one
and never the one after it is `SpansInv`, kept when a message begins.

**LibraryProofs**, of the parts in `MCLibrary`: `PictureShown` (`PictureIsShown`) for a canvas of
any size and any number of chunks up to its height, `DevicesListed` (`DevicesAreListed`) for any finite set of ports with
any names, `ReportsWhole` (`ReportsAreWhole`) for any number of reports and of tries and places of the pads,
and `LookupsRight` (`LookupsAreRight`) for the samples, from theorems that hold for all inputs:
`VersionsOrdered`, `DescriptorsOrdered` (ties are an equivalence, so that a map can be kept by an order that compares the
product twice), `ColorsOrdered`, `FactoryFinds`, `GreysFound`, `ConnectFinds`, and `SysexWhole` for a message of
any length; `RestingWhole` (`RestingThreadsAreWhole`) for any number of threads, rings of any size, any events and times;
`TextsShown` (`TextsAreShown`) for any texts of ASCII and any numbers of less than ten digits on all three
kinds of displays; and `DrawingsRight` (`DrawingsAreRight`), from theorems about what is drawn. The invariants: `CanvasInv`
(without a mark, and unless `fill()` or `invert()` went before, picture and display are
one; that every point that a figure changes has its chunk marked is shown stroke by stroke, for the least
stroke after which it would not be so); `MidiInv` (which task is where, that one of them has the mutex, and that the
list is what those behind it have added); `UsbInv` (the account of each endpoint,
`Accounts`, is right up to the report that waits in the input buffer, and that is its next or is overwritten already: an account
stays right when more is overwritten, `SpoiltMore`, when the next report is thrown away, `ThrownAway`, and when it is given, `Copied`); `HandleInv` (the
queue in order, what was processed once each, and the report left in the caller's transfer
lies between what was processed and what waits).

`TraceInv` is about the rings at all times and about the dump for the threads that rest. `RingInv`: the slot of
each of a thread's latest events has that event and its time, unless the thread is just writing it; that two of the latest
events have different slots, and every used slot one of them, is arithmetic modulo the size of the
ring (`PlacesApart`, `PlaceIsUsed`). `BusyInv`: a thread that is within `record()` is not
one that rests, and the dump has pointers to all used slots of one that does. `RowsInv`: no slot is written twice. `TimesInv`: of the
threads that rest what waits is sorted, and none of what was written is later than any of it (the rows of
other threads may no longer be what they were sorted by). `WholeInv`: each of the latest events
waits or was written, and nothing else was. The sort is any permutation of the slots that
is in order, so that ties need no argument.

`TextInv` says what was last put on the display and that its bytes are bytes. That a text stands in its row is a
fact about alignment (`AlignFacts`: as many blanks before it as it is aligned, and no more or less than the row is wide) and one
about writing (`TextOnFacts`: what is in the row, and that nothing else changed). The point of KK stands in the bytes of the
row above, and so survives the text that is written after it; that `DotPlace` is where the
text will have the end of its integral part is `PlaceFacts`, for numbers that the code does not pad.

`DrawingsRight` follows from one theorem for each thing that is drawn, for more than the samples of the run:

* `PointsApart`, for every two points of each of the six displays: bits of their own, within the buffer. On
  the MK1 three points share two bytes, and one of them lies in both.
* `ChangesMarked`, for each value that a point may hold and each grey: a change is marked. Push 2
  stores 5 and 6 bits of 8; rounded down, a grey is found again from what was rounded up.
* `LedsShow`, for an array of any length: the first LEDs are lit, within half an LED of the value.
* `LineStraight`, for any two points. Where the loop stands after `i` steps is a closed form: the
  other coordinate is the rounded quotient `Minor(dx, dy, i)`, and `e` is what the
  quotient left (`MinorSteps`). `LineIs` gives from it the course of a line in each of the eight directions.
* `CircleRound`, for any radius. What the error term of the code sums up is the distance: a point is
  on the rim when the square of its own is less than the radius away from that of the circle (`OnRim`). That the rim has no
  gap is `EighthHasTwo` for one eighth of it, and mirrored for the others. `RoundedFramed` takes
  its four corners from there; it is for sizes with room for these, as the invariant is.
* `RectangleFramed` and `BitmapCopied`, stroke by stroke, for a canvas of 100 x 100 as in the invariant.
* `TriangleFilled`, for any three corners in any order, but for the case in which the loop of the code has no end
  (`ScansOverflow`). A row of the triangle is what three turns have on one side (`Turn`), of which the signs
  are those of the scan line's quotients (`RowIs`, `ScansFill`). The quotients are cut off towards zero, so
  that a scan line may end one point outside, next to a point of the edge (`EdgeNext`). An edge that
  is drawn from its other end has other points where the step is just a half; they are next to
  each other (`LineBack`).

Coordinates are integers without a bound there: the theorems say nothing of what 16 bits would cut off.

Assumptions on tables are named and evaluated by TLC on each run, as the names in these
tables are put together from texts, and the fonts are long lists of numbers: `TouchedAssumption` (an LED that is touched has a
cell, and not one that a source writes), `NumbersAssumption` (buttons have numbers, no two the same, but Push's
NavigateDown, which has Shift's) and `FontsAssumption` (both fonts have a glyph for each character of
ASCII, of bytes). `DrawingsAssumption` and `TextsAssumption` are the types of the figures, texts and numbers that are
put; the code has no others but for numbers of ten digits and characters beyond ASCII.

Only model-checked: all liveness, which this prover cannot do under fairness (nor `ENABLED`), and
`TablesAreConsistent`, which is about the numbers themselves. No module declares a recursive operator.

## 6. Where the code and its text disagree

1. `StopIsPrompt`. The test of RTThreadRunner says that `stop()` "is prompt, not bounded by a
   full period". It joins a thread in `sleep_until()`, which nothing
   interrupts: a `stop()` just after a call waits for the rest of the period.
   The test starts a runner with a period of 10 s, stops it at once and wants that to take less than 1 s
   (test/threading/RTThreadRunner.cpp:57-64): it passes as long as `stop()` comes before the new
   thread has looked at `m_running` for the first time. What holds is `StopIsBounded`.
2. `NoCallIntoDestroyedClient`. `~Client()` clears its callbacks so that no tick "calls back into
   a dangling `this`". A scan on another thread that has already copied the client's
   entry binds them again, during or after the destructor; the next tick or
   input calls the destroyed object.
3. `SystemBytesAreSkipped`. The comment on `popCompleteMidiMsg()` says that it skips
   realtime bytes. It does in front of a message, and relays one inside a message as data.

## 7. What the code does unasked

Found while modelling. The models do the same but where section 8 says so; no property says otherwise, and where one
would, it names the case it excepts. No run is given to them. The two about `TraceRecorder` do
contradict its comments (TraceRecorder.h:43-48, 215-217), as is said there; of the others we know no text
of the repository that speaks against them.

**Threads and lifetime.** A third thread that asks a `LockFreeQueue` for its `size()` may
get one of a full ring for an empty one. A client is registered, and may be called, before its members are constructed.
`enumerate()` copies the list of descriptors without its lock. A client whose
device another takes is not told, and renders no more. Entries of `m_collDevices` are never
erased, so that each later scan disconnects again what is gone. `DeviceHandleLibUSB`
does not free transfers, ignores the result of a resubmission, and may be destroyed
with one in flight; `~DriverLibUSB()` leaves libusb before it joins the thread of its
events. `~KompleteKontrolBase()` closes MIDI ports through null pointers where they could
not be opened. The bindings never give up the interpreter's lock, and
`PyClient::controlChanged()` tests `m_onKeyChanged` and calls `m_onControlChanged`.

**Failures.** A hotplug callback that cannot open what has arrived answers -1, and libusb never calls it
again (DriverLibUSB.cpp:49-52). `Driver::connect()` wraps a null implementation, which the next call dereferences;
`DriverLibUSB::connect()` configures a null or closed handle when nothing matches.
HIDAPI's `read()` answers `TRUE` with nothing read and leaves the report before in
its caller's transfer; its `enumerate()` frees a null pointer instead of its list. `DeviceHandleMIDI`
swallows an `RtMidiError`: `write()` then answers `TRUE` with closed ports. What a device
sends before `readAsync()` is never delivered, and what comes with a transfer whose status is a time-out or
an error is thrown away, however many bytes it brought (DeviceHandleLibUSB.cpp:61, 128-129). Both kinds of
reads have one buffer, so that the report of one endpoint can be overwritten by the other's and that be given for it. `DriverMIDI::enumerate()` returns
its list before its tasks end and relies on its being built in place; two units of one name
are listed with each other's ports; an exception in a task is lost; a short answer is read beyond its end.
`MaschineMK1::sendFrame()` ignores the results of its two commands. MK2 takes
the marks off a frame that failed, Push notes an LED as sent that was not.

**State of `tick()`.** It is a static local: devices of a class take its steps from each other.
MK2 and Jam leave `read()` after the first button that changed, wheel and touch strip wait
for the next report. The members that hold encoders are not initialised. The
keyboards keep the first octave and the shift of the report before, and take note-on messages only: a
key released with a note-off of its own (0x80) stays pressed for the client (KompleteKontrol.cpp:685). The model's
keyboard sends a note-on of velocity 0.

**Drawing.** `triangleFilled()` with a flat upper side in row 0 divides by zero or does not end. `fill()` and
`invert()` mark nothing. A bitmap whose width is no multiple of 8 is
read askew; `putCharacter()` counts columns up to the height of the font. `LedMatrixMaschineJam` writes `color_` (always white) for Invert, and
reads a point from index 69 on as transparent black; the template `LedMatrix` is used by no
device.

**Texts and LEDs.** The keyboards' `putCharacter()` takes row * 16 + column for an index;
`putText(double)` with a negative fraction asks for a string of negative length and
throws, places the point as if the text were centred, and before it pads with zeros;
`resetDots()` forgets byte 15. The 7-segment display takes column 2 of 2 and overwrites its
point; the generic one refuses row 0 in `putCharacter()`, and `putValue()` counts 16
columns in rows of 17. Characters beyond a font read beyond it. `LedArray::setValue()` has Right and Center exchanged and
loses a value of exactly 1.

**Tables.** Push takes controller 47 for Shift and for NavigateDown; Push 2's array is too
short for its last LEDs; Push's `textDisplay(4)` is one too many.

**Orders.** Colours of one brightness tie without being equal, so that the caches of Push
and Push 2 find the wrong one. `DeviceDescriptor`'s `<` ignores serial numbers and
ports: two units of one kind share a place in the Coordinator's map.

**TraceRecorder.** Its comment says that at worst "a slot mid-write shows up stale or torn for one event"
(TraceRecorder.h:43-48); rows are read again after they are
sorted, so that any number of a recording thread's may be torn. It sorts so that "any B/E pairing within it" is well-formed (TraceRecorder.h:215-217); the sort is not stable: a beginning
and an end of one microsecond change places, and a wrapped ring has ends without a beginning.

## 8. Not modelled

* The contents of descriptors, frames and reports; `makeDriver`'s choice by platform; what a
  write into a null handle does; formatting and logging.
* `initDevice()` of a client, on the thread that connects: in `MaschineMK1`
  clients draw and set LEDs in callbacks only. A second client that connects a device
  which already ticks is in `Coordinator`, not in `MaschineMK1`.
* `sendMidiMsg()` is one step: callbacks are serialized. Its comment allows any
  thread, which its single-producer queue does not (a hazard).
* Memory ordering beyond late loads of the ring's indices; data races on
  unprotected maps have the outcomes "seen" and "not seen".
* libusb's and the event thread's end. Of libusb's own rules the models have that a hotplug callback that
  does not answer 0 is called no more, and how a transfer ends.
* A key of a keyboard that is released with a note-off message (0x80), which `midiInCallback()` ignores.
* The bitmaps of the three fonts (some 3300 lines) are data that nothing branches on;
  drivers for Arduino boards, which no host builds; the probe driver, which lists nothing; examples,
  tests and build files; the Python bindings, whose locks are those of Boost.Python's callers.

See `components` in `PROJECT.json` for each part.
