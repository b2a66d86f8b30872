# A TLA+ development of OrbbecSDK_v2

This directory specifies the concurrent core of the SDK: how frames travel
from a sensor through asynchronous filters, the aggregator and the pipeline to
the application, in memory that is recycled, how streams are started, stopped
and recovered on the way, and what surrounds them: the player of a recorded
file, the streamer two motion sensors share, video over RTP, the fit of the
device's clock, and USB devices that come and go. TLC checks the modules on small instances;
TLAPS proves the most important theorems for every value of the constants.
Paths below are relative to the repository's root.

    tlc -workers 2 -config Filter_sessions.cfg FilterExtension.tla
    tlapm FilterExtensionProofs.tla

`PROJECT.json` lists the components, the runs, the seeded faults that show
that every property can fail, the code lines behind every definition, the
hazards and the theorems.

## 1. The system

### How a frame travels

    backend thread                dequeue thread of          sensor thread
    (USB, network)                the frame processor        (same thread)
        |                              |                          |
    VideoSensor::onBackendFrame  ->  FrameQueue  ->  process  -> Pipeline::onFrameCallback
                                                                  |  streamMutex_
                                                              FrameAggregator::pushFrame
                                                                  |  frameset
                                                              Pipeline::outputFrame
                                                             /            \
                                                     user callback    outputFrameQueue_ -> waitForFrame

Every frame lies in a buffer of a `FrameBufferManager`; the last reference,
on whatever thread it goes, gives the buffer back. Above all this stands the
watcher thread of each sensor, which restarts a stream that shows no frames.

### Inventory

| Component | Code | State | Operations | What makes it hard | What makes it correct |
|---|---|---|---|---|---|
| Frame queue | `src/core/frame/FrameQueue.hpp` | queue, three flags, callback, a thread | enqueue, dequeue, start, flush, stop, reset | flags written without the mutex, thread ends and is joined by others | nothing accepted is lost; flags tell whether a thread runs; the handshake never ends the process |
| Asynchronous filter | `src/filter/FilterDecorator.cpp` | its queue; configuration map and flag | pushFrame, reset, setConfigValue(Sync) | flag read without its mutex; push against reset | frames worked on once, in order, with a fresh configuration |
| Frame aggregator | `src/pipeline/FrameAggregator.cpp` | queue per stream, flags, minimal timestamp | pushFrame, updateConfig, enableFrameSync, clear | flags surviving pushes, reentrant callback, unsigned time | no front of an empty queue; framesets complete and of one period; the loop ends |
| Pipeline | `src/pipeline/Pipeline.cpp` | stream state, configuration, callback, output queue | start, stop, switchConfig, onFrameCallback, waitForFrame | application against sensor threads; partial failure | restarts clean; order; right sink; calls return |
| Sensor, recovery | `src/device/component/sensor/SensorBase.cpp`, `.../video/VideoSensor.cpp` | stream state, recovery flags, profile, callback, watcher | start, stop, frame, restart | watcher against user; condition variable without predicate | stop final; recovery bounded and ends; state agrees with backend |
| Frame memory | `src/core/frame/FrameBufferManager.cpp`, `FrameMemoryPool.cpp` | limit, account, idle and live buffers | acquire, reclaim, release, freeIdleMemory, limit | two levels of locks; object lies in the buffer it gives back | account right; no reuse under a destructor; calls return |
| Playback | `src/media/playback`, `src/media/ros` | status machine, position, active sensors, queues | play loop, pause, resume, seek, start/stop stream | loop against API; stale frames; wakeups without the mutex | a stop leaves little behind and rewinds; a player gets to the end; calls return |
| Recording | `src/media/record` | writer, status | start, frame, pause, stop | frames against close | every recorded frame once, in order |
| Device container | `src/device/DeviceBase.cpp` | lazy components, sensor table | getComponent, getSensor, deactivate | check then act; timeout on the resource lock | one instance; none after deactivate |
| Device manager | `src/device/devicemanager` | device list, created devices, callbacks | create, arrival, removal, clock sync | unplugging during creation; changes handled in any order | the list settles on what is there; one active device per port, none of an unplugged one |
| Device monitor | `src/device/component/monitor` | heartbeat thread, callbacks | start, stop, pause, register | thread joined under a mutex it takes | one thread; calls return |
| Access control, protocols, property server | `src/device/component/accesscontroller`, `src/device/protocol`, `src/device/component/property` | privilege, request ids, permissions | requests, retries, heartbeats | late answers, lost privilege | an answer belongs to its request |
| Timestamps | `src/device/component/timestamp` | samples, fit; last stamp, overflow base | sample, refit, enable; calculate | clock jumps between sample and fit; two mutexes | a line of one clock, which follows the device's |
| Shared streamers | `src/device/component/sensor/imu` | callbacks per stream profile, running flag, leading samples | start, stop, packet | two sensors over one backend | whoever has started is served; nobody, nothing runs |
| RTP | `src/platform/ethernet/rtp` | packet queue, half a frame | receive, reassemble, start, stop | loss, delay, repetition; restart | frames handed out are whole; an undisturbed one is handed out |
| Firmware update, presets, sync configuration | `src/device/component/firmwareupdater`, `syncconfig`, device families | progress, lists | update, load | one step of several fails | old or new, never between |
| Filters, frames, profiles, platform, logging, C interface | `src/filter/publicfilters`, `src/core`, `src/platform`, `src/shared`, `src/impl` | data, drivers | | image arithmetic, I/O | not a question of states |

`PROJECT.json` says of each whether it is modelled, and lists under "hazards"
what in the code is hard to test, line by line, with the properties that
watch it.

## 2. The modules

| Module | Models | Proofs |
|---|---|---|
| `FrameQueue` | operators of the queue: each is one critical section, or one run of unlocked writes | in the modules that use it |
| `FilterExtension` | EXTENDS FrameQueue: source, dequeue thread, reset, configuration | `FilterExtensionProofs` |
| `FrameRelay` | what an asynchronous filter promises, without queue, threads and reset | refined by FilterExtension |
| `FrameAggregator`, `MCFrameAggregator` | the aggregator and its instances | `FrameAggregatorProofs` |
| `Pipeline`, `MCPipeline` | EXTENDS FrameQueue: application, sensors' threads, consumer | `PipelineProofs` |
| `FramesetStream` | what a pipeline promises the application, without sensors, locks, aggregator and queue | refined by Pipeline |
| `SensorStream` | a video sensor, its backend and its watcher | `DeviceProofs` |
| `FrameMemory`, `MCFrameMemory` | pool, managers, allocator | `FrameMemoryProofs` |
| `Playback`, `MCPlayback` | the player: application, control, play loop, frame queues | `PlaybackProofs` |
| `ImuStreamer`, `MCImuStreamer` | accelerometer and gyroscope over one streamer and one HID port | `ImuStreamerProofs` |
| `RtpStream` | device, network, receiver, processor and caller of an RTP stream | `RtpStreamProofs` |
| `GlobalTimestamp` | the fitting loop and the threads that enable, reset and sync | `DeviceProofs` |
| `DeviceHotplug` | USB ports, their watcher, the arrivals' thread, handlers, users | `DeviceProofs` |

Operators named `Mut...` are faults a careless change could bring in; no
specification uses them. Each shows that one property can fail.

### FrameQueue and FilterExtension

`queue`, `stopped`, `stopping`, `flushing`, `callback` are the members of the
class; `thread` is `dequeueThread_`: absent, at the wait, in the callback, on
its way out, ended but not joined. `crashed` stands for `std::terminate`. Four
threads take steps: the source (`PushFrame` reads `isStarted()` without a lock,
`PushStartFlags`, `PushStartThread`, `PushEnqueue`), the worker (`Take`, the two
checks of the configuration, `WorkerProcess` or, when disabled, `WorkerClone`,
and its end), the control (`Reset` ... `ResetDone`: flush, join, stop, join,
clear, flags) and the tuner. A frame is its number; a configuration is the
number of the call that wrote it.

What is thrown inside the try block of `pushFrame` (the filter, the second look
at the configuration: `WorkerDrop`) drops the output of one frame. What is thrown
outside it, by `updateConfig`, by the clone when memory is short or by the output
callback, leaves the thread's function and ends the process (`WorkerThrows`,
noted in `threw`). On the caller's thread it goes to the caller (`SyncThrows`).

`Overlap` says whether the application pushes and resets at once. Inside the
SDK it never does: `VideoSensor::stop` resets the frame processor after the
backend has stopped. The run assumes that; the public functions ask for
nothing, and the theorems that hold without the assumption are proved without.

### FrameAggregator

All calls are under one recursive mutex, so a push is not interleaved with
another; the loop of `tryAggregator` is split (`Aggregate` cuts, then
`OutputFrameset` delivers) because the callback runs between two rounds and
may come back (`Reentrant`). A frame is its number in its stream and a
timestamp; `Stamps` gives each number the stamps it may carry. A callback that
turns the synchronisation off empties the queues under the loop; when each still
had a frame (`emptied`), the loop goes on to `front()` of an empty queue, which is
undefined, and the behaviour ends there. The timestamp
comparison `a - b <= gap` over `uint64_t` is `Within`: a negative difference
wraps to a huge one.

### Pipeline

The application's call is a program counter (`api`, `index`); a sensor's thread
is in `delivery`. Frames are known by the session, the start, they come from:
enough to ask whether a restart is clean. The aggregator is the set of sessions
it holds frames of; which frames it joins is FrameAggregator's affair. The
output queue is FrameQueue without a dequeue thread. `ISensor::stop` is two
steps, no more frames and then the join of a delivery under way.

`FramesetStream` is the promise behind these: a phase, the number of framesets
cut, the oldest that waits (`next`) and the last the application got. The
application gets `next` and nothing else, while the pipeline streams (`Receive`)
and also after stop (`ReceiveLeft`), which does not empty the output queue: that
stop ends the framesets is not promised, because the code does not keep it; what
waits when a session begins is forgotten before its first frame; and only the
oldest can be lost, when as many wait as the queue holds. There is one more
case, which the code shows: the consumer may take framesets between `fulled()`
and `dequeue()` (`src/src/pipeline/Pipeline.cpp:294-296`), and the next one is
dropped although there is room by then, hence `next = last + 1`. Without either
of the two alternatives `pipeline_sessions` fails. In `Pipeline` a frameset
waits in the hands of the thread that delivers it, then in the queue
(`Waiting`).

### SensorStream

`streamState` follows `updateStreamState` with its two refusals (recovering; a
late frame while STOPPING). The watcher is the loop of `watchStreamState`: the
unlocked read of the state (`Check`), the wait with its gap (`to_sleep`,
`asleep`), the decision, and `restartStream` as stop, clear, start. A frame
takes two steps: it passes the check of the callback, and later updates the
state. The backend may throw when it starts (`StartFails`) and when it stops
(`StopFails`, which `stop` swallows), and may take longer than
`noStreamTimeoutMs_` to open (`SlowStart`). The user may start a stream that is
on, stop one that is off, and pass a profile the backend does not know
(`StartUnknown`: the exception is thrown outside the try block). What a call has
left behind is noted in `mishap` until a call puts it right.

### FrameMemory

`mapMutex` and `mutex` hold their owners; `mutex` is recursive, which
`ReleaseIdleBuffer` needs. A deleter locks the manager, gives the buffer back
inside the destructor and only then lets go, hence "reclaim" and "destroy".
Sizes are small numbers; the rule that a limit below 100 MB becomes 100 MB has
no counterpart at that scale and is left out. The limit may be set at any time,
to less than is in use as well. That malloc itself fails is not modelled.

### Playback

`loop` is where `playbackLoop` is: every wait, every look at the status and
every section under `playbackMutex_` is a step of its own, as is the sleep
between two frames, whose length is left to chance. `position` is the iterator
of the reader, `hand` the frame read, `server` the dequeue thread of a sensor's
queue seen from outside: absent, serving, or being joined by `stopStream`.
`status` only takes the transitions of the state machine. `pause`, `resume` and
`seek` come from a second thread; `seek` on a paused player first shows the last
frames before the position (`previews`), and when these cannot be read it has
moved the position and tells nobody (`SeekThrows`).

### ImuStreamer

`pc` is the call of each sensor: the state of the sensor, `callbacks_` under
`cbMtx_`, and then, without it, the backend with its three tries or its end.
`callbacks` is the set of keys of `callbacks_`, a sensor with a stream profile;
a sensor stops under the profile it was last started with (`Key`), and forgets it
when the start fails. A sensor may be started again while it is started, and
stopped when it is not: `stopStream` throws then.
`packet` is what the port's threads hold, `filtered` the queue of the filter,
`out` the frame in `outputFrame`. Packets and frames are numbered within a
session of the backend: enough to tell whether the first ones were discarded.

### RtpStream

A packet on the wire carries its number in the frame and the mark of the last
one, nothing that tells the frame; `frame` is kept beside it for the properties.
The network loses a packet (`Lose`), holds one up or repeats one (`Shuffle`,
`ReceiveLate`). `buffer` says which frame every part of `rtpBuffer_` is from.

### GlobalTimestamp

A sample is the clock it was taken from, a line the set of clocks its samples
are from and whether they are enough: what the regression computes of them is
arithmetic. `sampleMutex_` is held over several steps by `ensureFitting` only
(`lock`); the property server's mutex is held by a reset until its refit returns
(`server`). `crossed` notes that the clock jumped, or the queue was cleared,
while a sample or a fit was under way.

### DeviceHotplug

The platform's reports come in order (`events`), the list is made by the watcher
and the arrivals' thread, and every removal is handled on a detached thread,
which is what the code does on Linux. `plug` numbers the times something is
plugged in, so that a device object can be told from one of an earlier time at
the same port. `createDevice` is three steps: the look at `createdDevices_`, the
construction, and the insertion, which keeps an entry that is there. An entry of
the list can be used long after (`infos`). At the start no port holds a device.

## 3. The runs

| Run | Question and answer |
|---|---|
| `filter_sessions` | All interleavings of pushes, resets and configuration when push and reset do not overlap: nothing lost, nothing but an exception outside the try block ends the process, configuration not older than the frame; reset returns, and FrameRelay is implemented with its liveness until then |
| `aggregator_framesets` | Two setups. Streams of one rate, one to three of them: framesets are complete and of one period as long as no queue overflows, never of two periods even then. Any stamps, also backwards or zero, while streams, mode and synchronisation change between pushes and inside the callback: fronts exist, frames leave once and in order, nothing that is due stays, the loop ends (`emptied` excepted) |
| `pipeline_sessions` | Restarts and drops with sensors that fail to start and configurations that are refused or missing: sessions stay apart, what a thread has checked holds when it acts on it, framesets go to the right sink; calls return, and FramesetStream is implemented, framesets after stop included |
| `sensor_recovery` | User against watcher with a backend that is slow or fails to start or stop, unknown profiles and second starts: recovery is bounded, ends, forgets nothing; calls return. Without recovery (`Recoveries`) state and backend agree between calls, but for what `mishap` names |
| `memory_safety` | Account of the allocator, reuse of buffers, and no frame refused while a buffer of its kind lies idle, whatever the limit is set to meanwhile |
| `playback_sessions` | Two sensors of a file started and stopped by one thread, paused and moved by another: one frame per thread survives a stop at most, a stopped player is at the beginning, a playing one is not slept through, calls and the destructor return |
| `imu_sharing` | A sensor that has started has a backend and a callback; a backend is on for a started sensor or for a callback left behind only, and one that is off leaves no frames; the first samples of a session are discarded |
| `rtp_frames` | Over a network with faults and across a restart: a frame handed out is whole unless its first packet was lost, an undisturbed frame is handed out, stop returns |
| `timestamp_fits` | The line is of enough samples of one clock unless somebody crossed; it follows the clock in the end; calls return unless the mutexes cross |
| `hotplug_events` | The list settles on what is plugged in, each device once; a port has one active device at most, none from before it was unplugged |

Where a property has an exception, a history variable records that the case has
happened (`overflowed`, `mishap`, `crossed`, `missed`, `outdated`, `unnoticed`,
`overlapped`, `lostStart`, `threw`, `emptied`, `abandoned`). The model reaches
these cases and goes on from them, but for `threw` and `emptied`, where the
process ends or the code is undefined; the property says that nothing else goes
wrong. The cases are listed below.

Two runs refute a sentence of the repository; "findings" in `PROJECT.json`
quotes it with the line of code that disagrees:

| Run | What the counterexample shows |
|---|---|
| `pipeline_switch_fails` | switchConfig deadlocks when a sensor fails to start |
| `memory_deadlock` | two threads out of memory wait for each other's manager |

### Seen in the code while modelling

Reachable in the models, not kept as runs of their own:

- Filter: reset hands the pending frames to the filter; `Filter.h:141-142` says
  they are cleared. A push that overlaps reset can leave a thread under flags
  that deny it (`FlagsTellTheThread` with `Overlap = TRUE`). An exception of
  `updateConfig`, of the clone (`FrameFactory.cpp:239-242` throws when memory is
  short) or of the output callback leaves the dequeue thread and ends the process
  (`WorkerThrows`), although the comment at `FilterDecorator.cpp:34` says "catch
  all exceptions to avoid crashing on the inner thread".
- Aggregator: `Pipeline.h:140` allows switching synchronisation while the
  pipeline runs. From inside the frameset callback, turning it off in a round
  that leaves every queue a frame leads to `front()` of an empty queue: the queues
  are emptied and the flags are not reset (`FrameAggregator.cpp:299-305`, then
  231). It takes sync queues of three frames or more, as streams of three frames
  per second and faster have. `FrontsExist` names the case (`emptied`).
- Pipeline: `waitForFrame` goes on handing out framesets after stop, until the
  queue is empty (`Pipeline::stop` flushes a queue that has no thread, which
  clears nothing: `ReceiveLeft`). `src/tests/testcase/TC_CPP_08_pipeline.md:106`
  asks to verify that "停流后无法再获取帧" (no frame can be had after stop), and :114
  expects "停流后 `waitForFrames()` 超时或返回空" (it times out or returns nothing). A
  start with a callback but no configuration drops the callback; the callback of
  a start that threw is kept for the next; a refused `switchConfig` leaves a
  streaming state without sensors. `mishap` records the last three.
- Sensor: `waitRecoveringFinished` passes `streamRecoverMutex_` and lets it go
  (`VideoSensor.cpp:218`); the watcher, which has decided to restart, may take it
  right after, and the sensor streams after stop has returned. It can also sleep
  through the wakeup of a start (`Check` before, `Sleep` after it), so that a
  start without frames is not retried. A start with a profile the backend does not know throws before the try block
  (`VideoSensor.cpp:106-109`) and leaves STARTING, the profile and the callback
  without a backend. What `stopStream` throws is swallowed (233-239): the backend
  may stay on under STOPPED, and a late frame then makes that STREAMING. A second
  start of a stream that is on may throw and leave START_FAILED over a backend
  that streams, and stop then returns at once. `mishap` records the three. After
  an unknown profile, stop passes on a backend profile that may never have been
  set; the V4L port dereferences it (`ObV4lUvcDevicePort.cpp:721`), which is
  undefined and not modelled.
- Memory: a limit below the usage is stored as it is
  (`FrameBufferManager.cpp:48-59`), although the log at 52 says that the usage is
  stored; the allocator is then above its limit until buffers are freed.
- Playback: `resume`, or the end of the file racing a start, leaves the player
  PLAYING without a stream; a stream started then does not wake the loop
  (`PlaybackDevicePort.cpp:91`; `unnoticed`). A frame tested before a stop opens
  the next session.
- IMU: a start between the erasure of the last callback (107) and
  `running_ = false` (119) returns and is never served; two starts at once both
  start the backend (`crossed`). The callback of a failed start stays, so that
  the other sensor's stop leaves the backend on (`abandoned`). It stays under its
  profile: a start with another profile and its stop leave it there, and the
  backend streams for nobody. So does a second start of a started sensor with
  another profile; both callbacks then get every frame of the sensor. A frame let
  through before a stop sets the sensor STREAMING after it
  (`AccelSensor.cpp:80-83`). Setting a property throws outside the `try` and
  leaves STARTING, the switch of a stop leaves STOPPING.
- RTP: the tail of one frame joins the head of the one before when the packets
  between them are lost and the count fits. The comment at
  `ObRTPPacketProcessor.cpp:75-78` takes the count for a proof, and speaks of a
  wait of 10 ms that is not there.
- Timestamps: `enable(true)` after `enable(false)` does not reset
  `sampleLoopExit_` (`GlobalTimestampFitter.cpp:120-126`): the loop runs once and
  ends (`FitSettles` asks for `~exit`). A refit or `enable(false)` between a push and
  its calculation leads to `front()` of an empty deque, a division by zero or a
  line of two clocks (`crossed`). A reset waits for `sampleMutex_` with the
  property server's mutex, `ensureFitting` the other way round (`Embrace`).
- Hotplug: an arrival notified between the test and the wait of the arrivals'
  thread is not seen until the next one, since the mutex is a local of the thread
  (`missed`). A removal between the look at the ports and the list leaves a device
  on the list that is gone, or lists one twice (`outdated`). Two overlapping
  `createDevice` build two devices, and the second is not tracked
  (`DeviceManager.cpp:182`); a device created from an old entry while its port is
  not listed is not deactivated when unplugged (`overlapped`). A rebooted device
  that is still held is handed out again by `createDevice`.

### Bounds, and why they are enough

- Filter: capacity 2 and four frames fill the queue, drain it and fill it
  again over several resets; resets are unbounded. The configuration changes
  once, at any moment; the proofs cover every number of changes, and
  overlapping calls as far as they go.
- Aggregator: any set of streams is configured, two reach the precision branch,
  three the rate branch. Queue lengths of 2 and 3 with up to four periodic or
  two arbitrary frames per stream overflow every queue and go on. Types keep
  their numbers since the map is ordered by them.
- Reentrant callbacks: in `Wild` one kind of stream has sync queues of three
  frames, the smallest size at which a round can leave every queue a frame, the
  others of two, at which it cannot.
- Pipeline: two sensors, two sessions, a queue of two framesets. With two
  sensors one can fail after the other has started; with two sessions something
  can be left over; with five framesets the queue loses some in a row and is
  emptied after. Stops are unbounded. The run of the failing switch needs one
  frameset and a queue of one.
- Sensor: three starts, two restarts each, with known and unknown profiles.
- Memory: two managers of different size, one of them shared by two producers,
  two deleters, four addresses, one idle buffer, limits of two and four: reaching
  the limit, setting it below the usage, reuse, and freeing the oldest all happen.
- Playback: a file of one frame per sensor reaches its end and is played again;
  two starts and two calls of the control meet each other and the loop anywhere.
  Capacity 3 is one more than what can be left behind.
- IMU: one leading packet and two tries stand for eight samples and three tries;
  three starts with two profiles let one sensor fail or start again with another
  profile beside or after the other sensor. Sensors and profiles are symmetric.
  The invariants also hold with four starts (5.3 million states).
- RTP: frames of two and three packets, three of them, one restart, and two
  faults: with two lost packets head and tail of two frames can meet. The packet
  queue has no bound in the code; one packet in it is enough for the processor to
  be behind.
- Timestamps: fits of two samples instead of four of six; the clock jumps
  forwards and backwards; enabled, disabled and enabled again.
- Hotplug: two ports and two pluggings, of one port twice or of both once; two
  users, two devices. `DevicesArePresent` also holds on an instance with three
  pluggings and one user (5.0 million states), which is too large for the
  liveness property to be a run of the project.

`CHECK_DEADLOCK FALSE` stands in the configurations whose system may stop: its
bounds are used up and everybody is at rest.

### Fairness

A call that has begun goes on, and a thread that has something to do runs:
weak fairness on the steps inside calls, never on beginning one. No fairness
makes an application push or a backend deliver a frame. Strong fairness is
used where a mutex is let go and taken again and again, by frames that come
milliseconds apart and hold it for microseconds (`Pipeline`: `OnFrame`;
`FrameMemory`: `LockManager`, `Free`), and where the watcher leaves
`streamRecoverMutex_` free for a whole timeout between restarts
(`SensorStream`: `StopWait`), where stopping a backend first keeps new
frames out and then waits for the one under way (`StopBackend`, `RestartStop`),
and for a device that answers in time now and then (`GlobalTimestamp`:
`LoopReads`). In `RtpStream` and `DeviceHotplug` neither the network nor the
ports are fair: packets and devices may stay away for ever.

## 4. The proofs

### FilterExtensionProofs

Assumptions: `CapacityAssumption`, `FilterAssumption`, and `~Overlap` where
stated. For every capacity and number of frames and configurations:

- `TypeCorrect`, `CapacityHolds`: with and without overlapping calls.
- `HandshakeHolds` (`~Overlap`): `Handshake` says for each phase of pushFrame
  and reset which flags are up and whether a thread exists. None of the
  properties is inductive alone: that start() finds no joinable thread depends
  on reset having joined it, which depends on the thread having seen
  `flushing`, which no push may clear meanwhile. From it follow
  `TerminatesOnlyByThrowHolds`, `FlagsTellTheThreadHolds`, `ResetDiscardsNothingHolds`.
- `NothingLostHolds` (`~Overlap`): `accepted = processed \o inflight \o queue`,
  step by step; `Clear` is harmless since the handshake says the queue is empty.
- `ConfigNotOlderHolds`: the invariant `ConfigInv` adds that versions only grow
  and that past its first check the worker has a configuration as new as its
  frame. It needs no assumption on overlapping.
- `FilterImplementsRelay` (`~Overlap`): every step is a step of FrameRelay or a
  stutter. Its fairness is checked by TLC (`filter_sessions`).

### FrameMemoryProofs

Assumption: `MemoryAssumption` (threads have one role each, `MaxIdle` is not
zero).

- `DyingIsUntouchedHolds`: `MemoryInv` says that whoever is past a lock holds it;
  a step of another thread then leaves the manager of a running destructor
  alone, and reclaiming appends at the end and frees at the front, which differ
  because `MaxIdle` is at least one.
- `NoneIdleAtRetryHolds`: from the failed allocation to the retry the producer
  holds its manager's mutex, so that no deleter can put a buffer there that the
  retry would not see; whatever the limit is set to meanwhile.
- `UsedIsAccountedHolds`: whatever the limit is set to. `UsedIsAccounted` is two
  sums over the managers, and to know how a step changes them one must know that
  no buffer is in two places: `Apart` says so of idle buffers, buffers in frames
  and the one each deleter is about to give back. Of those a manager has at most
  one, because the deleter holds its mutex (`GivingAlone`). `AccountChanges` is
  the step from one buffer to the sums. It rests on `SumChanges`: replacing one
  summand changes a sum over a finite set by the difference. The sum of the
  community modules is recursive over sets, so `SumExists` first shows by
  induction on the size that the function it chooses exists.

### ImuStreamerProofs

Assumption: `ImuAssumption`. The three properties of `imu_sharing` for any
sensors and profiles, any number of leading packets, tries, starts and packets. Nothing locks
the backend, so the invariant says what the order of the calls gives:

- `Registered`: only unregistering takes an entry of `callbacks_` away, that of
  the sensor's last profile; an entry is of a sensor that is started, or in a
  call, with this profile, or was left behind (`abandoned`).
- `Session`: unless calls have crossed, one call at a time is past its look at
  `callbacks_` and `running_` (`Alone`), and its place tells what `running_` and
  the backend are (`Phase`). A last stop excludes a second one because
  `callbacks_` is empty, and a start that gets in sets `crossed`.
- `Drained`: a backend that is off has no packet and no frame on its way. With
  these, `StartedIsServedHolds` and `UnusedIsOffHolds`.
- `Counting`: how far `ignoreLeadingFrameCount_` and `frameIndex_` have moved for
  the packets of the session; `LeadingDiscardedHolds`.

### PipelineProofs

Assumption: `PipelineAssumption`. `PipelineInv` ties everything to the place of
the application in its call:

- `SensorsByPlace` and `StateByPlace`: which sensors run while the n-th one is
  started or stopped, and what goes with `streamState_`. `SensorsMatchStateHolds`
  is their value between calls; a refused switch is the exception it names.
- `OfThisSession`: frames on a thread, in the aggregator and, past the clear of
  the reset, in the queue are of this session, because a sensor that is off has no
  thread in `onFrameCallback` and the session only changes while all are off.
  With it `RestartIsCleanHolds`.
- `RoomForNewest`: nobody fills the room made by `dequeue()` (`streamMutex_`),
  and a flush never meets a running sensor.
- `Sink`: the callback changes only when no sensor runs. With both,
  `ChecksHoldHolds`; and `SinkAsAskedHolds`, an action property: its proof shows
  for each step that hands out a frameset where it goes.
- `PipelineImplementsStream`: framesets in order and once, of the session that
  streams or, after stop, of the one that has. Every step is a step of FramesetStream or a
  stutter, one lemma for each action that moves a frameset and one for the rest
  (`QuietKeeps`). It needs a second invariant, `Numbered`: what waits are the
  last framesets cut, without a gap, so that the head of the queue is the oldest;
  a thread inside `onFrameCallback` means that the pipeline streams; past the
  clear of the reset a pipeline that has not had its first frame has nothing in
  its queue; and a thread about to drop the oldest has found the queue full, or
  the consumer has taken the one just before. That an enqueue loses nothing is
  `ChecksFollow`.

### DeviceProofs

Three parts of a device that have no state in common, each with the assumption
on its own constants. `SensorInv` is about SensorStream, `ClockInv` about
GlobalTimestamp, `HotplugInv` about DeviceHotplug.

Assumption: `SensorAssumption`. Any limit of restarts, any number of starts, a
backend that throws or is slow, with and without recovery.

- `RestartsAreBoundedHolds`: that `tries`, the restarts since the last sign of
  life, stay within the limit is not inductive: `Counted` relates them to
  `recoveryCount_` at every place of the watcher, which counts after the restart
  and resets the count without the mutex. `Watching` supplies that a watcher
  still asleep has not missed a change of the state.
- `RestartKeepsStreamHolds`: profile and callback are both there or both gone,
  and while `restartStream` has cleared them it holds copies (`Kept`).
- `StateTellsBackendHolds`: without a watcher the user's place in the call tells
  state and backend (`Phase`), where `mishap` tells what an earlier call has left.

Clock (`TimestampAssumption`: a fit needs two samples or more, and no more than
a refill asks for). Any callers, clocks and lengths of the queue, any number of
switches:

- `FitIsSoundHolds`: that a line is of one clock is about the moment it is
  published, long after its samples were taken. `Samples` says what is in the
  queue while nobody has crossed: samples of one clock, and of the device's own
  unless its jump still waits for its refit or the fit is off; a sample in the
  loop's hands is of the clock, with no jump waiting. `Sums` follows the samples
  through the calculation: whoever is about to sum up finds enough of them,
  because what clears the queue sets `crossed` then. `Switching` says when
  the loop is gone: only then may `enable(false)` clear the queue without
  crossing it.

Hotplug (`HotplugAssumption`). Any ports, users, pluggings and devices:

- `DevicesArePresentHolds`: one active device a port. `Tracking` says that
  without overlapping calls one user at a time builds for a port, and that
  `createdDevices_` finds every active device but one that is about to be
  inserted (`MutInsert` loses it). An entry there is replaced only when its
  device has no owner, and a device without an owner is not active (`Holding`).
- That none is left from an earlier plugging in, once all is handled: `Expecting`
  says that a port with a device is on the list or its removal waits for a
  handler, and that a device that has gone has a report or a handler to come.
  That a reported removal does make a handler needs that what is listed is known
  to the watcher (`Looking`), which fails when a removal outdates the look.

### FrameAggregatorProofs

Assumption: `AggregatorAssumption`. Any streams, lengths of queues, gaps and
stamps, both ways of matching, reconfigured between pushes.

- `StreamsIntactHolds`, `RestIsSettledHolds`: with a callback that switches the
  synchronisation. `withOverflowQueue_` and `withEmptyQueue_` are what
  `tryAggregator` goes by; `LimitsAreFlagged` and `EmptyIsFlagged` say that they
  tell the truth about all queues: only the queue just pushed to can be full, and
  a round that empties a queue notes it. `OneRound` covers the mode without
  synchronisation, which resets the flags after one round.
- `FrontsExistHolds`: for any limits of the queues. `EmptyIsFlagged` says that,
  while `withEmptyQueue_` is down, every queue has a frame, also after a round,
  which notes what it empties; a callback that turns the synchronisation off
  empties the queues after that, which goes unnoticed exactly when every queue
  still had a frame (`emptied`).
  `MinimumIsThere` says that `miniTimeStampFrameType_` has a frame whenever the
  loop is to look at it, which in turn needs a minimum of a finite set of stamps
  (`Least`, by well-foundedness).
- `FramesetCoherentHolds`: the frames of any synchronised frameset, whatever the
  rates: each but the earliest follows another one closely enough.
- `NeverMixesPeriodsHolds`, `CompleteUnlessOverflowHolds`: streams of one rate,
  under `PeriodicAssumption` (the jitter is below half of the period). Stamps of
  one period are within half a period of each other and of two periods are not
  (`PeriodsApart`, which is where products of two variables occur). In the rate
  branch equality spreads along the chain of neighbours. That nothing is left out
  needs that all streams have lost the same frames (`InStep`), that the sorted
  fronts are all the fronts (an injection between sets of one size is onto), and,
  in the precision branch, that `miniTimeStamp_` is the earliest front
  (`MinimumIsLeast`): a later frame never comes in front of it, because a frame
  behind another is of a later period than every front.

### RtpStreamProofs

Assumption: `RtpAssumption`. Any number of frames, packets, starts, losses and
shuffles.

- `IntactIsDeliveredHolds`: `IntactHeld` says that the packets that came without
  a gap since packet 0 lie at their places and are what is counted, whatever else
  is in `rtpBuffer_`.
- `WholeUnlessStartLostHolds`: a property of a network that only loses packets.
  `Orderly` says that then the queue is ordered (`InOrder`), that nothing of a
  frame before an opened one is still to come (`PassedInOrder`), and that, as long
  as more of an opened frame is to come, nothing else is in the buffer and the
  count is the number of its packets there (`HoldsOnly`): the count can only reach
  the last packet's number when all parts are of one frame.

### PlaybackProofs

Assumption: `PlaybackAssumption` (the file has a frame, queues have room for
one). Any file, sensors, capacity, number of starts and controls.

- `StaleFramesAreFewHolds`: neither the loop nor a seek holds a lock between the
  test of `activeSensors_` and the enqueue, so that a bound on the queue alone is
  not inductive. `Few` counts the frames that have passed the test with those of
  the queue. The test only passes while the sensor is active, and then its queue
  is served (`Served`), so that nothing is added to the count once the queue has
  been emptied.
- `RewoundWhenStoppedHolds`: `Rewound` adds that the loop begins no round on a
  stopped player, `Settled` that the file counts as unmoved only when no seek is
  under way nor left for the loop to see, and `Placed` that a read once begun is
  before the end of the file and that its frame is kept to the end of the round.

### Only model-checked

All liveness, which is out of the prover's reach, with it the fairness of
FrameRelay. Every invariant and every safety property the runs check is a
theorem. Induction over the natural numbers is used in the form
of a set that contains 0 and, with every number, the next (`Induction` in
FrameMemoryProofs), or of a smallest counterexample (`Least`): the form over a
predicate cannot be instantiated by the provers.

## 5. What is left

1. `AccessControl` (GigE control privilege and heartbeat), `VendorProtocol`
   (requests, retries, late answers), the property server.
2. The components of a device: lazy creation against deactivation, the resource
   lock; the network enumerator and the clock synchronisation thread.
3. Recording; the wrap of device clocks and the anomaly detector; firmware
   guards; frame interleaving.
4. Composition of FrameMemory with the retry of the aggregator; a second start
   of a running pipeline.

### Not modelled

`DeviceMonitor`: unregistering a callback, pausing and resuming the heartbeat
have no caller in the SDK, which registers, enables and disables; the ways in
which these could meet are listed as hazards. `GlobalTimestampFitter::pause`,
`resume` and the asynchronous refit have no caller either. Callbacks that call
back into what waits for them (a frame callback that pauses the player, a state
callback that asks for the device list during `deactivate`) are left out: they
wait for a mutex of the call that joins them. So are devices plugged in between
the first look at the ports and the start of the watcher
(`UsbDeviceEnumerator.cpp:39-44`).

An exception of `createFrameSet` when memory is short
(`FrameAggregator.cpp:150`) leaves `pushFrame` with queues and flags as they are;
it is left out, as is its way through `onFrameCallback`.

Not modelled at all: image filters and format conversion (arithmetic on
pixels), the drivers of the operating systems (seen from here as backends that
start, deliver, fall silent or throw), the assembly of device families, logging,
the language wrappers, the examples and third-party code.
