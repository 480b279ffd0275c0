# A formal model of kist-ext-sensor-io

kist-ext-sensor-io moves sensor data (a UWB position tag, RealSense cameras, microphones)
from the machine the sensors are plugged into to consumer programs, over CycloneDDS.  This
directory holds a TLA+ model of its concurrent core, TLC configurations that check it on
small instances, and TLAPS proofs of its main theorems for all values of the constants.
Paths below are relative to the repository root.

## The system

| part | state it keeps | operations | who it talks to |
|---|---|---|---|
| `DataBuffer<T>` (`include/common/data_buffer.hpp`) | latest value, its time, a mutex | `SetData`, `GetData`, `GetDataWithTime`, `Clear` | every two threads that share data share it through one of these |
| subscribers (`uwb_subscriber.cpp`, `audio_subscriber.cpp`, `color_subscriber.cpp`, `depth_subscriber.cpp`) | DDS reader with a KEEP_LAST queue, a buffer, an optional hook, a watchdog thread | DDS callback, hook, watchdog, `start`, `stop` | publisher by DDS; consumers by buffer and hook |
| camera transmit (`camera_capture.cpp`, `color_publisher.cpp`, `depth_publisher.cpp`) | two capture buffers, `last_stamp` and `published_` per publisher | capture loop, encode-and-publish loops, `start`, `stop` | capture to publishers by buffer, publishers to subscribers by DDS |
| camera receive (`color_decoder.cpp`, `depth_decoder.cpp`) | `last_stamp`, `out`, `decoded_` | decode loops, `start`, `stop` | subscribers' buffers in, `out` to the consumer |
| codecs (`h264_encoder.cpp`, `rvl_encoder.cpp`, and the decoders) | H.264: library contexts; RVL: none | `encode`, `decode`, `reset` | called by the two loops above |
| UWB transmit (`uwb_serial_reader.cpp`, `uwb_publisher.cpp`) | serial port, line buffer, `sample_buf`, `last_sample_time` | open, handshake, read, re-open; publish-on-new; `start`, `stop` | the DWM device's shell; subscribers by DDS |
| microphone transmit (`audio_publisher.cpp`) | PCM handle, chunk being filled, `seq`, counters | capture-and-publish loop, `start`, `stop` | ALSA; subscribers by DDS |
| assemblies (`src/system/*.cpp`) | `running_`, the parts; `ExtSensorIoTx`/`Rx`: lists of assemblies | `start`, `stop`, destruction | own all of the above |
| configuration (`config.hpp`, `dds_config.hpp`, `*_config.cpp`), runner (`main.cpp`) | settings, rates for printing | once at start; a 1 Hz report | assemblies |

What is hard about it: every stage is a thread that polls a latest-wins buffer written by
another; watchdogs check a snapshot and clear later; both sides are started, stopped and
restarted independently while the other runs; DDS queues overflow; the UWB device has a
shell whose one command toggles, and it can be slow, reset, deaf or unplugged; capture threads
end by themselves; `start()` can fail half way or throw.

What makes each part correct:

- **subscriber**: old data disappears in bounded time, fresh data is not dropped (but for the
  race below), the hook sees each message once and in order and never runs ahead of the buffer;
- **camera pipeline**: the consumer sees captured frames and never goes back in time; no frame
  is decoded twice in a session; counters count frames; the last frame before a pause arrives;
  silence reaches the buffers;
- **microphone transmit**: frames are published once and in order; between the first and the last
  read of a session audio is missing only where an overrun was counted; an overrun does not stall
  capture;
- **UWB transmit**: fixes are published in order and as often as they were parsed; a responsive
  device ends up streaming; `stop()` returns if the port takes what is written to it; a lost device
  is found again if its loss shows as an error;
- **assemblies**: of a machine no thread survives a failed start, a stop or a destruction; a buffer
  outlives the thread that polls it, and no camera thread polls the buffer of a stopped producer
  (the UWB publisher does); `std::terminate` takes the destruction of a running receiver, or a second
  `start()` of an assembly used directly that has thrown or has no guard; a sensor that fails to start
  does not stop the others (one that throws does);
- **codecs**: decoding inverts encoding, for depth exactly; for color a damaged picture has a
  recent cause and the next key frame mends it;
- **line parser**: it does not matter where the reads cut the text;
- **configuration**: both sides read the same sensors under the same names from one file.

`PROJECT.json` lists every hazard with the line where it bites and the properties that cover it.

## Modules

| module | models | extends |
|---|---|---|
| `DataBuffer` | the buffer as a record `[data, at]` and its operators | |
| `ReaderQueue` | a DDS reader's KEEP_LAST queue (external, as `InitChannel` asks for it) | |
| `Subscriber` | one subscriber with an explicit clock | `DataBuffer`, `ReaderQueue` |
| `SubscriberProofs`, `ReaderQueueProofs` | theorems and lemmas about the two | |
| `LatestWins` | the abstract specification of a chain of latest-wins buffers | |
| `CameraStream` | one stream of a camera from device to consumer, both processes, restarts | `DataBuffer`, `ReaderQueue`; instantiates `LatestWins` |
| `CameraStreamProofs` | theorems about it | |
| `ColorGop` | key frames and difference frames in the color stream | `CameraStream` |
| `ColorGopProofs` | theorems about it | `CameraStreamProofs` |
| `RvlCodec` | the depth codec, encoder and decoder | |
| `BgrToI420` | the pixel arithmetic before the color encoder | |
| `CodecProofs` | theorems about the two | |
| `UwbTransmitter` | DWM device, serial reader and line parser, publisher, `start`/`stop` | `DataBuffer`; instantiates `LatestWins` |
| `MicCapture` | the microphone's capture-and-publish thread over an ALSA ring | |
| `MicStream` | the microphone end to end: sequence numbers, the reader's queue, the hook | `MicCapture`, `ReaderQueue` |
| `UwbTransmitterProofs`, `MicStreamProofs` | theorems about the three | the module each is named after |
| `SensorConfig` | what `run_tx` and `run_rx` make of the configuration file | |
| `Lifecycle` | all assemblies and `ExtSensorIoTx`/`Rx` | `SensorConfig` |
| `LifecycleProofs` | theorems about the two | `Lifecycle` |
| `MC*` | the modules TLC runs | |

Definitions commented *Mutant* are plausible bugs (a dropped guard, a reversed comparison, a
missing reset).  No specification uses them; each property fails when its mutant takes the
place of the definition it follows, which shows that the property depends on the code.

### Subscriber

Messages are numbered in the order the publisher writes them.  `Receive` is the callback up to
`SetData`, `CallHook` the rest of it; `Snapshot`, `FoundFresh`/`FoundStale` and `Clear` are the
lines of `watchdog_loop` between which other threads can run: the snapshot is taken under the
lock, its age is computed after the lock is released, and `Clear()` locks again.  `OpenChannel`
and `StartWatchdog` are `start()`; `StopWatchdog` and `CloseChannel` are `stop()`, which joins
the watchdog, then destroys the reader and keeps the buffer.  `Tick` lets time pass, but not
past the moment by which the watchdog has run: `LagMs` is what the scheduler may add to
`sleep_for` plus one loop body.  `TimeAssumption` asks for `LagMs <= StaleMs`.

### CameraStream

A frame is its `stamp_ns`; capture produces 1, 2, ... .  `kind` selects color or depth, which
differ in that the H.264 codec may yield nothing (`EncodeNothing`, `DecodeNothing`).  A loop
iteration of an encode thread is three steps: take the new frame (`EncoderPoll`), write it
(`EncodePublish`), count it in `published_` (`CountPublished`), between which the receiver may
already have decoded the frame.  One of a decode thread is two: take the new frame (`DecoderPoll`),
and decode it (`Decode`; that `decoded_` is counted a moment after `SetData` makes it at most
smaller).  Time is abstracted to one bit, `age`: whether a second has
passed since the last `SetData`.  A color publisher that does not start makes `start()` stop the
depth publisher that was already running: for the depth stream that is `StopPublisher` and
`StopCapture`.  `PublisherFails` is the failure of the stream's own publisher.

### ColorGop

Every step is a step of `CameraStream`; this module adds which packet is where, by numbering the
packets that are published.  A packet is a key frame or a difference to the packet before it
(`open()` asks x264 for key frames at a fixed distance, no scene cuts, no B-frames).  The two
libraries are external: a new encoder begins with a key frame, a decoder rejects what precedes
its first key frame, and yields a damaged picture or nothing for a difference whose reference it
does not have.  `lost` is the history of the packets the present decoder will never take.

The model shows a way to damage that the code's author may not expect.  After a restart of the
transmitter the first packet is the old frame, encoded again (`last_stamp` is a local of
`ColorPublisher::run`); it is the new encoder's key frame, but a receiver that kept running drops
it, because its stamp is the one it decoded last (`color_decoder.cpp:121`).  The differences that
follow have no reference, until the second key frame.

### RvlCodec

An action is a loop body of `encode()` or `decode()`, and one 4-bit group of `write_vle` or
`read_vle` (`WriteGroup`, `ReadGroup`), to which the other actions go and from which they come
back (`encNext`, `decNext`).  `data` is the byte string with its padding group, `GroupAt` is
`read_nibble` with its zeros past the end.  Two groups are a byte, so bits are not modelled.
`wrote` is history: the encoder's variables at the time it wrote each group.
The metadata of a frame is copied and left out (`decode()` does not copy `sequence`, which no
consumer in the repository reads).

### UwbTransmitter

What the device prints is a sequence of tokens: the prompt, a line without a fix, or the n-th
fix.  The device is the environment `handshake()` is written for: two `\r` open the shell, `lec`
toggles the stream, opening the port may reset it.  `responsive` says whether it takes every
write and answers before the reader looks again; both cases are checked, and only the liveness of
the handshake needs it.  `Hello`, `AwaitPrompt`, `AwaitAck` and `HandshakeTimeout` are the branches
of `handshake()`.  Its writes are places of their own (`Writing`), for `WriteAll`, which is
`write_all()` and its `tcdrain()`, waits until the device has room and looks at nothing else
meanwhile.  `Throw` is `reader_loop`'s exception handler, to which a handshake that times out comes as
well as an I/O error (`uwb_serial_reader.hpp:37-38` speaks of the latter only).  The port of a device that is gone is
`dead`, reads and writes fail, or `hung`: reads return 0, as those of a hung-up tty do, and only a
write may fail.  (`IOError` in `hello` stands for the first write, which follows at once.)

A read takes everything printed so far or ends within a data line.  `first` says what is unread
of the first line: all of it, its `tail`, in which the position is still complete (the cut was
before `POS,`), or a `rest` in which it is not.  `held` says that `read_loop`'s `buf` ends with the
head of that line.  `ReadPending` is one call of `read_pending`: the lines it completes wait in
`lines` until `ParseLine` has parsed and stored them one by one, each of which the publisher may
see; of a `rest` whose head was lost nothing can be parsed (`Extracted`).  What the handshake reads is not handed to `read_loop`: a line it cut is found
by the read loop in its tail only, and `session` is the fix before the first one that the read
loop can find.

### MicCapture

Frames (one sample per channel) are numbered as the microphone produces them; ALSA is a ring
that, when it overflows, loses its contents and waits for `snd_pcm_prepare`.  The thread's
states are the points of `run()` between which other things happen: the inner loop's condition,
the blocking read, the complete chunk before and after the last look at `running_`.  `Read`
returns any part of what was asked for, `Overrun` is the `-EPIPE` branch, which keeps what the
chunk holds already, `ReadError` ends the thread.  `gaps` and `lastRead` are histories of what
was read within a session.

`MicStream` adds `seq`, the queue of `AudioSubscriber`'s reader and the hook.  A message carries,
as history, the session and the overruns counted when it was written.  Within a session the
numbers of two chunks tell how much audio the queue has dropped between them; audio lost to an
overrun does not show in them (only in `overruns()`), and since `seq` is a local of `run()` they
begin at 0 again after a restart: a consumer that missed the end of one session and the beginning
of the next may see consecutive numbers across the gap.

### SensorConfig and Lifecycle

A configuration file is a UWB section, a list of cameras and a list of microphones, each entry
with a name (which may be missing, or another entry's), `enabled`, and for a microphone whether it
has a device.  `CamerasFromYaml` and `CameraNamesFromYaml` are two loops in the code, one for each
side.  A vector that a loop fills from a list is a function on the positions of the entries it
keeps, which is what their order is worth.  `RunTx` and `RunRx` are the plans that the two runners
pass to `ExtSensorIoTx::start` and `ExtSensorIoRx::start`: sensors numbered in start order, the UWB
tag first, then cameras, then microphones.

The owner is one thread, and its state is a stack of two calls.  `call` is its call of the host,
`start`, `stop` or the destructor, or an exception on its way out (`unwind`); `ahead` are the
assemblies that the host's loops have not come to.  `job` is the assembly's function it is in:
`start`, what a failing `start` undoes, `stop` or the destructor, as the order in which it goes
through the parts and how many are behind it.  `StartNext`, `StopNext`, `ClearNext` and
`DestroyNext` are the loops' next turns (`stop()` stops all cameras, then clears the list, then
goes to the microphones, then to the tag); `StartPart`, `PartRefuses` and `PartThrows` are what
starting a part may come to, and a part whose thread is still joinable terminates the process.
`StartOrder`, `Rollback`, `StopOrder` and `DestroyOrder` are the orders of the code.  Capture
threads may end at any time.

The owner may call `start()`, `stop()` and the destructor in any order, also after an exception.
`running_` is set at the end of an assembly's `start()` only, so `stop()` of a camera assembly whose
`start()` has thrown finds it not set and does nothing (`StopNext`, `StopsUnguarded`); a second
`start()` finds threads that some parts guard against and others overwrite (`AlreadyUp`).  `broken` is
the history of such assemblies.  `UwbTransmitter` has no guard at all (`StartsUnguarded`).  A machine
that an exception has left keeps its assemblies, and the next `start()` adds new ones to them; the old
UWB assembly is destroyed when `uwb_` is assigned (`ReplaceNext`).  `ColorDecodeThread` and
`DepthDecodeThread` have no destructor (`NoDestructor`): destroying one that runs is the destruction of
a joinable `std::thread`, and `StopPart` terminates the process.

`SourceOf` is the part whose buffer a thread polls, the serial reader's `sample_buf` included, whose
poller is started before the reader and stopped after it.  So `SourceOutlives` says for all of them that
the buffer is there, and `CameraSourcesRun` for the camera threads only that its producer is started.
`NothingLeftBehind` excuses two assemblies, when they are used directly: one whose `start()` has thrown
and whose parts no function has gone through since, and a `UwbTransmitter` that was up before the
`start()` that failed.  `OnlyMisuseTerminates` names the two ways to `std::terminate`.  The excuses are
not theoretical: dropping the first from `NothingLeftBehind`, or the first way from
`OnlyMisuseTerminates`, makes TLC find a camera whose capture thread outlives `stop()` after an exception,
and a receiver whose destruction ends the process (it has to be stopped first, as `docs/embedding.md`
does).

## Runs

| run | expects | shows |
|---|---|---|
| `subscriber` | pass | staleness bound, what a clear may drop, hook order, buffer against hook |
| `subscriber_race` | violation | the watchdog drops a fresh sample between its check and its `Clear()` |
| `camera_stream` | pass | refinement of `LatestWins`, decode-once, bounded replays, arrival of the last depth frame, silence empties the subscriber's buffer |
| `camera_stream_silence` | violation | the decoded buffer keeps the last frame for ever |
| `color_gop` | pass | a damaged picture has a lost packet in its GOP's length before it |
| `rvl_codec` | pass | decoding inverts encoding, reads exactly what was written, and ends |
| `uwb_transmitter` | pass | refinement of `LatestWins`, number of published fixes, none lost in the read loop wherever lines are cut, `stop()` returns if writes do, a responsive device ends up streaming unless the read loop is left with a hung-up port |
| `uwb_restart` | violation | a restart publishes the old fix again |
| `uwb_hangup` | violation | the read loop polls a hung-up port for ever and does not open it again |
| `mic_capture` | pass | (on `MicStream`) what the receiver misses shows in the numbers, frames in order and once, gaps only with a counted overrun, no stall after an overrun, `stop()` returns |
| `lifecycle` | pass | what may be left behind and when, truthful results, buffers outlive pollers, camera threads poll running producers, the only ways to `std::terminate`, sensors have their peers on the other side |
| `lifecycle_throw` | violation | a camera whose encoder settings x264 rejects aborts the start of the whole machine |

The violation runs are places where a comment or a document of the repository says more than
the code does; `PROJECT.json` quotes both.

**Bounds.** `subscriber`: a queue of 2, 4 messages, staleness 3, poll 1, lag 1, 10 ticks, 2
starts: enough for overflow, for a sample to go stale and be cleared, for a new one to arrive
between check and clear, and for a restart with the old sample in the buffer; the proofs remove
the bounds.  `camera_stream`: 3 frames, a queue of 2, one restart on each side: a frame can be
overwritten at each buffer, the queue can overflow, a replayed frame can meet the old session's
stamp.  `camera_stream_silence` needs 2 frames and a queue of 1.  `color_gop`: 4 frames, a key
frame in every two, a queue of 2, one restart on each side: packets are lost in the queue, in the
subscriber's buffer, before the decoder starts and by deduplication, and a GOP is over within the
bound.  `rvl_codec`: all 3x3 images over the depths 0, 9 and 65535 in rows of 4 cells: every
pattern of runs, also all zeros and none, run lengths of one and two groups, differences of one,
two and six groups in both directions, streams of even and odd length.  `uwb_*`: 2 fixes, one
unplugging, 2 starts; the line holds 2 unread data lines before the device pauses, the device 3
unhandled commands, fewer than two attempts at the handshake write, so that a write may have to wait.
`mic_capture`: chunks of 3 frames over a ring of 2, so that a chunk takes several reads and an overrun can hit any of them; 11 frames and 2
starts give several chunks and overruns in each session, and a reader's queue of 1 drops chunks.
`lifecycle`: all files with up to 2 camera entries and 1 microphone entry, on both sides, every
assembly alone, 3 starts and any calls of `stop()` and the destructor between them: two sensors of one
kind show that one's failure leaves the other alone, and a third start meets what a second failure or
exception has left (2 starts are enough for the violation).  Every safety property of the passing runs
is proved for all bounds (see Proofs); the bounds matter for liveness and for the violations.

**Fairness.** The safety runs `subscriber`, `color_gop` and `lifecycle` assume none; `rvl_codec`
assumes that its one thread runs on.  In `camera_stream` every
thread is scheduled again and again (weak fairness of the poll, work, callback and watchdog
steps: they are loops around sleeps of 2 to 10 ms) and a second of silence passes when nothing
happens; nothing is assumed of the camera, of the owners' calls, or of the H.264 library.  The
arrival property is about depth, whose codec always yields.  In `uwb_transmitter` the threads
run, `start()` and `stop()` go on once called, and a `responsive` device takes what is written to it
and works while plugged in.  Of another device nothing is assumed: it may leave a write waiting for
ever, and `StopReturns` says what it needs, that writes return (`WritesReturn`).  Fairness of `IOError`
is that of the thread, whose next read of a `dead` port fails; it does not reach the read loop on a
`hung` one, and `StreamsInTheEnd` excludes just that (`ReadsHungPort`).  `ReaderExit` is strongly fair:
every turn of `read_loop` looks at `running_`, but between two looks it parses the lines it has read, so
the step is enabled again and again and not all the time.
In `mic_capture` nothing is assumed of the receiver; the microphone's thread runs, a read that can
return does, and once `stop()` waits a blocked read ends, with frames or with ALSA's error
(nothing in the code interrupts it); no error is assumed while the thread is wanted.
`CHECK_DEADLOCK` is on everywhere: each module has a `Horizon` step for the end of its bounds.

## Proofs

All theorems hold for every value of the constants that satisfies the named assumptions.

- `SubscriberProofs`: `TypeCorrect`; `StalenessBounded` (`NoStaleData`) and `ClearIsHarmless`
  from `TimeInvariant`; `HookSeesBuffer` and `HookOrdered` from `OrderInvariant`.  The staleness
  bound is not inductive: it needs to know when the watchdog will wake up, that its snapshot is
  the buffer's current value or one that has been overwritten since, and that a value it found
  fresh was at most `StaleMs` old at that time.  The order properties need the chain hook <=
  callback <= buffer < queue <= sent with the queue strictly increasing; `ReaderQueueProofs`
  shows that `Offer` and taking the head keep that.
- `CameraStreamProofs`: `StreamTypeCorrect`; `ChainInvariant`, that stamps do not increase from
  the camera towards the consumer (`out`, `decFrame`, `subBuf`, the queue, `encFrame`, `camBuf`,
  `captured`) and what each `last_stamp` adds to it; from it `StreamImplementsLatestWins`, the
  refinement, and `StreamDecodesOnce`.  `StreamReplaysBounded` counts instead: a frame that a
  thread has yet to publish or decode is set against one captured or published before, and a
  `start()` after the first pays for the one that its source buffer kept.
- `ColorGopProofs`: `GopImplementsStream`, that the stream with its packets is `CameraStream`;
  `GopDamageIsRecent` and `GopTypeCorrect` from `GopInvariant`.  The decoder takes packets in the
  order of their numbers and one that it jumps over is in `lost` (`PacketsInPlace`).  It has the
  picture before the next packet, or it is `Broken`: a packet was lost and no key frame has come
  since (`DecoderKnows`).  Of `KeyInterval` packets in a row one is a key frame, whatever restarts
  lie between (`KeysAreDense`), so the loss is recent.
- `UwbTransmitterProofs`: `UwbPublishesWhatWasParsed`, by the same count; from `UwbInvariant` the
  types, the refinement `UwbImplementsLatestWins` and `UwbStoresEveryFix`.  `Places` says where the
  thread may be and what it leaves behind when it is elsewhere (no text survives a re-open), and
  bounds the text by the commands written since the last read.
  `Order`: `topic` and `pubLast` <= `sample` < the fixes of `lines` < those of `line` <= `fixes`, each
  ascending.  That no fix is skipped needs more than order: the unread line has every fix from its
  first one on (`LineIsGapless`), and of what lies between `session` and `fixes` each is in `lines`,
  or in the part of `line` that the read loop can make out (`Gapless`), which a lost head, but no cut,
  takes from it.
- `MicStreamProofs`: first of `MicCapture`, `GapsCounted` and `FramesOrdered`.  A gap shows only
  in the first read after the overrun that caused it was counted, so the invariant says where the
  ring begins (`Passed`, the last frame read or lost) and that a session that is not where it should
  be has an overrun to its account.  `Budget` (no frame is used twice) bounds the counters.  Frames
  stay in order because topic, chunk and `Passed` follow one another.
  Then of `MicStream`: `StreamImplementsCapture` carries these over to `StreamSpec`; `GapsNumbered`
  is about two messages, one of which may wait in the queue while the thread goes on.  For each
  message that exists the invariant (`Known`) compares the frame at which the next chunk is `Due`,
  counting by numbers alone, with where the chunk really begins: not earlier, and exactly there
  while no overrun has been counted.  `Succession` is what remains of it once the chunk is written.
- `CodecProofs`: `RvlRoundTrip`, that the depth codec is lossless, `RvlConsumesExactly` and
  `RvlTypeCorrect` from `RvlInvariant`, for every size, stride and set of 16-bit depths.  That the
  decoder does what a decoder should is an induction over the stream, which the prover cannot do;
  the history `wrote` makes it an induction over the steps.  The stream is a chain: at each group
  the encoder was at a place, and from one place follows the next, within a value or with the value
  that comes after it (`Link`).  Then the decoder is always where the encoder was when it wrote the
  group that is read next, and what it has of a value plus what the encoder had left of it is the
  value (`Decoding`).
  `LumaInRange` and `ChromaInRange`, that no cast to `uint8_t` wraps, for any pixels;
  `ChromaStaysInside`, that the chroma loops stay inside image and planes for every even width.
  (An odd size does not come to them: x264 does not open a 4:2:0 encoder for it.)
- `LifecycleProofs`: all safety properties of the assemblies, for every configuration file and every
  order of calls, from `LifeInvariant`.  An assembly that no function is at work on (`OthersRest`) is all
  started when it is in `running`, and otherwise all stopped, or `broken`.  The one at work is somewhere
  in an order: `start` has started what is behind it, and of a `Fresh` assembly nothing else
  (`Starting`); any other function has still to come to every part that is not off, unless an earlier
  `start()` has left the assembly as `running` or `broken` (`Stopping`).  `Progress` ties both to the
  host's loop and to the result of the last call.  The orders enter through lemmas read off their tables:
  sources start before what polls them, a rollback undoes all that precedes the part that refused, and
  the stop and destruction orders hold every part that was started, what polls before its source.
  `CameraSourcesRun` is inductive only with them.  `UwbTransmitter` has no rollback and
  `RealsenseReceiver` a short one; that is enough because the serial reader and the decoders cannot
  refuse.  For `LifeOnlyMisuseTerminates` one must know that decoders run between a `start()` that
  returned true and `stop()` only (`DecodersRun`: an exception of `realsense_rx` leaves none, for the
  first of them is what throws), that a machine never starts an assembly that is not fresh
  (`BrokenOnes`, `Startable`), and that only a device error makes a thread end by itself
  (`OnlyDevicesDie`).
  `LifeHeldHasPeer` is by itself: the two
  plans of one file have the same positions and names (`SidesAgree`), the orders of the lists
  included, because both loops keep the same entries.

Every invariant and action property that a passing run checks is stated by one of these theorems.
Only model-checked: the liveness properties (`LatestArrives`, `SubscriberGoesEmpty`, `NoStall`,
`StopReturns`, `StreamsInTheEnd`, `Terminates`), for fairness and `ENABLED` are beyond the prover;
and the five violations, whose traces TLC finds.

## Not modelled

- x264, libav, librealsense, ALSA and CycloneDDS inside: `ColorGop` and `MicCapture` state what
  they assume of them.
- Number parsing (`strtof`) in `parse_pos_line`; spontaneous resets of the UWB device.
- `decode()` of a depth stream that was cut short, or was not written by this encoder: with the zeros
  that its reader makes up past the end it may not end (`Terminates` is about what was encoded).
- The defaults of the settings that tune a sensor: they are read once and compared with nothing.
  (A camera's own `spatial_filter` block replaces the shared one as a whole,
  `realsense_config.cpp:46-53`; a field it leaves out gets the built-in default, not the shared one.)
- The runner's rate report and argument handling; manual test programs, viewers, scripts, docker
  and build files: no state of the system.

## Plan

1. (done) `DataBuffer`, `Subscriber`, `CameraStream` against `LatestWins`, `UwbTransmitter`,
   `Lifecycle`; proofs of the first two.
2. (done) `MicCapture`.
3. (done) `RvlCodec`, `ColorGop`, `MicStream`, split lines in `UwbTransmitter`, `SensorConfig`, `BgrToI420`.
4. (done) Proofs: `ReplaysBounded`, `DamageIsRecent`, `PublishesWhatWasParsed`, the microphone.
5. (done) Proofs: `RoundTrip` and `ConsumesExactly` of `RvlCodec`; types, refinement and
   `StoresEveryFix` of `UwbTransmitter`; the lifecycle and the configuration.
6. Compositions: that what `CameraStream` and `UwbTransmitter` say of their `start()` and `stop()`
   follows the orders of `Lifecycle`, and that the receive side of `CameraStream` is a `Subscriber`
   whose clock is reduced to `age`.
