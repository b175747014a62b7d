# Verification of wolverine-linux

TLA+ models of `wolverined`, the userspace driver of the Razer Wolverine Ultimate
controller (`src/rust/src`), and of its reference implementation in Python and C
(`src/tools`), with TLC configurations and TLAPS proofs. Paths below are relative to the
repository; `iso.rs` stands for `rust/src/iso.rs`, `gip_init.py` for `tools/gip_init.py` and
so on.

## 1. The system

| Part | State | Operations | Interacts with |
|---|---|---|---|
| rings (`ring.rs`) | two single-producer single-consumer byte rings of 256 KiB | `write` (drops the newest), `read`, `avail`, `skip` (drops the oldest) | one end in the PipeWire thread, one in the libusb thread |
| PipeWire bridge (`audio.rs`) | audio thread, quit channel, streams | `Bridge::start`, `stop`; `run_pw` with its retries; the sink and source `process` callbacks | rings; the user's PipeWire |
| isochronous engine (`iso.rs`) | transfers, buffers, `EngineState` (ring ends, `primed`, `out_seq`, `running`), event thread, libusb handle | `start`, `on_out`, `on_in`, `event_loop`, `stop` | rings; libusb; device EP3 |
| USB transport (`usb.rs`) | nusb device, interfaces 0 and 2, sequence counter | `open`, `bring_up_audio`, `run_event_loop`, `send`, `recv`, identify with chunk acknowledgements | device EP1; `Uinput` |
| virtual input (`input.rs`) | uinput gamepad and keyboard, last volume and mute, force-feedback effects | `poll_rumble`, `forward_gamepad`, `forward_guide`, `forward_media`, `wpctl` | kernel uinput, games, desktop |
| GIP framing (`gip.rs`) | sequence counter | varint, header, `decode` | all users of EP1 and EP3 |
| lifecycle (`main.rs`, `packaging/`) | the locals of `main`, `STOP`, the systemd unit | acquisition in order, drops in reverse, signals, restart, udev start | everything |
| Python driver (`gip_init.py`) | `seq_ref`, the handshake's transcript and locals, uinput devices, the `stop` event, two monitor threads | drain, IDENTIFY, authentication, format, power; monitoring; Ctrl+C and the joins | device EP1 and EP2, the shim, the engine |
| Python audio (`iso_audio.py`, two threads of `gip_init.py`) | transfers and their buffers, `_running`, `_out_primed`; the pending packet and the errors of the synchronous threads | `start`, callbacks, `_event_loop`, `stop`; `stream_audio_out`, `monitor_audio` | libusb, the shim |
| C shim (`wolverine_pw.c`) | two drop-oldest byte rings with free-running 32-bit cursors, the PipeWire thread loop | `wpw_start`, `wpw_read_playback`, `wpw_playback_avail`, `wpw_write_capture`, `wpw_stop`, the two process callbacks | PipeWire; the Python threads through ctypes |
| probes, installer, build files | none worth modelling | one-shot | |

What is hard in it: two callbacks on two threads around each ring, running off clocks
that drift; a ring that drops the newest bytes where the latency policy wants the oldest
dropped; transfers owned in turn by the kernel, by libusb and by a callback, with an
unplug or a stop at any point; a start-up of several seconds during which the device may
be replugged or a signal may come; a service manager that starts and restarts the daemon
by rules of its own; a handshake of a dozen messages in which nothing in an answer says
what it answers, and every wait has a deadline after which the dialogue goes on; a ring
whose writer moves the reader's cursor; a shutdown that waits for its threads a limited
time and then takes their devices away.

What makes each part correct:

- rings and the two audio paths: no byte outside the capacity, no slip inside a frame, no
  audio older than the documented bound, no silence where audio was available;
- isochronous engine: nothing freed while in use, exclusive engine state, transfers stay in
  circulation, packets on the wire in sequence, stop ends;
- lifecycle: the engine only on the powered device, xpad back after every exit, a plugged
  controller is driven, an absent one leaves the service at rest;
- event loop and input: reports reach the virtual devices, motors follow the last request,
  the system's volume follows the knob, games are answered, the loop ends;
- framing: the device reads a header as it was meant, wherever the padding falls;
- Python bring-up: an answer is taken for the answer to the message just sent, its payload is
  whole, a mismatch of the transcripts means that something went missing, and success that
  nothing did;
- Python driver: the thread that forwards the gamepad lives while the driver does, and no
  longer writes to the virtual gamepad once it is closed;
- shim and Python audio: the rings are drop-oldest queues, packets are full, nothing is freed
  while it is in use.

`PROJECT.json` lists the hazards at their lines, with the property that covers each.

## 2. Modules

| Module | Models | Checked by | Proved in |
|---|---|---|---|
| `Ring` | `ring.rs`, as operators for the two halves of each ring operation | through the two below | `RingProofs` |
| `Playback` | sink `process` in `audio.rs`; `on_out` in `iso.rs` | `MCPlayback` | `PlaybackProofs` |
| `Capture` | `on_in` in `iso.rs`; source `process` in `audio.rs` | `MCCapture` | `CaptureProofs` |
| `IsoTransfers` | `IsoAudio::start`, `stop`, `event_loop`, the control flow of the callbacks | `MCIsoTransfers` | `IsoTransfersProofs` |
| `Lifecycle` | `main`, `Device::open` and `bring_up_audio` as calls, `Bridge`, `run_pw`'s connection, `packaging/` | `MCLifecycle` | `LifecycleProofs` |
| `EventLoop` | `run_event_loop`, `send` and `recv` in `usb.rs`; `poll_rumble`, the `forward_` functions and `wpctl` in `input.rs` | `MCEventLoop`, `MCEventLoopRumble` | `EventLoopProofs` |
| `GipWire` | varints, `build_gip_header`, `decode_gip_header` in `gip_init.py` | through `PyDriver` | `PyDriverProofs` |
| `PyBringUp` | `gip_init` and what it calls, `gip_auth_handshake` in both versions, against the device | through `PyDriver` | `PyDriverProofs` |
| `PyDriver` | `main`, `monitor_gip`, `monitor_ctrl` in `gip_init.py` | `MCPyDriver`, `MCPyMonitor` | `PyDriverProofs` |
| `ShimRing` | the ring of `wolverine_pw.c` | through `PyAudio` | `PyAudioProofs` |
| `PyAudio` | the shim's callbacks and exported functions; `IsoAudio` of `iso_audio.py`; `stream_audio_out` and `monitor_audio`; `main` from `wpw_start` to `wpw_stop` | `MCPyAudio` | `PyAudioProofs` |
| `DropOldestQueue` | nothing: the abstract specification `PyAudio` implements | `MCPyAudio` | `PyAudioProofs` |

`Playback` and `Capture` compose with `Ring` by EXTENDS: a ring is a sequence, oldest byte
first, and a ring operation is a load (decide, on the other end's index as it is now) and a
commit (publish). rtrb publishes each side by one store, so these are the atomic steps.
`IsoTransfers` abstracts from audio what `Playback` and `Capture` treat in full, and the
other way round: the audio modules start where the callbacks' early returns have been
passed. `Lifecycle` treats `IsoAudio::stop` as one step, which `StopCompletes` of
`IsoTransfers` justifies, and the event loop as one, which `LoopEnds` of `EventLoop` justifies.

`PyDriver` EXTENDS `PyBringUp`, which EXTENDS `GipWire`: the bring-up is what its main thread does
in one of its phases, and the header last written is checked wherever it was written.
`PyAudio` EXTENDS `ShimRing` and instantiates `DropOldestQueue`; `PyDriver` treats its start and
its stop as one step each.

### Playback
A byte is its lane in its 4-byte stereo frame. `SinkProcess`/`SinkCommit` are `ring::write` in
the sink callback, for buffers of `SinkSizes` bytes, whole frames as the negotiated
format has them. `on_out` is `OutPrime` (iso.rs:310), `OutTrim`/`OutSkip` (315-327) and, per
packet, `OutLoad`/`OutPop` (331-348). `frame` is the packet just built; `probe` is a history
variable: the place of one accepted byte and the completions that have passed since.

- `RingSafe`: what a callback has decided on is still right when it commits.
- `PacketAligned`: every packet starts on the first lane. It holds because capacity, packet,
  sink buffers and trim are whole frames; leave one slot unused and it breaks.
- `TrimNeverStarves`, `LatencyBounded`: the two halves of the latency fix: the trim never
  empties the ring below a packet, and every accepted byte is sent or dropped within a number
  of completions that depends on the trim mark and not on the ring's capacity.
- `SeqFollows` (action): consecutive packets are numbered 1, 2, ..., MaxSeq, 1.
- `EventuallyPrimed`: with a stream playing, output starts.

### Capture
`InPacket`/`InCommit` are `ring::write` in `on_in`. `SourceTrim`, `SourceSkip`, `SourceLoad`,
`SourcePop` are the source callback; between two of its calls any time may pass, as when no
application records. `probe` watches one accepted byte: how much speech has arrived since,
dropped or not.

- `BufferAligned`, `RingSafe`, `TrimNeverStarves` as above. The last one is the regression
  `CONTEXT.md` tells of, the microphone cut off after the first syllable.
- `ServedLagBounded`: the age of what a recorder gets. It fails after an overflow
  (`MCCaptureStale`); `ServedFreshUnlessLost` is what does hold.

### IsoTransfers
`StartOpen`, `StartXfer`, `StartThread`, and `StartRefused` and `StartFails` for the error
exits; `Check`, `HandleReturns`, `EventHandle` for the event thread; `Handle`, `Enter`,
`Resubmit` for libusb's dispatch and the callbacks, on whichever thread runs them;
`StopSignal` to `StopRelease` for `stop` and the drop of `IsoAudio`. `Complete`, `GiveBack`,
`Unplug` are the host controller and libusb. `Submit` may fail: its result is ignored in the
code as in the model.

- `NotFreedUnderfoot`: in flight, waiting for the callback or in it implies allocated, with its
  buffer; in flight, with the interface claimed; in its callback, with the engine. The buffers
  of a start that fails half way are the exception: it drops them with transfers in flight.
- `EngineNotShared`: the comment of `EngineState` in its testable form.
- `InOnePlace`: the life cycle of a transfer.
- `WireInOrder`: the queue of the OUT endpoint is a run of consecutive numbers.
- `KeptInFlight`, `StopCompletes`: liveness.

### Lifecycle
`held` is the list of `main`'s locals that have a `Drop`, in order of creation. The actions of
`Main` follow `main.rs` from `Open` to `InstallHandlers`; each may fail, which leads to the same
unwinding as the loop's return. `ConnectFails`, `Connect`, `LoopQuits` are the audio thread.
`Activate`, `Restart`, `StopService`, and the unit's part of `Exit`, are systemd with this
unit and this udev rule. A device is its USB address; Linux does not reuse one until 127
others have been given out.

- `IsoOnPoweredDevice`: the handshake-before-iso rule of `usb.rs`, across replugs.
- `XpadRestoredUnlessKilled`: every exit gives the interface back to xpad, except a signal that
  finds no handler yet, before main.rs:109.
- `PlugServed` (fails, `MCLifecycleReplug`) and `PlugServedWhenInactive`.
- `StopEnds`: the join in `Bridge::stop` ends although the thread may be in its retries.

### EventLoop
One iteration is `Poll` (or `LeaveOnStop`), then one of `Receive`, `TimedOut`, `Miss`,
`Disconnected`, then the handler: `HandleButton`, `HandleStatus`, or `HandleMute`, `HandleVolume` and
`Reply` for a media report, each `wpctl` a step of its own because it takes its time. `Miss` is the
race in `recv`: the timer ends the wait after the transfer has completed, and the report goes
with the future that is dropped. `Poll` serves the queue event by event (`ServedAll`) as
`poll_rumble` does, so that only the last play or stop of a batch is sent. The controller, the desktop, games and the kernel's
force-feedback core (one upload or erasure at a time, a stop before every erasure) are
external. A failed `send` may have arrived or not.

- `PadFollows`, `SystemFollowsKnob`: with nothing pending and the latest report not lost, the
  virtual gamepad and the system show what the controller shows. Reports carry whole states,
  so a later one makes up for a lost one; that is why one report can change both mute and
  volume, and why both must be acted on.
- `ControllerAtMax`: volume is attenuated once.
- `MotorsFollow`: uploads, plays and erasures over several polls, in queue order.
- `UploadsAnswered`, `LoopEnds`: liveness against a controller that never falls silent.

### GipWire and PyBringUp
A header is the sequence of bytes `build_gip_header` makes, a varint its base-128 groups, of any
number: `EncodeVarint` and `ReadVarint` are the loops of the code as recursive functions.
`ReadBack` says that `decode_gip_header` finds in the bytes what went in, and where they end. TLC
evaluates it on every header the driver writes, which have lengths and offsets on either side
of 128, and chunks; `PyDriverProofs` shows it for all numbers.

The bring-up's `step` is where `gip_init` is and `phase` what it waits for; the actions follow
the functions: `Drain...` (`_drain_buffer`), `Identify...` (`_receive_identify_response`), `Send...`
(`_gip_auth_send_simple`, `_gip_auth_send_chunked`, `_gip_auth_send_no_ack`), `Recv...`
(`_recv_auth_pkt` with what `gip_auth_handshake` does with the payload), `GipSend` and `GipRecv`.
`outq` and `inq` are the endpoints. The device (`DevTake`, `DevSend`, `DevResend`) answers late,
twice or not at all, in one packet or in chunks with or without the empty one at the end, in
less than the bytes that the handshake looks at, and may ask for version 2. It acknowledges what
asks for it, and a chunk of the host perhaps without being asked: only so does the HOST_SECRET
of version 1, whose middle chunks do not ask, ever arrive, and the properties speak of both
versions to the end. At the start the endpoint may hold an answer to a previous run of the
driver (`to` is "previous"), which the drain takes or leaves. A message's contents are its name,
a transcript the sequence of the names hashed; keys, certificates and ciphers go no further than
whether they are what was sent. `taken`, `late`, `lost` and `resent` are history variables.

- `AnswersPaired`: the pairing of answers with messages, which holds by order alone. It is lost
  once a wait for an acknowledgement has been given up or the drain has left an answer to a
  previous run: `late` says exactly when. Even then nothing but the answer asked for passes
  for CLIENT_HELLO, a certificate or a public key.
- `PayloadWhole`: the end of the newest chunk counts as what has been received, so a repeated
  chunk does no harm and only a failed read leaves a hole.
- `VerdictRight`: both sides hash the same messages, the restart for version 2 included, so a
  mismatch means that something was late or lost; and whatever was late or lost, "verified"
  means that both have hashed every message of one version (`Transcript`), whole and in order.
- `PacketReadBack`: `ReadBack` of the header last written.

### PyDriver
`main` walks from the uinput devices through the bring-up, the bridge and the audio to the
sleep that waits for Ctrl+C, and from there through `IsoAudio.stop`, the joins of a second each,
`wpw_stop` and the closing. `MonitorTop` to `AnswerAck` are the turns of `monitor_gip`. A join that
gives up is `JoinThreads` with `gip` in `Slow`, a constant: the places where a turn may take longer
than a second. `SlowAssumption` says which they can be: a report of changed knobs (two runs of
`wpctl`, a second each, then two writes), and not the read or a single write. `StartBridge` may
raise, as ctypes.CDLL does with a shim it cannot load; nothing catches that.

- `QuietAfterClose`: what such a thread does next to a closed gamepad. Its answers to the
  controller may still go to EP1 after pyusb has let the interface go: they fail or not, and the
  model says nothing of them.
- `MonitorAlive` (fails, `MCPyMonitor`).

### ShimRing, PyAudio and DropOldestQueue
A ring is its buffer and its two cursors modulo `CursorMod`; `RingWrite` and `RingRead` are the
functions of the C code, atomic because each holds the mutex from end to end. `PyAudio` lets
PipeWire's thread, the engine's event thread or the two synchronous threads, and main run
against one of the two rings, either; the other one shows through `AvailIs` as any number. The
callbacks go packet by packet (`CallbackPrimes`, `CallbackFills`, `CallbackWrites`,
`CallbackSubmits`), on the event thread or on main in the drain of `stop`. The drain and the
joins give up after `Limit`; what they wait for takes `CancelTime`, `EventTime`, `SyncTime` at
most, which `TimeAssumption` puts below it. `StartSync` is an `IsoAudio.start` that has raised,
with any number of transfers submitted: main forgets that engine, so nobody reaps or cancels
them. What becomes of them (Python's collector, python-libusb1) is not modelled.

- `QueueSpec`: every step maps to `Put`, `Take`, `Close` of `DropOldestQueue` or to a stutter, under
  `contents <- Contents(ring)`. The queue says what the ring is for without its cursors: order
  kept, nothing twice, the oldest dropped and only when the ring is full afterwards.
- `ReadIsFull`: the check `wpw_playback_avail` and the read are two calls, and the writer drops bytes
  in between; the packet is full all the same, because it drops only for what it adds.
- `NotFreedUnderfoot`: `stop` cancels next to an event thread that may be past its test of
  `_running` and resubmit; the drain ends when nothing is submitted, which is not enough by
  itself: it also takes a second transfer, which is being cancelled meanwhile, to keep the drain
  waiting while a callback runs. Hence `NOut` and `NIn` of at least one each. It says nothing of
  an engine that was abandoned.

## 3. Runs

| Configuration | Result | Bounds |
|---|---|---|
| `MCPlayback` | holds | packet 8 bytes, prime 16, high mark 32, ring 72, 2 packets a transfer, sequence up to 3, sink buffers 0, 8, 12, 32 |
| `MCCapture` | holds | ring 16, packets of 2 and 4 bytes, requests of 0, 1 and 2 frames, cap_low 4, a mapped buffer of 7 bytes |
| `MCCaptureStale` | `ServedLagBounded` violated | the same |
| `MCIsoTransfers` | holds | 3 OUT and 1 IN transfer, 2 packets each, sequence up to 5, drain of 3 ticks, one failing submission |
| `MCIsoLostTransfer` | `KeptInFlight` violated | 2 OUT, 1 IN, one failing submission |
| `MCLifecycle` | holds | 3 plugs, 2 failures, 2 connection attempts |
| `MCLifecycleReplug` | `PlugServed` violated | the same |
| `MCEventLoop` | holds | one button, 2 volumes, mute, no effects, 2 reports outstanding |
| `MCEventLoopRumble` | holds | one button, one effect with 2 magnitudes, 3 queued events, 1 report outstanding |
| `MCPyDriver` | holds | answers of 3 chunks, one lost read or repeated chunk, numbers up to 15 |
| `MCPyMonitor` | `MonitorAlive` violated | answers of 2 chunks, no fault, numbers up to 15 |
| `MCPyAudio` | holds | ring of 2 bytes, cursors modulo 4, 2 byte values, buffers of up to 3, packet 2, limits of 1000 ms against waits of 50, 110 and 200, 2 OUT and 1 IN transfer of 2 packets, one failing call |

Why the bounds are enough. Ring and packet sizes are scaled so that each boundary is met: a
sink buffer that is not a multiple of the packet, a ring that fills and drops, a trim that
removes less than there is, several packets per completion and a sequence that wraps within
the queue. 3 OUT transfers let one be in its callback, one waiting and one in flight at
once. `MaxSeq` is odd and not a multiple of the packets per transfer, as 255 and 8 are not,
so the wrap falls inside a transfer. 3 plugs allow a device, its replacement during start-up
or shut-down, and one more after that. The histories are bounded: `probe.lag` saturates at
twice the capacity, which is above every mark it is compared with. The event loop has no
counters: its two runs divide its state between the media reports and the effects, which
share only the loop. Two outstanding reports are the least in which one is lost and the next
arrives, three events let an upload, a play and a stop meet in one poll.

`MCPyDriver`: three chunks have a first, a middle and a last, of which only the middle asks for
no acknowledgement; lost reads and repeated chunks share the bound `MaxFaults`, so that either
is met, not both in one handshake. The numbers end at 15, not 255, just above the most the
bring-up takes (`SeqAssumption`), so the monitor reaches the end within three answers.
`MCPyAudio`: with cursors modulo twice the capacity, the least that tells full from empty,
every wrap is met at once; a buffer longer than the ring meets the clipping; two byte values
let a byte out of order be seen. One failing call is the least that lets a drain end early.

Fairness. The threads run (weak fairness on each thread's step), completions are delivered
per endpoint, a cancelled transfer comes back, time passes in the drain, systemd runs its
jobs and timers. In `Playback` the sink is strongly fair for non-empty buffers, which is what "a
stream is playing" means. No fairness on stop, plug, unplug, failures, or PipeWire coming up.

In `EventLoop` the thread runs: every call of the loop has a time limit, except that `wpctl` is
waited for without one; the model takes it to end. The Python modules state safety only: their
waits all have deadlines, and a deadline that may pass at any moment is one more step.

Deadlock is not checked in `IsoTransfers`, `Lifecycle`, `EventLoop`, `PyDriver` and `PyAudio`, where
everything may rightly come to rest (stopped, refused, no device).

## 4. Where code and documents disagree

1. `MCCaptureStale`: the trim keeps "the freshest `cap_low` bytes" of a ring that dropped the
   fresh ones. With no recorder the ring holds the first five seconds after it filled; the
   first recorder is served from the end of those (audio.rs:300, comment at 244).
2. `MCIsoLostTransfer`: one failed submission takes its transfer out of circulation for good
   (iso.rs:350; "permanently in flight", iso.rs:10).
3. `MCLifecycleReplug`: a replug while the old process is shutting down, one to twelve
   seconds, is never served (wolverined.service:15 "the udev rule re-starts it on plug").
4. `MCPyMonitor`: the Python driver's numbers are never wrapped; the 256th raises ValueError in
   `build_gip_header` and ends the thread that forwards the gamepad (gip_init.py:1263;
   "Sequence number (1-255)", CONTEXT.md:67).

Observed, and not among the runs:

- `WOLVERINE_PRIME_MS` above 1365 asks for more than the ring holds and means silence without end
  (iso.rs:311). No assumption excludes it, so the theorems hold there too, of a silent stream;
  `EventuallyPrimed` is checked for a depth that fits only.
- SIGTERM before main.rs:109 finds no handler and leaves the controller without a driver
  (README:37 "it reattaches xpad"): the exception of `XpadRestoredUnlessKilled`.
- The OUT transfers of `start` go out as zeros without a GIP header (iso.rs:175); a `start` that
  fails half way (iso.rs:178, 205, 225) leaks the handle and leaves the interface claimed until the
  process ends, which it then does, and until then the transfers it has submitted point to
  buffers it has dropped, which should be "kept alive" (iso.rs:101). Nobody handles events any
  more, so no callback follows; `NotFreedUnderfoot` says so and excepts the buffers. The drain of
  `stop` is right only if every cancellation completes within a second (`DrainAssumption`): the
  code waits for the clock and does not look.
- An IDENTIFY chunk that asks for an acknowledgement before the total is known makes what
  remains negative; struct.pack raises and the driver ends (gip_init.py:1151, `IdentifyAckRaises`).
- Writes of the handshake that fail, and bytes that are no point of the curve, raise what
  nothing catches (`AuthWriteFails`, `DataAnswered`), where CONTEXT.md:358 says that authentication
  "falha graciosamente". A transcript mismatch, on the other hand, is printed and the handshake
  returns True.
- The host's public key makes a packet of 82 bytes, sent in one piece although
  `GIP_PKT_MAX_LEN` is 58; HOST_SECRET's chunks wait for acknowledgements that its middle chunks
  do not ask for, so a device that acknowledges only when asked never gets the rest
  (`ChunkAckExpires`). The modelled device may do either.
- An AUTH acknowledgement of one byte in version 2 raises IndexError (gip_init.py:613), which
  nothing catches (`Acknowledged`); in version 1 it is refused.
- `_wpctl` waits up to a second where its callers take it not to block.
- An engine that fails half way through `IsoAudio.start` keeps interface 1 claimed, and the
  synchronous threads cannot have it; its transfers stay with the kernel (`StartSync`).

## 5. Proofs

For every value of the constants that satisfies the modules' named assumptions.

| Module | Theorems | Assumptions | Invariant |
|---|---|---|---|
| `RingProofs` | lemmas on `Ring` | `CapacityAssumption` | |
| `PlaybackProofs` | `TypeCorrect`, `RingIsSafe`, `PacketsAreAligned`, `TrimDoesNotStarve`, `SequenceFollows`, `LatencyIsBounded` | `PlaybackAssumption`: capacity, packet and sink buffers are whole frames | `WholeInv`, `ProgressInv`, `TrimInv`, `SeqInv`, `LatencyInv` |
| `CaptureProofs` | `TypeCorrect`, `RingIsSafe`, `BuffersAreAligned`, `TrimDoesNotStarve`, `ServedIsFresh` | `CaptureAssumption`: the same of samples | `WholeInv`, `ServeInv`, `AgeInv` |
| `IsoTransfersProofs` | `TypeCorrect`, `NothingFreedUnderfoot`, `EngineIsNotShared`, `TransfersInOnePlace`, `WireIsInOrder` | `DrainAssumption`: a cancellation is back before the drain ends | `PhaseInv`, `ThreadInv`, `DrainInv`, `OnceInv`, `FlowInv` |
| `LifecycleProofs` | `TypeCorrect`, `IsoIsOnPoweredDevice`, `XpadIsRestored` | bounds are numbers | `HeldInv`, `DeviceInv`, `UnitInv` |
| `EventLoopProofs` | `TypeCorrect`, `GamepadFollows`, `SystemFollows`, `AttenuatedOnce`, `RumbleFollows` | `KindsAssumption`: names of buttons are no other kind's; `EventLoopAssumption`: magnitudes are 16 bits | `PhaseInv`, `ReportInv`, `MirrorInv`, `RumbleInv`, `TypeInv` |
| `PyDriverProofs` | `TypeCorrect`, `HeadersReadBack`, `AnswersArePaired`, `PayloadsAreWhole`, `VerdictsAreRight`, `NumbersAreBytes`, `GamepadIsQuiet` | `UnitsAssumption`: a long answer has two chunks or more; `SeqAssumption`: the limit of the numbers is above what the bring-up takes; `SlowAssumption`: only a report of changed knobs outlasts a join | `TypeInv`, `Numbers`, `EarlyInv`, `HandshakeInv`, `TranscriptInv`, `ShutdownInv` |
| `PyAudioProofs` | `TypeCorrect`, `NothingFreedUnderfoot`, `PacketsAreFull`, `RingIsQueue` | `RingAssumption`, `PyAudioAssumption`; `TimeAssumption`: no wait of the shutdown takes as long as its limit | `RingInv`, `ModeInv`, `DrainInv`, `FreeInv`, `PacketInv` |

None of the safety properties is inductive; what has to be added is the argument.

- Audio paths. `Phased(s, k)` of `RingProofs` says that a ring counts through the lanes so that it
  ends on the last of a frame. Alignment needs that the amounts the callbacks have decided on,
  and not yet committed, are whole frames (`WholeInv`), and that the other end only ever moves
  the quantity one was decided on in the safe direction, which is `RingSafe`. Starvation needs
  the amount promised carried from the trim to the read (`ServeInv`, `TrimInv`), `LatencyBounded` a
  bound on the watched byte's place at every step of a completion, `ServedFreshUnlessLost` that,
  with nothing dropped behind it, a byte's age is its distance from the ring's end (`AgeInv`).
- Isochronous engine. What is allocated follows from where main is (`PhaseInv`), who may be in a
  callback from the event thread's state (`ThreadInv`): stop drains only once that thread has
  exited. In the drain everything in flight is a cancelled transfer, and when the clock has
  passed `CancelTicks` nothing is left (`DrainInv`), so what is freed after it is idle.
  `FlowInv` ties the number last sent, the numbers queued and the counter into one sequence.
- Life cycle. `HeldInv` ties main's locals to its place; `DeviceInv` says of the device on the
  bus that it is the one main holds or one plugged since. It is inductive because addresses
  grow: what is open is not newer than what is plugged.
- Event loop. A report carries a whole state, so the last one of its kind that waits or is
  handled equals what the controller shows (`ReportInv`), and what is cached equals what the
  system was set to (`MirrorInv`). The rest is sequences: what appending and taking do to the
  last report of a kind.
- Force feedback. `Poll` serves a whole queue at once, so the invariant has to say of a queue that
  is still growing what it will come to: `QueueRight` applies `ServedAll` to it, and says that the
  result is right for what the games have uploaded and asked for so far (`RumbleInv`). Each
  event a game or the kernel adds is one step of `ServedAll` (`ServedAppend`), which makes the
  queue's length irrelevant. `NoUploads` carries the kernel's rule that one request is open at a
  time: no upload waits in the queue when the next request is made, so one poll never finds
  two uploads, or an upload and the erasure of its effect.
- Headers. `EncodeVarint` and `ReadVarint` are recursive functions. `EncodesExists` and
  `ReadsExists` show that their definitions have a solution, then `ReadEncoded` and `ReadPadded`
  that the reader finds the number encoded and stops behind it, with the padding
  (a continuation bit on the last byte and a zero after it) or without. `HeaderReadBack` puts
  the parts in their places. The induction runs over sets of numbers (`StrongInduction`, from
  the library's `NatLessThanWellFounded` and `WFMin`), since the library's induction theorems
  proper take an operator. `TypeInv` adds that the header last written is well formed: it has
  an offset just when its options say so.
- Handshake. Nothing in a packet says what it answers, so the invariant is about order.
  `InOrder`: what is in flight towards the host (waiting, to be sent, or to be sent once more) is
  sorted by the step it answers and by its place in that answer, a repeated chunk next to its
  twin; the messages that wait for the device are sorted too and come after all of it.
  `Below`: none of it is ahead of the host. `Starts` and `Floor` say where the host cannot have
  given up: a wait for a long answer that expires ends the handshake, so behind such a
  step no acknowledgement of an earlier one is left, and a first chunk in flight is of the
  step at hand. `Receipt`: from the first chunk on, the rest of that answer is all
  there is, and no chunk lies below what counts as received, so the highest offset
  means what the code takes it to mean; `Holes` adds that without a lost packet each chunk in
  flight has its predecessor in flight before it or received. From these, `PayloadWhole` when
  the last chunk is taken (`LastChunk`). `Pairs`: while no wait was given up, a whole answer in
  flight is for the step at hand, and so `AnswersPaired` when one is taken. `Scripts` relates the
  two transcripts at each place a message or its answer can be, and `VerdictRight` is its
  value at the last step. `EarlyInv` is what holds before: the answer to a previous run is the
  only one there may be, and the drain has taken it or set `late`.
- Verdict. What a success means whatever was late or lost does not rest on the order of the packets.
  `TranscriptInv` is about the host alone: at each step it has hashed as many messages as the step's
  place in the transcript says (`Depth`), and each is the one that belongs there, or has a hole
  (`Hashes`). The device hashes no message with a hole, so a transcript equal to the device's
  is the whole one of the version.
- Sequence numbers. `Numbers` bounds the number by the place in the bring-up, each step of which
  takes at most one; the monitor starts at 14 at most, and stops with the first number that is no
  byte. `NumbersAreBytes` is the other side of `MCPyMonitor`: the bring-up never runs out of numbers,
  so leaving the ValueError out of its actions leaves nothing out, and the monitor thread ends
  by itself for no other reason.
- Python shutdown. The joins give up, so `ShutdownInv` says where they may leave the monitor:
  done, in the part of a report that writes to no gamepad, or at the test of `stop`.
- Shim rings. The lemmas are arithmetic modulo `CursorMod` and `RingCap`: moving a cursor moves its
  slot (`SlotMoved`, because `RingCap` divides `CursorMod`), and so a read hands over the front of
  `Contents` (`ReadTakes`) and a write leaves a suffix of it followed by the new bytes, the ring full
  if anything was dropped (`WriteAppends`). Those are the actions of `DropOldestQueue`, and
  `RingIsQueue` is the refinement for every capacity and width of cursor.

Each of the named invariants was first checked by TLC on the runs above.

Only model-checked: all liveness (`EventuallyPrimed`, `KeptInFlightUnlessRefused`, `StopCompletes`,
`PlugServedWhenInactive`, `StopEnds`, `UploadsAnswered`, `LoopEnds`), which with ENABLED is beyond
the prover. Every invariant of a passing run is a theorem, and so are the action property
`SeqFollows` and the refinement `QueueSpec`.

## 6. Not modelled, and why

- `gip.rs` and the handshake in `usb.rs`: ports of the Python code, which `GipWire` and `PyBringUp`
  model; `Lifecycle` takes the Rust bring-up, which has no authentication, as one step that
  succeeds or fails.
- `PyDriver` leaves out the claiming of interfaces and the media state (`forward_media` is the time
  `wpctl` takes); `PyAudio` the numbers of its packets, which `IsoTransfers` treats for the Rust
  engine.
- `Lifecycle` leaves out the audio-only smoke mode.
- `MediaMode::Keys`, the axes and the tables of buttons: a button stands for all of them.
- `tools/probe.py`, `tools/probe_gip.py`, `install.sh`, the build files: straight-line, no state.
- The contents of audio, the cryptography of the handshake, stream formats, log output.

Left to do: the Rust handshake in a module of its own; the composition of `PyDriver` with
`PyAudio` in place of their shared steps; safety halves of the liveness properties (what a run that
has stopped has left behind) as theorems.
