----------------------------- MODULE Lifecycle -----------------------------
(***************************************************************************)
(* The life of the daemon: main.rs acquires the device, the PipeWire       *)
(* bridge, the isochronous engine and the uinput devices in order, runs    *)
(* the event loop, and drops what it holds in reverse order on every way   *)
(* out; the systemd unit and the udev rule of packaging/ start it again.   *)
(*                                                                         *)
(* Around it act the user, who plugs, unplugs and stops the service, the   *)
(* kernel, which binds xpad to a new device, and the audio thread, which   *)
(* waits for a PipeWire that may never come.  A device is known by the     *)
(* USB address it got when it was plugged; addresses are not reused.       *)
(***************************************************************************)
EXTENDS Naturals, SequencesExt

CONSTANTS
  MaxPlugs,      \* bound: times a device is plugged
  MaxFails,      \* bound: calls that fail though nothing prevents them
  MaxAttempts    \* connection attempts of run_pw, 20

ASSUME LifecycleAssumption ==
  MaxPlugs \in Nat /\ MaxFails \in Nat /\ MaxAttempts \in Nat \ {0}

VARIABLES
  dev,         \* address of the device on the bus, 0: none
  plugs,       \* devices plugged so far
  xpad,        \* the kernel's xpad drives interface 0 of the device
  powered,     \* address of the device POWER ON reached, 0: none
  event,       \* an "add" of udev waits for systemd
  unit,        \* wolverined.service: "inactive", "active", "restart"
  stopJob,     \* systemctl stop waits for the process
  asked,       \* history: a stop was asked for since the process started
  main,        \* where main is
  held,        \* main's locals that have a Drop, oldest first
  addr,        \* Device.addr, 0: no device is open
  isoAddr,     \* the device the engine's handle is on, 0: none
  handlers,    \* SIGINT and SIGTERM set STOP
  stop,        \* STOP
  code,        \* the exit code main is leaving with
  audio,       \* the audio thread: "none", "connecting", "running", "ended"
  attempt,     \* its failed connection attempts
  quit,        \* Bridge::stop has sent its message
  pipewire,    \* the user's PipeWire is up
  fails,       \* failures so far, up to MaxFails
  killed       \* history: the device open when a signal killed the process

deviceVars  == <<dev, plugs, xpad, powered>>
unitVars    == <<event, unit, stopJob, asked>>
processVars == <<main, held, addr, isoAddr, handlers, stop, code>>
audioVars   == <<audio, attempt, quit>>
vars == <<deviceVars, unitVars, processVars, audioVars, pipewire, fails, killed>>

Init ==
  /\ dev = 0 /\ plugs = 0 /\ xpad = FALSE /\ powered = 0
  /\ event = FALSE /\ unit = "inactive" /\ stopJob = FALSE /\ asked = FALSE
  /\ main = "off" /\ held = <<>> /\ addr = 0 /\ isoAddr = 0
  /\ handlers = FALSE /\ stop = FALSE /\ code = 0
  /\ audio = "none" /\ attempt = 0 /\ quit = FALSE
  /\ pipewire \in BOOLEAN
  /\ fails = 0 /\ killed = 0

---------------------------------------------------------------------------
(* main. *)

\* main goes on to the next call, or leaves through `?` or its last line.
Goto(where) == main' = where /\ UNCHANGED <<code, fails>>
Leave(c) == main' = "unwind" /\ code' = c /\ UNCHANGED fails
Fail == fails < MaxFails /\ fails' = fails + 1 /\ main' = "unwind" /\ code' = 1

\* Device::open finds no Wolverine: a clean exit.
OpenAbsent ==
  /\ main = "open" /\ dev = 0
  /\ Leave(0)
  /\ UNCHANGED <<deviceVars, unitVars, held, addr, isoAddr, handlers, stop, audioVars, pipewire, killed>>

\* Interface 0 is taken from xpad, interface 2 claimed.  (When the second
\* claim fails the first interface is dropped, which gives it back.)
Open ==
  /\ main = "open" /\ dev # 0
  /\ \/ /\ Goto("bring_up")
        /\ held' = <<"dev">> /\ addr' = dev /\ xpad' = FALSE
     \/ Fail /\ UNCHANGED <<held, addr, xpad>>
  /\ UNCHANGED <<dev, plugs, powered, unitVars, isoAddr, handlers, stop, audioVars, pipewire, killed>>

\* bring_up_audio: seconds of handshake, of which POWER ON has a lasting effect.
BringUp ==
  /\ main = "bring_up"
  /\ \/ dev = addr /\ Goto("bridge") /\ powered' = addr
     \/ dev = addr /\ Fail /\ powered' \in {powered, addr}
     \/ dev # addr /\ Leave(1) /\ UNCHANGED powered
  /\ UNCHANGED <<dev, plugs, xpad, unitVars, held, addr, isoAddr, handlers, stop, audioVars, pipewire,
                 killed>>

\* Bridge::start spawns the audio thread and does not wait for it.
StartBridge ==
  /\ main = "bridge"
  /\ \/ /\ Goto("iso")
        /\ held' = Append(held, "bridge")
        /\ audio' = "connecting" /\ attempt' = 0 /\ quit' = FALSE
     \/ Fail /\ UNCHANGED <<held, audioVars>>
  /\ UNCHANGED <<deviceVars, unitVars, addr, isoAddr, handlers, stop, pipewire, killed>>

\* Mutant of StartIso: the first Wolverine on the bus will do.
StartIsoAny ==
  /\ main = "iso"
  /\ \/ dev # 0 /\ Goto("uinput") /\ held' = Append(held, "iso") /\ isoAddr' = dev
     \/ dev = 0 /\ Leave(1) /\ UNCHANGED <<held, isoAddr>>
     \/ Fail /\ UNCHANGED <<held, isoAddr>>
  /\ UNCHANGED <<deviceVars, unitVars, addr, handlers, stop, audioVars, pipewire, killed>>

\* IsoAudio::start opens the device of that bus and address a second time.
StartIso ==
  /\ main = "iso"
  /\ \/ dev = addr /\ Goto("uinput") /\ held' = Append(held, "iso") /\ isoAddr' = addr
     \/ dev # addr /\ Leave(1) /\ UNCHANGED <<held, isoAddr>>
     \/ Fail /\ UNCHANGED <<held, isoAddr>>
  /\ UNCHANGED <<deviceVars, unitVars, addr, handlers, stop, audioVars, pipewire, killed>>

CreateUinput ==
  /\ main = "uinput"
  /\ \/ Goto("handlers") /\ held' = Append(held, "uinput")
     \/ Fail /\ UNCHANGED held
  /\ UNCHANGED <<deviceVars, unitVars, addr, isoAddr, handlers, stop, audioVars, pipewire, killed>>

InstallHandlers ==
  /\ main = "handlers"
  /\ Goto("loop")
  /\ handlers' = TRUE
  /\ UNCHANGED <<deviceVars, unitVars, held, addr, isoAddr, stop, audioVars, pipewire, killed>>

\* Mutant of LoopEnds: the process exits from the loop, and nothing is dropped.
LoopEndsAbruptly ==
  /\ main = "loop" /\ (stop \/ dev # addr)
  /\ main' = "off" /\ held' = <<>> /\ addr' = 0 /\ isoAddr' = 0
  /\ audio' = "none" /\ handlers' = FALSE /\ stop' = FALSE
  /\ unit' = "inactive" /\ stopJob' = FALSE
  /\ UNCHANGED <<deviceVars, event, asked, code, attempt, quit, pipewire, fails, killed>>

\* run_event_loop returns: STOP is set, or a read said Disconnected.
LoopEnds ==
  /\ main = "loop" /\ (stop \/ dev # addr)
  /\ Leave(0)
  /\ UNCHANGED <<deviceVars, unitVars, held, addr, isoAddr, handlers, stop, audioVars, pipewire, killed>>

---------------------------------------------------------------------------
(* The drops, newest local first. *)

\* Mutant of Dropped: oldest first.
DroppedOldest == held' = Tail(held)

Dropped == held' = Front(held)

\* The uinput devices go; IsoAudio stops (see IsoTransfers).
DropLocal ==
  /\ main = "unwind" /\ held # <<>> /\ Last(held) \in {"uinput", "iso"}
  /\ Dropped
  /\ isoAddr' = IF Last(held) = "iso" THEN 0 ELSE isoAddr
  /\ UNCHANGED <<deviceVars, unitVars, main, addr, handlers, stop, code, audioVars, pipewire, fails,
                 killed>>

\* Bridge::stop: the message, then the join.
SendQuit ==
  /\ main = "unwind" /\ held # <<>> /\ Last(held) = "bridge" /\ ~quit
  /\ quit' = TRUE
  /\ UNCHANGED <<deviceVars, unitVars, processVars, audio, attempt, pipewire, fails, killed>>
DropBridge ==
  /\ main = "unwind" /\ held # <<>> /\ Last(held) = "bridge" /\ quit /\ audio = "ended"
  /\ Dropped
  /\ audio' = "none"
  /\ UNCHANGED <<deviceVars, unitVars, main, addr, isoAddr, handlers, stop, code, attempt, quit,
                 pipewire, fails, killed>>

\* nusb gives interface 0 back to xpad when its handle is dropped.
DropDevice ==
  /\ main = "unwind" /\ held # <<>> /\ Last(held) = "dev"
  /\ Dropped
  /\ addr' = 0
  /\ xpad' = (xpad \/ (dev = addr))
  /\ UNCHANGED <<dev, plugs, powered, unitVars, main, isoAddr, handlers, stop, code, audioVars,
                 pipewire, fails, killed>>

\* Mutant of Exit: Restart=no.
ExitForGood ==
  /\ main = "unwind" /\ held = <<>>
  /\ main' = "off" /\ handlers' = FALSE /\ stop' = FALSE
  /\ unit' = "inactive" /\ stopJob' = FALSE
  /\ UNCHANGED <<deviceVars, event, asked, held, addr, isoAddr, code, audioVars, pipewire, fails,
                 killed>>

\* The process ends: Restart=on-failure, and a stop job is done.
Exit ==
  /\ main = "unwind" /\ held = <<>>
  /\ main' = "off" /\ handlers' = FALSE /\ stop' = FALSE
  /\ unit' = IF code # 0 /\ ~stopJob THEN "restart" ELSE "inactive"
  /\ stopJob' = FALSE
  /\ UNCHANGED <<deviceVars, event, asked, held, addr, isoAddr, code, audioVars, pipewire, fails,
                 killed>>

Main ==
  \/ OpenAbsent \/ Open \/ BringUp \/ StartBridge \/ StartIso \/ CreateUinput
  \/ InstallHandlers \/ LoopEnds
  \/ DropLocal \/ SendQuit \/ DropBridge \/ DropDevice \/ Exit

---------------------------------------------------------------------------
(* run_pw, on the audio thread. *)

\* Mutant of ConnectFails: it never gives up.
ConnectFailsForever ==
  /\ audio = "connecting" /\ ~pipewire
  /\ attempt' = 1 - attempt
  /\ UNCHANGED <<deviceVars, unitVars, processVars, audio, quit, pipewire, fails, killed>>

\* PipeWire is not there: half a second, and again, up to MaxAttempts times.
ConnectFails ==
  /\ audio = "connecting" /\ ~pipewire
  /\ attempt' = attempt + 1
  /\ audio' = IF attempt' >= MaxAttempts THEN "ended" ELSE "connecting"
  /\ UNCHANGED <<deviceVars, unitVars, processVars, quit, pipewire, fails, killed>>

\* Connected: both streams are made and the loop runs, or one of them fails.
Connect ==
  /\ audio = "connecting" /\ pipewire
  /\ \/ audio' = "running" /\ UNCHANGED fails
     \/ audio' = "ended" /\ fails < MaxFails /\ fails' = fails + 1
  /\ UNCHANGED <<deviceVars, unitVars, processVars, attempt, quit, pipewire, killed>>

LoopQuits ==
  /\ audio = "running" /\ quit
  /\ audio' = "ended"
  /\ UNCHANGED <<deviceVars, unitVars, processVars, attempt, quit, pipewire, fails, killed>>

Audio == ConnectFails \/ Connect \/ LoopQuits

---------------------------------------------------------------------------
(* systemd and udev. *)

Start ==
  /\ unit' = "active" /\ asked' = FALSE
  /\ main' = "open" /\ code' = 0

\* SYSTEMD_WANTS: a start job, which does nothing for a unit that is not
\* inactive.
Activate ==
  /\ event
  /\ event' = FALSE
  /\ IF unit = "inactive" THEN Start ELSE UNCHANGED <<unit, asked, main, code>>
  /\ UNCHANGED <<deviceVars, stopJob, held, addr, isoAddr, handlers, stop, audioVars, pipewire, fails,
                 killed>>

\* RestartSec has passed.
Restart ==
  /\ unit = "restart"
  /\ Start
  /\ UNCHANGED <<deviceVars, event, stopJob, held, addr, isoAddr, handlers, stop, audioVars, pipewire,
                 fails, killed>>

\* systemctl stop: SIGTERM sets STOP once the handlers are installed, and
\* kills the process with nothing dropped before that.
StopService ==
  /\ unit # "inactive" /\ ~stopJob
  /\ asked' = TRUE
  /\ IF unit = "active" /\ handlers
     THEN /\ stop' = TRUE /\ stopJob' = TRUE
          /\ UNCHANGED <<unit, main, held, addr, isoAddr, audio, killed>>
     ELSE /\ unit' = "inactive"
          /\ main' = "off" /\ held' = <<>> /\ addr' = 0 /\ isoAddr' = 0
          /\ audio' = "none"
          /\ killed' = IF addr # 0 THEN addr ELSE killed
          /\ UNCHANGED <<stop, stopJob>>
  /\ UNCHANGED <<deviceVars, event, handlers, code, attempt, quit, pipewire, fails>>

---------------------------------------------------------------------------
(* The user and the kernel. *)

Plug ==
  /\ dev = 0 /\ plugs < MaxPlugs
  /\ plugs' = plugs + 1 /\ dev' = plugs'
  /\ xpad' = TRUE
  /\ event' = TRUE
  /\ UNCHANGED <<powered, unit, stopJob, asked, processVars, audioVars, pipewire, fails, killed>>

Unplug ==
  /\ dev # 0
  /\ dev' = 0 /\ xpad' = FALSE /\ powered' = 0
  /\ UNCHANGED <<plugs, unitVars, processVars, audioVars, pipewire, fails, killed>>

\* The desktop session starts.
PipeWireUp ==
  /\ ~pipewire
  /\ pipewire' = TRUE
  /\ UNCHANGED <<deviceVars, unitVars, processVars, audioVars, fails, killed>>

Next ==
  \/ Main \/ Audio
  \/ Activate \/ Restart \/ StopService
  \/ Plug \/ Unplug \/ PipeWireUp

Spec == Init /\ [][Next]_vars

\* The scheduler runs both threads, systemd its jobs and timers.  Nobody has
\* to plug, unplug, stop or log in.
LiveSpec ==
  Spec /\ WF_vars(Main) /\ WF_vars(Audio) /\ WF_vars(Activate) /\ WF_vars(Restart)

---------------------------------------------------------------------------
Address == 0 .. MaxPlugs
TypeOK ==
  /\ {dev, plugs, powered, addr, isoAddr, killed} \subseteq Address
  /\ {xpad, event, stopJob, asked, handlers, stop, quit, pipewire} \subseteq BOOLEAN
  /\ unit \in {"inactive", "active", "restart"}
  /\ main \in {"off", "open", "bring_up", "bridge", "iso", "uinput", "handlers", "loop", "unwind"}
  /\ \E n \in 0 .. 4 : held = SubSeq(<<"dev", "bridge", "iso", "uinput">>, 1, n)
  /\ code \in {0, 1}
  /\ audio \in {"none", "connecting", "running", "ended"}
  /\ attempt \in 0 .. MaxAttempts
  /\ fails \in 0 .. MaxFails

\* The handshake "MUST happen BEFORE the iso engine grabs interface 1" (usb.rs),
\* on the same device: the engine is never on a device that was not powered on
\* by the handle next to it, nor on one xpad still drives, whatever was plugged
\* and unplugged while main was starting up.
IsoOnPoweredDevice ==
  (isoAddr # 0 /\ isoAddr = dev) => isoAddr = addr /\ powered = dev /\ ~xpad

\* "On Ctrl+C/SIGTERM it reattaches xpad, so the gamepad returns without a
\* replug" (README): with the process gone, the device is xpad's, unless it was
\* open when a signal found no handler yet.
XpadRestoredUnlessKilled == (main = "off" /\ dev # 0) => xpad \/ killed = dev

Driven == main = "loop" /\ addr = dev

\* "The driver starts automatically when the controller is plugged in"
\* (install.sh), until it is unplugged or the service stopped.
PlugServed == (dev # 0) ~> (Driven \/ dev = 0 \/ asked)

\* The same for a plug that finds the service inactive: a device that stays is
\* driven in the end, whatever fails on the way.
PlugServedWhenInactive == (dev # 0 /\ event /\ unit = "inactive") ~> (Driven \/ dev = 0 \/ asked)

\* systemctl stop ends, although the audio thread it waits for may be retrying
\* its connection to a PipeWire that is not there.
StopEnds == stopJob ~> (main = "off")
===========================================================================
