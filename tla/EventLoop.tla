----------------------------- MODULE EventLoop -----------------------------
(***************************************************************************)
(* The EP1 loop of usb.rs, run_event_loop, with the virtual input devices  *)
(* of input.rs: one thread that polls the force-feedback queue of the      *)
(* gamepad, reads a report of the controller for at most 100 ms, handles   *)
(* it, and starts again.                                                   *)
(*                                                                         *)
(* Around it act the player, who presses buttons and turns the             *)
(* controller's volume and mute, a game that uploads and plays effects,    *)
(* the user's desktop, which changes the system's volume on its own, and   *)
(* signals and unplugs.  A report is its kind and what it carries; that a  *)
(* button is "input" or "guide" only says which packet carries it.         *)
(*                                                                         *)
(* Every send may fail or time out; a transfer that timed out may have     *)
(* arrived all the same.  The sequence numbers of what is sent, and the    *)
(* acknowledgement, which carries no state, are left out, as are reports   *)
(* that are ignored.  The media buttons are those of MediaMode::Absolute.  *)
(***************************************************************************)
EXTENDS Integers, Sequences

CONSTANTS
  Buttons,       \* kinds of report that carry the state of a button
  Levels,        \* volumes of the controller and of the system
  Mutes,         \* their mute states
  Effects,       \* effect ids, given out by the kernel
  Magnitudes,    \* of an effect, 0 .. 65535
  MaxReports,    \* bound: reports the controller holds for the host
  MaxEvents      \* bound: events in the queue of the uinput device, 16

ASSUME KindsAssumption ==
  "media" \notin Buttons /\ "status" \notin Buttons /\ "none" \notin Buttons

ASSUME EventLoopAssumption ==
  /\ Levels \subseteq 0 .. 100 /\ Levels # {}
  /\ Mutes \subseteq BOOLEAN /\ Mutes # {}
  /\ \A m \in Magnitudes : m \in Nat /\ m <= 65535
  /\ MaxReports \in Nat /\ MaxEvents \in Nat

VARIABLES
  pc,          \* where the loop is
  raw,         \* the report it handles
  stop,        \* STOP
  pad,         \* the buttons of the virtual gamepad
  last,        \* last_mute and last_vol: {} before the first report, then {v}
  effects,     \* ff_effects: the magnitude of an effect, {} or {m}
  held,        \* the buttons of the controller
  knob,        \* its mute and its volume
  hw,          \* the attenuation its DAC applies: "own" or "max"
  motors,      \* its motors, 0 .. 100
  outbox,      \* its reports the host has not read
  gone,        \* it was unplugged
  system,      \* mute of the default source, volume of the default sink
  queue,       \* force-feedback events the loop has not fetched
  request,     \* the effect whose upload or erasure waits for an answer
  known,       \* effects the kernel lets a game play
  uploaded,    \* the magnitude a game gave an effect last
  want,        \* history: what the last play or stop asked for
  mirrored,    \* history: controls that wpctl set, not changed by the user since
  unheard,     \* history: kinds whose latest report was lost
  unsent       \* history: "rumble", "reply": the latest of it was not delivered

loopVars    == <<pc, raw, stop>>
uinputVars  == <<pad, last, effects>>
deviceVars  == <<held, knob, hw, outbox, gone>>
gameVars    == <<queue, request, known, uploaded, want>>
historyVars == <<mirrored, unheard, unsent>>
vars == <<loopVars, uinputVars, deviceVars, motors, system, gameVars, historyVars>>

Controls == {"mute", "vol"}
Values(a) == IF a = "mute" THEN Mutes ELSE Levels
Settings == [mute : Mutes, vol : Levels]

\* Mutant of ScaleMag: the magnitude taken for a byte.
ScaleMagByte(m) == (m * 100) \div 255

\* scale_mag: the kernel's magnitude to the range of a GIP rumble command.
ScaleMag(m) == (m * 100) \div 65535

NoReport == [kind |-> "none", v |-> FALSE]

Init ==
  /\ pc = "top" /\ raw = NoReport /\ stop = FALSE
  /\ pad = [b \in Buttons |-> FALSE] /\ last = [a \in Controls |-> {}]
  /\ effects = [e \in Effects |-> {}]
  /\ held = [b \in Buttons |-> FALSE] /\ knob \in Settings /\ hw = "own"
  /\ motors = 0 /\ outbox = <<>> /\ gone = FALSE
  /\ system \in Settings
  /\ queue = <<>> /\ request = {} /\ known = {}
  /\ uploaded = [e \in Effects |-> 0] /\ want = 0
  /\ mirrored = {} /\ unheard = {} /\ unsent = {}

---------------------------------------------------------------------------
(* The top of the loop. *)

\* Mutant of Cached: an effect keeps the magnitude it was first uploaded with.
CachedOnce(cache, ev) ==
  IF cache[ev.effect] = {} THEN [cache EXCEPT ![ev.effect] = {ev.mag}] ELSE cache

\* UI_FF_UPLOAD.
Cached(cache, ev) == [cache EXCEPT ![ev.effect] = {ev.mag}]

\* One event of poll_rumble: out is the command to send, if any.
Served(s, ev) ==
  CASE ev.op = "upload" -> [s EXCEPT !.cache = Cached(@, ev)]
    [] ev.op = "erase"  -> [s EXCEPT !.cache[ev.effect] = {}]
    [] ev.op = "play"   ->
         [s EXCEPT !.out = IF s.cache[ev.effect] = {} THEN {0}
                           ELSE {ScaleMag(m) : m \in s.cache[ev.effect]}]
    [] ev.op = "stop"   -> [s EXCEPT !.out = {0}]

\* The events of q, each in its turn.
ServedAll(cache, q) ==
  LET run[n \in 0 .. Len(q)] ==
        IF n = 0 THEN [cache |-> cache, out |-> {}] ELSE Served(run[n - 1], q[n])
  IN  run[Len(q)]

\* What is left of the queue once fetched: the kernel has its answers.
Answered ==
  /\ queue' = <<>> /\ request' = {}
  /\ known' = known \cup {queue[i].effect : i \in {j \in DOMAIN queue : queue[j].op = "upload"}}
  /\ UNCHANGED <<uploaded, want>>

\* What became of the latest command of a kind.
Delivered(what) == unsent' = unsent \ {what}
Undelivered(what) == unsent' = unsent \cup {what}

\* The command, if there is one: it sets the motors, or the send fails and it
\* may have arrived or not.
Rumble(out) ==
  \/ out = {} /\ UNCHANGED <<motors, unsent>>
  \/ \E level \in out :
       \/ ~gone /\ motors' = level /\ Delivered("rumble")
       \/ motors' \in {motors, level} /\ (gone => motors' = motors) /\ Undelivered("rumble")

\* Mutant of Poll: the effects wait while the controller has reports.
PollWhenQuiet ==
  /\ pc = "top" /\ ~stop
  /\ LET s == ServedAll(effects, queue)
     IN  IF outbox # <<>> THEN UNCHANGED <<gameVars, effects, motors, unsent>>
         ELSE Answered /\ effects' = s.cache /\ Rumble(s.out)
  /\ pc' = "recv"
  /\ UNCHANGED <<raw, stop, pad, last, deviceVars, system, mirrored, unheard>>

\* poll_rumble, and the one command it leads to.
Poll ==
  /\ pc = "top" /\ ~stop
  /\ LET s == ServedAll(effects, queue)
     IN  Answered /\ effects' = s.cache /\ Rumble(s.out)
  /\ pc' = "recv"
  /\ UNCHANGED <<raw, stop, pad, last, deviceVars, system, mirrored, unheard>>

\* The loop's condition fails.
LeaveOnStop ==
  /\ pc = "top" /\ stop
  /\ pc' = "returned"
  /\ UNCHANGED <<raw, stop, uinputVars, deviceVars, motors, system, gameVars, historyVars>>

---------------------------------------------------------------------------
(* recv. *)

\* Mutant of Receive: what has piled up is skipped, the newest report counts.
ReceiveNewest ==
  /\ pc = "recv" /\ outbox # <<>>
  /\ raw' = outbox[Len(outbox)] /\ outbox' = <<>> /\ pc' = "handle"
  /\ UNCHANGED <<stop, uinputVars, held, knob, hw, gone, motors, system, gameVars, historyVars>>

Receive ==
  /\ pc = "recv" /\ outbox # <<>>
  /\ raw' = Head(outbox) /\ outbox' = Tail(outbox) /\ pc' = "handle"
  /\ UNCHANGED <<stop, uinputVars, held, knob, hw, gone, motors, system, gameVars, historyVars>>

\* 100 ms without a report, an empty one, or an error other than Disconnected.
TimedOut ==
  /\ pc = "recv" /\ outbox = <<>> /\ ~gone
  /\ pc' = "top"
  /\ UNCHANGED <<raw, stop, uinputVars, deviceVars, motors, system, gameVars, historyVars>>

\* The timer wins although the transfer has completed: the transfer is dropped
\* with its report.
Miss ==
  /\ pc = "recv" /\ outbox # <<>>
  /\ outbox' = Tail(outbox) /\ unheard' = unheard \cup {Head(outbox).kind}
  /\ pc' = "top"
  /\ UNCHANGED <<raw, stop, uinputVars, held, knob, hw, gone, motors, system, gameVars, mirrored, unsent>>

\* Mutant of Disconnected: an unplug is retried like any other error.
DisconnectedRetried ==
  /\ pc = "recv" /\ gone
  /\ pc' = "top"
  /\ UNCHANGED <<raw, stop, uinputVars, deviceVars, motors, system, gameVars, historyVars>>

\* TransferError::Disconnected breaks the loop.
Disconnected ==
  /\ pc = "recv" /\ gone
  /\ pc' = "returned"
  /\ UNCHANGED <<raw, stop, uinputVars, deviceVars, motors, system, gameVars, historyVars>>

---------------------------------------------------------------------------
(* The handlers. *)

\* forward_gamepad and forward_guide: every report carries the whole state.
HandleButton ==
  /\ pc = "handle" /\ raw.kind \in Buttons
  /\ pad' = [pad EXCEPT ![raw.kind] = raw.v] /\ unheard' = unheard \ {raw.kind}
  /\ pc' = "top" /\ raw' = NoReport
  /\ UNCHANGED <<stop, last, effects, deviceVars, motors, system, gameVars, mirrored, unsent>>

\* STATUS: the heartbeat is answered with the same status; nothing is kept.
HandleStatus ==
  /\ pc = "handle" /\ raw.kind = "status"
  /\ unheard' = unheard \ {"status"}
  /\ pc' = "top" /\ raw' = NoReport
  /\ UNCHANGED <<stop, uinputVars, deviceVars, motors, system, gameVars, mirrored, unsent>>

\* forward_media for one control: a change since the last report, not the
\* first report, is handed to wpctl, which may fail; the value is remembered.
Mirror(a) ==
  /\ IF last[a] \in {{}, {raw.v[a]}} THEN UNCHANGED <<system, mirrored>>
     ELSE \/ system' = [system EXCEPT ![a] = raw.v[a]] /\ mirrored' = mirrored \cup {a}
          \/ UNCHANGED system /\ mirrored' = mirrored \ {a}
  /\ last' = [last EXCEPT ![a] = {raw.v[a]}]

\* Mutant of HandleMute: a report is a press of one button, mute or volume.
HandleMuteOnly ==
  /\ pc = "handle" /\ raw.kind = "media"
  /\ Mirror("mute") /\ unheard' = unheard \ {"media"}
  /\ pc' = IF last["mute"] \in {{}, {raw.v["mute"]}} THEN "volume" ELSE "reply"
  /\ UNCHANGED <<raw, stop, pad, effects, deviceVars, motors, gameVars, unsent>>

HandleMute ==
  /\ pc = "handle" /\ raw.kind = "media"
  /\ Mirror("mute") /\ unheard' = unheard \ {"media"}
  /\ pc' = "volume"
  /\ UNCHANGED <<raw, stop, pad, effects, deviceVars, motors, gameVars, unsent>>

\* Mutant of HandleVolume: the controller is answered only about changes.
HandleVolumeChanged ==
  /\ pc = "volume"
  /\ Mirror("vol")
  /\ IF last["vol"] = {raw.v["vol"]} THEN pc' = "top" /\ raw' = NoReport
     ELSE pc' = "reply" /\ UNCHANGED raw
  /\ UNCHANGED <<stop, pad, effects, deviceVars, motors, gameVars, unheard, unsent>>

HandleVolume ==
  /\ pc = "volume"
  /\ Mirror("vol")
  /\ pc' = "reply"
  /\ UNCHANGED <<raw, stop, pad, effects, deviceVars, motors, gameVars, unheard, unsent>>

\* VOLUME_CHAT with the maximum: the DAC stops attenuating.
Reply ==
  /\ pc = "reply"
  /\ \/ ~gone /\ hw' = "max" /\ Delivered("reply")
     \/ hw' \in {hw, "max"} /\ (gone => hw' = hw) /\ Undelivered("reply")
  /\ pc' = "top" /\ raw' = NoReport
  /\ UNCHANGED <<stop, uinputVars, held, knob, outbox, gone, motors, system, gameVars, mirrored, unheard>>

RunEventLoop ==
  \/ Poll \/ LeaveOnStop
  \/ Receive \/ TimedOut \/ Miss \/ Disconnected
  \/ HandleButton \/ HandleStatus \/ HandleMute \/ HandleVolume \/ Reply

---------------------------------------------------------------------------
(* The controller and its player. *)

Report(kind, v) ==
  /\ ~gone /\ Len(outbox) < MaxReports
  /\ outbox' = Append(outbox, [kind |-> kind, v |-> v])

Press(b) ==
  /\ held' = [held EXCEPT ![b] = ~@]
  /\ Report(b, ~held[b])
  /\ UNCHANGED <<loopVars, uinputVars, knob, hw, gone, motors, system, gameVars, historyVars>>

\* One control changes, the report carries both; the DAC follows the knob.
Turn(a, v) ==
  /\ v # knob[a]
  /\ knob' = [knob EXCEPT ![a] = v] /\ hw' = "own"
  /\ Report("media", [knob EXCEPT ![a] = v])
  /\ UNCHANGED <<loopVars, uinputVars, held, gone, motors, system, gameVars, historyVars>>

Heartbeat ==
  /\ Report("status", FALSE)
  /\ UNCHANGED <<loopVars, uinputVars, held, knob, hw, gone, motors, system, gameVars, historyVars>>

Unplug ==
  /\ ~gone
  /\ gone' = TRUE /\ outbox' = <<>>
  /\ UNCHANGED <<loopVars, uinputVars, held, knob, hw, motors, system, gameVars, historyVars>>

Controller ==
  \/ \E b \in Buttons : Press(b)
  \/ \E a \in Controls : \E v \in Values(a) : Turn(a, v)
  \/ Heartbeat
  \/ Unplug

---------------------------------------------------------------------------
(* Games, through the kernel's force-feedback core, while the gamepad      *)
(* exists.  One upload or erasure waits at a time.                         *)

Queue(evs) ==
  /\ pc # "returned" /\ Len(queue) + Len(evs) <= MaxEvents
  /\ queue' = queue \o evs

Event(op, e) == [op |-> op, effect |-> e, mag |-> 0]

Upload(e, m) ==
  /\ request = {}
  /\ Queue(<<[op |-> "upload", effect |-> e, mag |-> m]>>)
  /\ request' = {e} /\ uploaded' = [uploaded EXCEPT ![e] = m]
  /\ UNCHANGED <<loopVars, uinputVars, deviceVars, motors, system, known, want, historyVars>>

\* The kernel stops an effect before it erases it.
Erase(e) ==
  /\ request = {} /\ e \in known
  /\ Queue(<<Event("stop", e), Event("erase", e)>>)
  /\ request' = {e} /\ known' = known \ {e} /\ want' = 0
  /\ UNCHANGED <<loopVars, uinputVars, deviceVars, motors, system, uploaded, historyVars>>

PlayEffect(e) ==
  /\ e \in known
  /\ Queue(<<Event("play", e)>>)
  /\ want' = uploaded[e]
  /\ UNCHANGED <<loopVars, uinputVars, deviceVars, motors, system, request, known, uploaded, historyVars>>

StopEffect(e) ==
  /\ e \in known
  /\ Queue(<<Event("stop", e)>>)
  /\ want' = 0
  /\ UNCHANGED <<loopVars, uinputVars, deviceVars, motors, system, request, known, uploaded, historyVars>>

Game ==
  \E e \in Effects :
    (\E m \in Magnitudes : Upload(e, m)) \/ Erase(e) \/ PlayEffect(e) \/ StopEffect(e)

---------------------------------------------------------------------------
(* The desktop and the signals. *)

SetSystem(a, v) ==
  /\ v # system[a]
  /\ system' = [system EXCEPT ![a] = v] /\ mirrored' = mirrored \ {a}
  /\ UNCHANGED <<loopVars, uinputVars, deviceVars, motors, gameVars, unheard, unsent>>

Signal ==
  /\ ~stop /\ stop' = TRUE
  /\ UNCHANGED <<pc, raw, uinputVars, deviceVars, motors, system, gameVars, historyVars>>

Desktop == \E a \in Controls : \E v \in Values(a) : SetSystem(a, v)

Next == RunEventLoop \/ Controller \/ Game \/ Desktop \/ Signal

Spec == Init /\ [][Next]_vars

\* The thread runs: every call in the loop has a time limit, wpctl apart,
\* which is taken to end.
LiveSpec == Spec /\ WF_vars(RunEventLoop)

---------------------------------------------------------------------------
(* Properties. *)

Kinds == Buttons \cup {"media", "status"}

\* A report of this kind waits or is being handled.
Pending(kind) ==
  \/ \E i \in DOMAIN outbox : outbox[i].kind = kind
  \/ raw.kind = kind

\* Every variable stays in its range.
TypeOK ==
  /\ pc \in {"top", "recv", "handle", "volume", "reply", "returned"}
  /\ stop \in BOOLEAN /\ gone \in BOOLEAN
  /\ raw.kind \in Kinds \cup {"none"}
  /\ pad \in [Buttons -> BOOLEAN] /\ held \in [Buttons -> BOOLEAN]
  /\ last["mute"] \in SUBSET Mutes /\ last["vol"] \in SUBSET Levels
  /\ knob \in Settings /\ system \in Settings
  /\ hw \in {"own", "max"} /\ motors \in 0 .. 100
  /\ \A i \in DOMAIN outbox : outbox[i].kind \in Kinds
  /\ effects \in [Effects -> SUBSET Magnitudes]
  /\ request \subseteq Effects /\ known \subseteq Effects
  /\ uploaded \in [Effects -> Magnitudes \cup {0}] /\ want \in Magnitudes \cup {0}
  /\ mirrored \subseteq Controls /\ unheard \subseteq Kinds
  /\ unsent \subseteq {"rumble", "reply"}
  /\ Len(outbox) <= MaxReports /\ Len(queue) <= MaxEvents

\* Once its reports are handled, and unless the latest was lost to the timer,
\* a button is on the virtual gamepad what it is on the controller
\* (forward_gamepad and forward_guide; each report stands for itself).
PadFollows ==
  \A b \in Buttons : gone \/ Pending(b) \/ b \in unheard \/ pad[b] = held[b]

\* Once its reports are handled, a control the driver has set the system to is
\* set to what the controller shows now, until the user changes the system
\* (forward_media: last_mute and last_vol never get ahead of the system).
SystemFollowsKnob ==
  \A a \in mirrored : gone \/ Pending("media") \/ "media" \in unheard \/ system[a] = knob[a]

\* Once a media report is answered the controller's DAC is at its maximum, so
\* that volume is attenuated once, by the system (the VOLUME_CHAT reply).
ControllerAtMax ==
  \/ gone \/ Pending("media") \/ "media" \in unheard \/ "reply" \in unsent
  \/ last["vol"] = {} \/ hw = "max"

\* When no event waits the motors do what the last play or stop asked for, with
\* the magnitude uploaded before it, unless that command was not delivered
\* (poll_rumble: the cache follows uploads and erasures in queue order).
MotorsFollow ==
  queue = <<>> /\ "rumble" \notin unsent => motors = ScaleMag(want)

\* A game that waits in the kernel for an upload or an erasure is answered as
\* long as the loop runs, whatever the controller sends.
UploadsAnswered == request # {} ~> (request = {} \/ pc = "returned")

\* A signal or an unplug ends the loop, whatever else happens.
LoopEnds == (stop \/ gone) ~> pc = "returned"
===========================================================================
