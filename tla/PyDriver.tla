----------------------------- MODULE PyDriver -----------------------------
(***************************************************************************)
(* main of tools/gip_init.py: the uinput devices, the bring-up of          *)
(* PyBringUp, the PipeWire bridge, the audio of PyAudio, the two monitor   *)
(* threads, and on Ctrl+C the end of them all.                             *)
(*                                                                         *)
(* The main thread and monitor_gip share seq_ref, the gamepad's uinput     *)
(* device and the endpoints of EP1.  What the device reports once it is up *)
(* is any packet at any time.                                              *)
(***************************************************************************)
EXTENDS PyBringUp

CONSTANTS
  SeqLimit,   \* the largest number a header can carry, 255
  Slow        \* what monitor_gip may be at for more than the second of its join

ASSUME SeqAssumption == SeqLimit \in Nat /\ SeqLimit >= 13

\* What monitor_gip does with a report.  A turn without a report with changed
\* knobs is shorter than the join: 100 ms for the read, 500 ms for a write; such
\* a report takes two runs of wpctl, a second each, and two writes.
ASSUME SlowAssumption == Slow \subseteq {"media", "chat", "ack"}

VARIABLES
  main,     \* where main is; "dead" when an exception has ended the process
  ui,       \* uinput_fd: "none", "open", "closed"
  bridge,   \* pw: wpw_start has succeeded and wpw_stop has not been called
  audio,    \* "none", "iso", or "sync" threads
  stop,     \* the threading.Event
  gip,      \* monitor_gip: "off", "top", "read", what it does with a report, "exited", "dead"
  report,   \* the report in its hands
  ctrl      \* monitor_ctrl: "off", "running", "exited"

mainVars == <<main, ui, bridge, audio, stop>>
gipVars  == <<gip, report>>
\* What PyBringUp has besides seq_ref and the header last written.
readVars == <<step, phase, v2, script, rx, offset, result, outq, inq, devVars, taken, late, lost>>
vars == <<bringUpVars, mainVars, gipVars, ctrl>>

\* A report of the device: sub 0x00 of AUDIO_CONTROL carries the knobs.
Report(kind, ack) == [kind |-> kind, ack |-> ack]
Reports ==
  {Report(k, FALSE) : k \in {"input", "status", "other"}}
  \cup {Report(k, a) : k \in {"control", "knobs"}, a \in BOOLEAN}
NoReport == Report("none", FALSE)

Init ==
  /\ BringUpInit
  /\ main = "uinput" /\ ui = "none" /\ bridge = FALSE /\ audio = "none" /\ stop = FALSE
  /\ gip = "off" /\ report = NoReport /\ ctrl = "off"

---------------------------------------------------------------------------
(* The main thread. *)

\* The driver goes on without a gamepad when uinput fails.
CreateUinput ==
  /\ main = "uinput"
  /\ main' = "bring_up"
  /\ ui' \in {"none", "open"}
  /\ UNCHANGED <<bringUpVars, bridge, audio, stop, gipVars, ctrl>>

InBringUp ==
  /\ main = "bring_up" /\ step \notin {"done", "dead"}
  /\ BringUp
  /\ UNCHANGED <<mainVars, gipVars, ctrl>>

\* The locals of gip_init, and with them what the model remembers of the
\* handshake, are gone.  What is left in the endpoints is some of the packets
\* the monitor may read.
Forget ==
  /\ step' = "off" /\ phase' = "send" /\ v2' = FALSE /\ script' = <<>>
  /\ rx' = NoRx /\ offset' = 0 /\ result' = "none" /\ wire' = NoHeader
  /\ outq' = <<>> /\ inq' = <<>>
  /\ dev' = SilentDevice /\ taken' = NothingTaken
  /\ late' = FALSE /\ lost' = 0 /\ resent' = 0

\* gip_init returns seq_ref.
BringUpReturns ==
  /\ main = "bring_up" /\ step = "done"
  /\ main' = "bridge"
  /\ Forget
  /\ UNCHANGED <<seqRef, ui, bridge, audio, stop, gipVars, ctrl>>

\* Nothing in main catches what gip_init raises.
BringUpRaises ==
  /\ main = "bring_up" /\ step = "dead"
  /\ main' = "dead"
  /\ Forget
  /\ UNCHANGED <<seqRef, ui, bridge, audio, stop, gipVars, ctrl>>

\* The shim is missing or wpw_start fails: no PipeWire devices.  A shim that
\* cannot be loaded raises, and nothing catches it.
StartBridge ==
  /\ main = "bridge"
  /\ \/ main' = "audio" /\ bridge' \in BOOLEAN
     \/ main' = "dead" /\ UNCHANGED bridge
  /\ UNCHANGED <<bringUpVars, ui, audio, stop, gipVars, ctrl>>

\* The asynchronous engine, or else the synchronous threads.
StartAudio ==
  /\ main = "audio"
  /\ main' = "threads"
  /\ audio' \in {"iso", "sync"}
  /\ UNCHANGED <<bringUpVars, ui, bridge, stop, gipVars, ctrl>>

StartThreads ==
  /\ main = "threads"
  /\ main' = "run"
  /\ gip' = "top" /\ ctrl' = "running"
  /\ UNCHANGED <<bringUpVars, ui, bridge, audio, stop, report>>

\* Ctrl+C is caught in the sleep at the end; anywhere else it ends the process.
Interrupt ==
  \/ /\ main = "run"
     /\ main' = "iso_stop" /\ stop' = TRUE
     /\ UNCHANGED <<bringUpVars, ui, bridge, audio, gipVars, ctrl>>
  \/ /\ main \notin {"run", "done", "dead"}
     /\ main' = "dead"
     /\ Forget
     /\ UNCHANGED <<seqRef, ui, bridge, audio, stop, gipVars, ctrl>>

\* IsoAudio.stop (see PyAudio).
StopIso ==
  /\ main = "iso_stop"
  /\ main' = "join"
  /\ audio' = IF audio = "iso" THEN "none" ELSE audio
  /\ UNCHANGED <<bringUpVars, ui, bridge, stop, gipVars, ctrl>>

\* The joins, a second each: that of monitor_gip may give up.  monitor_ctrl looks
\* at stop every 100 ms.  (The audio threads: see PyAudio.)
JoinThreads ==
  /\ main = "join"
  /\ ctrl = "exited"
  /\ gip \in {"exited", "dead"} \cup Slow
  /\ main' = "stop_bridge"
  /\ audio' = "none"
  /\ UNCHANGED <<bringUpVars, ui, bridge, stop, gipVars, ctrl>>

StopBridge ==
  /\ main = "stop_bridge"
  /\ main' = "close"
  /\ bridge' = FALSE
  /\ UNCHANGED <<bringUpVars, ui, audio, stop, gipVars, ctrl>>

\* The interfaces are released, the uinput devices closed.
CloseAll ==
  /\ main = "close"
  /\ main' = "done"
  /\ ui' = IF ui = "open" THEN "closed" ELSE ui
  /\ UNCHANGED <<bringUpVars, bridge, audio, stop, gipVars, ctrl>>

Main ==
  \/ CreateUinput \/ InBringUp \/ BringUpReturns \/ BringUpRaises
  \/ StartBridge \/ StartAudio \/ StartThreads
  \/ Interrupt \/ StopIso \/ JoinThreads \/ StopBridge \/ CloseAll

---------------------------------------------------------------------------
(* monitor_gip. *)

\* Mutant of MonitorTop: the loop does not look at stop.
MonitorTopForever ==
  /\ gip = "top"
  /\ gip' = "read"
  /\ wire' = NoHeader
  /\ UNCHANGED <<readVars, seqRef, mainVars, report, ctrl>>

\* A new turn; what the last one wrote is gone.
MonitorTop ==
  /\ gip = "top"
  /\ gip' = IF stop THEN "exited" ELSE "read"
  /\ wire' = NoHeader
  /\ UNCHANGED <<readVars, seqRef, mainVars, report, ctrl>>

\* What the monitor does with a report: the others are printed.
Handling(r) ==
  CASE r.kind = "input" -> IF ui = "none" THEN "top" ELSE "input"
    [] r.kind = "status" -> "status"
    [] r.kind = "knobs" -> "media"
    [] r.kind = "control" -> IF r.ack THEN "ack" ELSE "top"
    [] OTHER -> "top"

MonitorReads ==
  /\ gip = "read"
  /\ \E r \in Reports : gip' = Handling(r) /\ report' = IF gip' = "top" THEN NoReport ELSE r
  /\ UNCHANGED <<bringUpVars, mainVars, ctrl>>

\* A timeout or an error of the read.
MonitorReadsNothing ==
  /\ gip = "read"
  /\ gip' = "top"
  /\ UNCHANGED <<bringUpVars, mainVars, report, ctrl>>

\* parse_and_forward_gamepad.
ForwardInput ==
  /\ gip = "input"
  /\ gip' = "top"
  /\ report' = NoReport
  /\ UNCHANGED <<bringUpVars, mainVars, ctrl>>

\* forward_media: wpctl is run for what has changed, and waited for.
ForwardMedia ==
  /\ gip = "media"
  /\ gip' = "chat"
  /\ UNCHANGED <<bringUpVars, mainVars, report, ctrl>>

\* The number is taken and seq_ref advanced before the packet is built; a
\* number that is no byte raises ValueError, which the loop does not catch.
Answer(cmd, opts, len, next) ==
  /\ seqRef' = seqRef + 1
  /\ IF seqRef > SeqLimit
     THEN gip' = "dead" /\ UNCHANGED wire
     ELSE /\ gip' = next
          /\ \/ wire' = [cmd |-> cmd, opts |-> opts, seq |-> seqRef, len |-> len, off |-> NoOffset]
             \/ UNCHANGED wire
  /\ report' = IF gip' = "ack" THEN report ELSE NoReport
  /\ UNCHANGED <<readVars, mainVars, ctrl>>

\* pkt_status, pkt_audio_volume_chat at full volume.
AnswerStatus == gip = "status" /\ Answer(3, Client + Internal, 4, "top")
AnswerKnobs ==
  gip = "chat" /\ Answer(8, Client + Internal, 5, IF report.ack THEN "ack" ELSE "top")

\* pkt_ack, with the number of what it acknowledges.
AnswerAck ==
  /\ gip = "ack"
  /\ gip' = "top"
  /\ report' = NoReport
  /\ \/ \E n \in {1, SeqLimit} :
          wire' = [cmd |-> 1, opts |-> Internal, seq |-> n, len |-> 9, off |-> NoOffset]
     \/ UNCHANGED wire
  /\ UNCHANGED <<readVars, seqRef, mainVars, ctrl>>

\* monitor_ctrl prints what comes over EP2 until stop is set.
MonitorCtrl ==
  /\ ctrl = "running" /\ stop
  /\ ctrl' = "exited"
  /\ UNCHANGED <<bringUpVars, mainVars, gipVars>>

\* The threads are daemons: they end with the process.
Threads ==
  /\ main # "dead"
  /\ \/ MonitorTop \/ MonitorReads \/ MonitorReadsNothing
     \/ ForwardInput \/ ForwardMedia
     \/ AnswerStatus \/ AnswerKnobs \/ AnswerAck
     \/ MonitorCtrl

Next == Main \/ Threads

Spec == Init /\ [][Next]_vars

---------------------------------------------------------------------------
\* The number of the message of a step, at most, and the next number to take.
Number(s) ==
  CASE s = "identify" -> 1
    [] s = "format"   -> 12
    [] s = "power"    -> 13
    [] OTHER          -> Rank(s) + 1

NextNumber(s, ph) ==
  CASE s = "drain" -> 1
    [] s \in {"done", "dead", "off"} -> 14
    [] OTHER -> IF ph = "wait" THEN Number(s) + 1 ELSE Number(s)

\* The bring-up takes 13 numbers at most, one for each step, and monitor_gip one
\* too many before it dies of it.
Numbers ==
  /\ seqRef \in 1 .. SeqLimit + 2
  /\ gip = "off" => seqRef <= NextNumber(step, phase)
  /\ gip \notin {"off", "dead"} => seqRef <= SeqLimit + 1

\* What is in the queues is a packet, a header gives an offset exactly when it is
\* a chunk's, and the numbers stay within the bounds above.
TypeOK ==
  /\ BringUpTypeOK /\ Channels /\ wire \in Headers
  /\ Numbers
  /\ main \in {"uinput", "bring_up", "bridge", "audio", "threads", "run", "iso_stop", "join",
               "stop_bridge", "close", "done", "dead"}
  /\ ui \in {"none", "open", "closed"}
  /\ {bridge, stop} \subseteq BOOLEAN
  /\ audio \in {"none", "iso", "sync"}
  /\ gip \in {"off", "top", "read", "input", "status", "media", "chat", "ack", "exited", "dead"}
  /\ report \in Reports \cup {NoReport}
  /\ ctrl \in {"off", "running", "exited"}

\* The joins of the shutdown are limited to a second, and monitor_gip may be
\* busy for longer: main closes the virtual gamepad next to a thread that is
\* still running.  That thread never writes to it afterwards.
QuietAfterClose == gip = "input" => ui = "open"

\* "Sequence number (1-255)" (CONTEXT.md): the thread that forwards the gamepad
\* lives as long as main waits for Ctrl+C, however many reports it answers.
MonitorAlive == main = "run" => gip # "dead"
===========================================================================
