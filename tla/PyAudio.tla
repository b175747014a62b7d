------------------------------ MODULE PyAudio ------------------------------
(***************************************************************************)
(* The audio of the Python driver: the rings and the PipeWire callbacks of *)
(* tools/wolverine_pw.c, the asynchronous engine of tools/iso_audio.py     *)
(* (IsoAudio), the synchronous threads of tools/gip_init.py that replace   *)
(* it, and what main does with them from wpw_start to wpw_stop.            *)
(*                                                                         *)
(* Four threads act: main, PipeWire's, the engine's event thread, and the  *)
(* two synchronous threads instead of it.  The engine's callbacks run on   *)
(* the event thread, or on main while stop drains: libusb lets one thread  *)
(* at a time handle events.  The two rings have nothing to do with each    *)
(* other, so one of them, either, is followed.                             *)
(***************************************************************************)
EXTENDS ShimRing, FiniteSets

CONSTANTS
  Byte,            \* PCM
  Packet,          \* bytes of PCM in a packet, EP3_OUT_PCM, OUT_PCM_BYTES
  Prime,           \* PLAY_PRIME_BYTES, OUT_PRIME_BYTES
  Buffers,         \* what a buffer of PipeWire, or a packet of the microphone, may hold
  MaxRequest,      \* bytes of a buffer that on_process_capture fills
  NOut, NIn,       \* OUT_NUM_XFERS, IN_NUM_XFERS
  PktsPerXfer,     \* OUT_PKTS_PER_XFER, IN_PKTS_PER_XFER
  MaxErrors,       \* consecutive errors stream_audio_out endures, 100
  MaxFails,        \* bound: calls of libusb that fail though the device is there
  Limit,           \* the deadline of stop's drain and of each join, in ms, 1000
  CancelTime,      \* the longest a transfer takes to come back once it is cancelled
  EventTime,       \* the longest turn of the event loop: 100 ms and the callbacks
  SyncTime         \* the longest turn of a synchronous thread: 100 ms and a sleep of 100

ASSUME PyAudioAssumption ==
  /\ {Packet, Prime, MaxRequest, PktsPerXfer, NOut, NIn} \subseteq Nat \ {0}
  /\ Buffers \subseteq Seq(Byte)
  /\ Packet =< Prime /\ Prime =< RingCap
  /\ {MaxErrors, MaxFails} \subseteq Nat

\* What the shutdown waits for takes less than it is ready to wait: neither a
\* stalled host controller nor a starved thread outlasts a second.
ASSUME TimeAssumption ==
  /\ {Limit, CancelTime, EventTime, SyncTime} \subseteq Nat
  /\ CancelTime < Limit /\ EventTime < Limit /\ SyncTime < Limit

VARIABLES
  side,       \* the ring followed: "play" or "capture"
  ring,       \* it; Freed before wpw_start and after wpw_stop
  delivered,  \* history: what the last ring_read handed over
  pw,         \* PipeWire's thread loop runs
  main,       \* where main is
  running,    \* IsoAudio._running
  event,      \* the event thread: "none", "check", "handle", "exited"
  cb,         \* per thread, the callback it is in: [pc, x, i]
  xfer,       \* per transfer: "none", "idle", "flight", "cancelling", or how it has come back
  primed,     \* _out_primed, primed
  stop,       \* the threading.Event
  out,        \* stream_audio_out: "none", "top", "read", "write", "exited"
  errors,     \* its consecutive errors
  full,       \* history: its last read of the ring has filled the packet
  inp,        \* monitor_audio: "none", "top", "read", "exited"
  gone,       \* the device has been unplugged
  fails,      \* failures so far, up to MaxFails
  broke       \* stop's drain has ended on an error

ringVars   == <<side, ring, delivered, pw>>
engineVars == <<running, event, cb, xfer>>
syncVars   == <<out, errors, full, inp>>
vars == <<ringVars, main, engineVars, primed, stop, syncVars, gone, fails, broke>>

Xfer == 1 .. NOut + NIn
IsOut(x) == x =< NOut
Main == "main"
Event == "event"
NoCallback == [pc |-> "none", x |-> 0, i |-> 0]
Freed == [buf |-> <<>>, head |-> 0, tail |-> 0]

\* USBTransfer.isSubmitted.
Submitted == {x \in Xfer : xfer[x] \notin {"none", "idle"}}

Init ==
  /\ side \in {"play", "capture"}
  /\ ring = Freed /\ delivered = <<>> /\ pw = FALSE
  /\ main = "bridge"
  /\ running = FALSE /\ event = "none"
  /\ cb = [t \in {Main, Event} |-> NoCallback]
  /\ xfer = [x \in Xfer |-> "none"]
  /\ primed = FALSE /\ stop = FALSE
  /\ out = "none" /\ errors = 0 /\ full = TRUE /\ inp = "none"
  /\ gone = FALSE /\ fails = 0 /\ broke = FALSE

---------------------------------------------------------------------------
(* The exported functions of the shim. *)

\* wpw_playback_avail, for those whose ring is the other one: anything.
AvailIs(n) == IF side = "play" /\ pw THEN n = Used(ring) ELSE pw \/ n = 0

\* wpw_read_playback of a packet: n bytes have been read.
ReadPlayback(n) ==
  IF side = "play" /\ pw
  THEN /\ n = Taken(ring, Packet)
       /\ delivered' = Bytes(ring, Packet)
       /\ ring' = RingRead(ring, Packet)
  ELSE /\ pw \/ n = 0
       /\ UNCHANGED <<ring, delivered>>

\* wpw_write_capture of the PCM of one packet.
WriteCapture ==
  IF side = "capture" /\ pw
  THEN /\ \E pcm \in Buffers : ring' = RingWrite(ring, pcm)
       /\ UNCHANGED delivered
  ELSE UNCHANGED <<ring, delivered>>

---------------------------------------------------------------------------
(* PipeWire's thread. *)

\* on_process_playback: a buffer of what the system plays.
ProcessPlayback ==
  /\ pw /\ side = "play"
  /\ \E pcm \in Buffers : ring' = RingWrite(ring, pcm)
  /\ UNCHANGED <<side, delivered, pw, main, engineVars, primed, stop, syncVars, gone, fails, broke>>

\* on_process_capture: a buffer is filled, from the ring as far as it goes.
ProcessCapture ==
  /\ pw /\ side = "capture"
  /\ \E n \in 1 .. MaxRequest :
       /\ delivered' = Bytes(ring, n)
       /\ ring' = RingRead(ring, n)
  /\ UNCHANGED <<side, pw, main, engineVars, primed, stop, syncVars, gone, fails, broke>>

---------------------------------------------------------------------------
(* main, up to the run. *)

\* wpw_start: fresh rings, of which the buffer holds what malloc has found.
\* Without the shim, or when it fails, the driver goes on without PipeWire.
StartBridge ==
  /\ main = "bridge"
  /\ main' = "iso"
  /\ \/ /\ pw' = TRUE
        /\ \E buf \in [Index -> Byte] : ring' = [buf |-> buf, head |-> 0, tail |-> 0]
     \/ UNCHANGED <<pw, ring>>
  /\ UNCHANGED <<side, delivered, engineVars, primed, stop, syncVars, gone, fails, broke>>

\* IsoAudio.start: opened, claimed, every transfer submitted, and the event
\* thread.  (An unplug before that is a failure of it.)
StartIso ==
  /\ main = "iso" /\ ~gone
  /\ main' = "run"
  /\ running' = TRUE
  /\ xfer' = [x \in Xfer |-> "flight"]
  /\ event' = "check"
  /\ UNCHANGED <<ringVars, cb, primed, stop, syncVars, gone, fails, broke>>

\* It raises somewhere on the way, with _running set or not and n transfers
\* submitted: main lets go of the engine, and nobody will reap, cancel or free
\* what is in flight.  The synchronous threads start instead.
StartSync ==
  /\ main = "iso"
  /\ main' = "run"
  /\ out' = "top" /\ inp' = "top"
  /\ \E n \in 0 .. NOut + NIn :
       /\ gone => n = 0
       /\ running' \in {TRUE, n > 0}
       /\ xfer' = [x \in Xfer |-> IF x =< n THEN "flight" ELSE "none"]
  /\ UNCHANGED <<ringVars, event, cb, primed, stop, errors, full, gone, fails, broke>>

---------------------------------------------------------------------------
(* IsoAudio: the event loop and the callbacks, on the event thread or in     *)
(* stop's drain.                                                             *)

Returned == {x \in Xfer : xfer[x] \in {"completed", "cancelled", "no_device"}}

\* handleEventsTimeout reaps a transfer: its callback is entered, and returns
\* at once when the engine is stopping or the transfer has not been through.
Reap(t) ==
  /\ \A u \in {Main, Event} : cb[u] = NoCallback
  /\ \E x \in Returned :
       /\ xfer' = [xfer EXCEPT ![x] = "idle"]
       /\ cb' = [cb EXCEPT ![t] = IF running /\ xfer[x] = "completed"
                                  THEN [pc |-> IF IsOut(x) THEN "prime" ELSE "write", x |-> x, i |-> 1]
                                  ELSE NoCallback]
  /\ UNCHANGED <<ringVars, main, running, event, primed, stop, syncVars, gone, fails, broke>>

\* _on_out waits for a cushion before it drains real audio.
CallbackPrimes(t) ==
  /\ cb[t].pc = "prime"
  /\ \E n \in 0 .. RingCap :
       /\ AvailIs(n)
       /\ primed' = (primed \/ (pw /\ n >= Prime))
  /\ cb' = [cb EXCEPT ![t].pc = "fill"]
  /\ UNCHANGED <<ringVars, main, running, event, xfer, stop, syncVars, gone, fails, broke>>

NextPacket(t) ==
  LET c == cb[t] IN
    cb' = [cb EXCEPT ![t] = IF c.i = PktsPerXfer THEN [c EXCEPT !.pc = "submit"]
                            ELSE [c EXCEPT !.i = c.i + 1]]

\* One packet of an OUT transfer, its PCM from the ring or silence.
CallbackFills(t) ==
  /\ cb[t].pc = "fill"
  /\ IF primed THEN \E n \in 0 .. Packet : ReadPlayback(n) ELSE UNCHANGED <<ring, delivered>>
  /\ NextPacket(t)
  /\ UNCHANGED <<side, pw, main, running, event, xfer, primed, stop, syncVars, gone, fails, broke>>

\* One packet of an IN transfer; those without audio are skipped.
CallbackWrites(t) ==
  /\ cb[t].pc = "write"
  /\ WriteCapture \/ UNCHANGED <<ring, delivered>>
  /\ NextPacket(t)
  /\ UNCHANGED <<side, pw, main, running, event, xfer, primed, stop, syncVars, gone, fails, broke>>

\* xfer.submit(), whose error is passed over.
CallbackSubmits(t) ==
  /\ cb[t].pc = "submit"
  /\ \/ ~gone /\ xfer' = [xfer EXCEPT ![cb[t].x] = "flight"] /\ UNCHANGED fails
     \/ gone /\ UNCHANGED <<xfer, fails>>
     \/ ~gone /\ fails < MaxFails /\ fails' = fails + 1 /\ UNCHANGED xfer
  /\ cb' = [cb EXCEPT ![t] = NoCallback]
  /\ UNCHANGED <<ringVars, main, running, event, primed, stop, syncVars, gone, broke>>

Callback(t) == CallbackPrimes(t) \/ CallbackFills(t) \/ CallbackWrites(t) \/ CallbackSubmits(t)

\* The top of _event_loop.
EventCheck ==
  /\ event = "check"
  /\ event' = IF running THEN "handle" ELSE "exited"
  /\ UNCHANGED <<ringVars, main, running, cb, xfer, primed, stop, syncVars, gone, fails, broke>>

EventReaps == event = "handle" /\ Reap(Event)

\* handleEventsTimeout returns: its timeout, an error, or after a callback.
EventReturns ==
  /\ event = "handle" /\ cb[Event] = NoCallback
  /\ event' = "check"
  /\ UNCHANGED <<ringVars, main, running, cb, xfer, primed, stop, syncVars, gone, fails, broke>>

---------------------------------------------------------------------------
(* stream_audio_out and monitor_audio. *)

\* Mutant of OutTop: a byte in the ring is enough.
OutTopAny ==
  /\ out = "top"
  /\ \/ /\ stop
        /\ out' = "exited"
        /\ UNCHANGED primed
     \/ /\ ~stop
        /\ \E n \in 0 .. RingCap :
             /\ AvailIs(n)
             /\ out' = IF primed /\ n > 0 THEN "read" ELSE "write"
             /\ primed' = (primed \/ (pw /\ n >= Prime))
  /\ UNCHANGED <<ringVars, main, engineVars, stop, errors, full, inp, gone, fails, broke>>

\* A packet is read when the ring holds one; the first time when it is primed.
OutTop ==
  /\ out = "top"
  /\ \/ /\ stop
        /\ out' = "exited"
        /\ UNCHANGED primed
     \/ /\ ~stop
        /\ \E n \in 0 .. RingCap :
             /\ AvailIs(n)
             /\ out' = IF primed /\ n >= Packet THEN "read" ELSE "write"
             /\ primed' = (primed \/ (pw /\ n >= Prime))
  /\ UNCHANGED <<ringVars, main, engineVars, stop, errors, full, inp, gone, fails, broke>>

\* The result of wpw_read_playback is not looked at.
OutReads ==
  /\ out = "read"
  /\ \E n \in 0 .. Packet :
       /\ ReadPlayback(n)
       /\ full' = (side = "play" => n = Packet)
  /\ out' = "write"
  /\ UNCHANGED <<side, pw, main, engineVars, primed, stop, errors, inp, gone, fails, broke>>

\* Mutant of OutWrites: the thread writes on whatever the errors.
OutWritesForever ==
  /\ out = "write"
  /\ \/ ~gone /\ out' = "top" /\ errors' = 0
     \/ stop /\ out' = "exited" /\ UNCHANGED errors
     \/ errors' = errors + 1 /\ out' = "top"
  /\ UNCHANGED <<ringVars, main, engineVars, primed, stop, full, inp, gone, fails, broke>>

\* A packet that times out stays pending for the next turn; one that fails is
\* dropped, and too many in a row end the thread.
OutWrites ==
  /\ out = "write"
  /\ \/ ~gone /\ out' = "top" /\ errors' = 0
     \/ stop /\ out' = "exited" /\ UNCHANGED errors
     \/ /\ errors' = errors + 1
        /\ out' = IF errors' > MaxErrors THEN "exited" ELSE "top"
  /\ UNCHANGED <<ringVars, main, engineVars, primed, stop, full, inp, gone, fails, broke>>

InTop ==
  /\ inp = "top"
  /\ inp' = IF stop THEN "exited" ELSE "read"
  /\ UNCHANGED <<ringVars, main, engineVars, primed, stop, out, errors, full, gone, fails, broke>>

\* A packet of the microphone, or none, or an error.
InReads ==
  /\ inp = "read"
  /\ inp' = "top"
  /\ \/ ~gone /\ WriteCapture
     \/ UNCHANGED <<ring, delivered>>
  /\ UNCHANGED <<side, pw, main, engineVars, primed, stop, out, errors, full, gone, fails, broke>>

---------------------------------------------------------------------------
(* main, from Ctrl+C on. *)

\* Ctrl+C; IsoAudio.stop, when the engine is up, sets _running first.
StopSignal ==
  /\ main = "run"
  /\ stop' = TRUE
  /\ running' = (running /\ event = "none")
  /\ main' = IF event = "none" THEN "join" ELSE "cancel"
  /\ UNCHANGED <<ringVars, event, cb, xfer, primed, syncVars, gone, fails, broke>>

\* Those submitted are cancelled, one after the other, while the event thread
\* is still at work.  (One step: at most one callback is past the test of
\* _running, and whether it resubmits before or after the loop is all that
\* differs.)
StopCancels ==
  /\ main = "cancel"
  /\ main' = "drain"
  /\ xfer' = [x \in Xfer |-> IF xfer[x] = "flight" THEN "cancelling" ELSE xfer[x]]
  /\ UNCHANGED <<ringVars, running, event, cb, primed, stop, syncVars, gone, fails, broke>>

\* handleEventsTimeout(0.05), when the event thread is not at it.
StopReaps == main = "drain" /\ Reap(Main)

\* Mutant of StopDrained: the first round is the last.
StopDrainedOnce ==
  /\ main = "drain" /\ cb[Main] = NoCallback
  /\ main' = "join_event"
  /\ UNCHANGED <<ringVars, engineVars, primed, stop, syncVars, gone, fails, broke>>

\* Nothing is submitted, or the deadline has come first.
StopDrained ==
  /\ main = "drain" /\ cb[Main] = NoCallback
  /\ Submitted = {} \/ CancelTime >= Limit
  /\ main' = "join_event"
  /\ UNCHANGED <<ringVars, engineVars, primed, stop, syncVars, gone, fails, broke>>

\* Handling events raises USBError: the drain is left.
StopBreaks ==
  /\ main = "drain" /\ cb[Main] = NoCallback /\ fails < MaxFails
  /\ main' = "join_event"
  /\ fails' = fails + 1 /\ broke' = TRUE
  /\ UNCHANGED <<ringVars, engineVars, primed, stop, syncVars, gone>>

\* join(timeout=1.0) of the event thread.
StopJoins ==
  /\ main = "join_event"
  /\ event = "exited" \/ EventTime >= Limit
  /\ main' = "clear"
  /\ UNCHANGED <<ringVars, engineVars, primed, stop, syncVars, gone, fails, broke>>

\* The views and the transfers are dropped, the interface released, handle
\* and context closed.
StopClears ==
  /\ main = "clear"
  /\ main' = "join"
  /\ xfer' = [x \in Xfer |-> "none"]
  /\ UNCHANGED <<ringVars, running, event, cb, primed, stop, syncVars, gone, fails, broke>>

\* join(timeout=1) of the synchronous threads.
JoinSync ==
  /\ main = "join"
  /\ (out \in {"none", "exited"} /\ inp \in {"none", "exited"}) \/ SyncTime >= Limit
  /\ main' = IF pw THEN "wpw_stop" ELSE "done"
  /\ UNCHANGED <<ringVars, engineVars, primed, stop, syncVars, gone, fails, broke>>

\* wpw_stop: the thread loop is stopped, which joins PipeWire's thread; the
\* streams and the rings go.
StopBridge ==
  /\ main = "wpw_stop"
  /\ main' = "done"
  /\ pw' = FALSE
  /\ ring' = Freed
  /\ UNCHANGED <<side, delivered, engineVars, primed, stop, syncVars, gone, fails, broke>>

---------------------------------------------------------------------------
(* The host controller and the device. *)

\* (Of an engine that was let go of it makes no difference: nobody reaps.)
Completes(x) ==
  /\ xfer[x] = "flight" /\ ~gone /\ event # "none"
  /\ xfer' = [xfer EXCEPT ![x] = "completed"]
  /\ UNCHANGED <<ringVars, main, running, event, cb, primed, stop, syncVars, gone, fails, broke>>

\* A transfer that is being cancelled may just have been through.
GivesBack(x) ==
  /\ xfer[x] = "cancelling"
  /\ \E s \in {"completed", "cancelled"} : xfer' = [xfer EXCEPT ![x] = s]
  /\ UNCHANGED <<ringVars, main, running, event, cb, primed, stop, syncVars, gone, fails, broke>>

Unplug ==
  /\ ~gone
  /\ gone' = TRUE
  /\ xfer' = [x \in Xfer |-> IF xfer[x] \in {"flight", "cancelling"} THEN "no_device" ELSE xfer[x]]
  /\ UNCHANGED <<ringVars, main, running, event, cb, primed, stop, syncVars, fails, broke>>

---------------------------------------------------------------------------
Next ==
  \/ ProcessPlayback \/ ProcessCapture
  \/ StartBridge \/ StartIso \/ StartSync
  \/ EventCheck \/ EventReaps \/ EventReturns
  \/ \E t \in {Main, Event} : Callback(t)
  \/ OutTop \/ OutReads \/ OutWrites \/ InTop \/ InReads
  \/ StopSignal \/ StopCancels \/ StopReaps \/ StopDrained \/ StopBreaks
  \/ StopJoins \/ StopClears \/ JoinSync \/ StopBridge
  \/ \E x \in Xfer : Completes(x) \/ GivesBack(x)
  \/ Unplug

Spec == Init /\ [][Next]_vars

---------------------------------------------------------------------------
TypeOK ==
  /\ side \in {"play", "capture"}
  /\ IF pw THEN ring \in [buf : [Index -> Byte], head : 0 .. CursorMod - 1, tail : 0 .. CursorMod - 1]
     ELSE ring = Freed
  /\ delivered \in Seq(Byte)
  /\ {pw, running, primed, stop, full, gone, broke} \subseteq BOOLEAN
  /\ main \in {"bridge", "iso", "run", "cancel", "drain", "join_event", "clear", "join", "wpw_stop",
               "done"}
  /\ event \in {"none", "check", "handle", "exited"}
  /\ cb \in [{Main, Event} -> [pc : {"none", "prime", "fill", "write", "submit"},
                               x : Xfer \cup {0}, i : 0 .. PktsPerXfer]]
  /\ xfer \in [Xfer -> {"none", "idle", "flight", "cancelling", "completed", "cancelled", "no_device"}]
  /\ out \in {"none", "top", "read", "write", "exited"}
  /\ errors \in 0 .. MaxErrors + 1
  /\ inp \in {"none", "top", "read", "exited"}
  /\ fails \in 0 .. MaxFails

\* "Drain the cancellations so no submitted transfer is freed underfoot"
\* (IsoAudio.stop): when the transfers and their buffers are dropped, none is
\* submitted or in its callback, although the event thread may be past the test
\* of _running when stop begins to cancel; and when the rings are freed nobody
\* is left who reads or writes them.  Only a failed call of libusb before, in
\* a callback or in the drain, lets the drain end too early (TimeAssumption).  (An engine whose
\* start has raised half way is never stopped: it keeps what it has submitted.)
NotFreedUnderfoot ==
  /\ main \in {"clear", "join", "wpw_stop", "done"} =>
       Submitted = {} \/ fails > 0 \/ event = "none"
  /\ main \in {"clear", "join", "wpw_stop", "done"} => \A t \in {Main, Event} : cb[t] = NoCallback
  /\ main = "done" => out \in {"none", "exited"} /\ inp \in {"none", "exited"}

\* stream_audio_out sends the whole packet buffer without looking at how much
\* the ring has put into it: between wpw_playback_avail and the read the ring,
\* though it drops its oldest bytes under the reader, never holds less.
ReadIsFull == full

\* The ring is a drop-oldest queue, whatever the threads do and wherever its
\* cursors are when they wrap.
Queue == INSTANCE DropOldestQueue WITH
  Capacity <- RingCap,
  contents <- IF pw THEN Contents(ring) ELSE <<>>
QueueSpec == Queue!Spec
===========================================================================
