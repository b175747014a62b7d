--------------------------- MODULE IsoTransfers ---------------------------
(***************************************************************************)
(* The life of the isochronous transfers of rust/src/iso.rs: start         *)
(* allocates and submits them, the libusb event thread runs their          *)
(* completion callbacks, which refill and resubmit them, and stop cancels, *)
(* drains and frees them.                                                  *)
(*                                                                         *)
(* Three parties act: the main thread (start, stop), the event thread, and *)
(* the host controller with the device behind it, which completes the      *)
(* transfers of an endpoint in the order they were submitted, and may lose *)
(* the device at any time.  What a callback does with the audio is in      *)
(* Playback and Capture; here a refilled OUT transfer is known by the GIP  *)
(* sequence number of its first packet.                                    *)
(***************************************************************************)
EXTENDS Naturals, SequencesExt

CONSTANTS
  NOut, NIn,       \* OUT and IN transfers: out_num_xfers, IN_NUM_XFERS
  PktsPerXfer,     \* packets in an OUT transfer, out_pkts_per_xfer
  MaxSeq,          \* largest GIP sequence number, 255
  DrainTicks,      \* length of stop's drain in handle_events timeouts, 1 s / 50 ms
  CancelTicks,     \* the longest a cancelled transfer takes to come back
  MaxFails         \* bound: submissions that fail though the device is there

ASSUME IsoAssumption ==
  /\ NOut \in Nat /\ NIn \in Nat
  /\ PktsPerXfer \in Nat \ {0} /\ MaxSeq \in Nat \ {0}
  /\ DrainTicks \in Nat /\ CancelTicks \in Nat /\ MaxFails \in Nat

\* A cancelled transfer is back, and its callback run, before the drain ends.
ASSUME DrainAssumption == CancelTicks < DrainTicks

VARIABLES
  main,        \* where the main thread is in start and stop
  thread,      \* the event thread: "none", "check", "handle", "exited"
  cb,          \* per thread, the callback it is in: [pc, x, status]
  running,     \* EngineState.running
  outSeq,      \* EngineState.out_seq
  made,        \* transfers start has allocated so far
  live,        \* transfers allocated and not freed
  bufs,        \* transfers whose buffer is allocated
  engine,      \* the boxed EngineState: "none", "live", "freed"
  claimed,     \* interface 1 is claimed on the open handle
  seq,         \* per OUT transfer, its first packet's number; 0: no header
  queue,       \* per endpoint, the transfers in flight, first submitted first
  reaped,      \* completions waiting for their callback: [x, status]
  cancelled,   \* in flight, with a cancel pending
  gone,        \* the device has been unplugged
  fails,       \* submissions that have failed
  sent,        \* first sequence number of the OUT transfer sent last
  clock        \* ticks of the drain that have passed

mainVars   == <<main, made, live, bufs, engine, claimed>>
engineVars == <<running, outSeq, seq>>
hostVars   == <<queue, reaped, cancelled, gone, fails, sent>>
vars == <<mainVars, engineVars, hostVars, thread, cb, clock>>

Xfer == 1 .. NOut + NIn
Ep(x) == IF x =< NOut THEN "out" ELSE "in"
Main == "main"
Event == "event"
NoCallback == [pc |-> "none", x |-> 0, status |-> "none"]

InFlight == ToSet(queue["out"]) \cup ToSet(queue["in"])

\* Mutants of Advanced: no wrap; a wrap that counts from 0.
AdvancedUnbounded(s) == s + PktsPerXfer
AdvancedFromZero(s) == ((s + PktsPerXfer) % MaxSeq) + 1

\* outSeq after the packets of one more transfer.
Advanced(s) == ((s - 1 + PktsPerXfer) % MaxSeq) + 1

Init ==
  /\ main = "open" /\ made = 0 /\ live = {} /\ bufs = {}
  /\ engine = "none" /\ claimed = FALSE
  /\ running = TRUE /\ outSeq = 1
  /\ seq = [x \in Xfer |-> 0]
  /\ queue = [e \in {"out", "in"} |-> <<>>]
  /\ reaped = <<>> /\ cancelled = {} /\ gone = FALSE /\ fails = 0 /\ sent = 0
  /\ thread = "none"
  /\ cb = [t \in {Main, Event} |-> NoCallback]
  /\ clock = 0

\* libusb_submit_transfer; nobody looks at its result.
Submit(x) ==
  \/ /\ ~gone
     /\ queue' = [queue EXCEPT ![Ep(x)] = Append(@, x)]
     /\ UNCHANGED fails
  \/ /\ gone
     /\ UNCHANGED <<queue, fails>>
  \/ /\ ~gone /\ fails < MaxFails
     /\ fails' = fails + 1
     /\ UNCHANGED queue

---------------------------------------------------------------------------
(* start. *)

\* Interface 1 is opened and claimed on a handle of its own; the engine is
\* boxed with the ring ends.
StartOpen ==
  /\ main = "open" /\ ~gone
  /\ main' = "start"
  /\ claimed' = TRUE
  /\ engine' = "live"
  /\ UNCHANGED <<made, live, bufs, engineVars, hostVars, thread, cb, clock>>

\* libusb_init, the open or the claim fails: what was opened is closed again.
StartRefused ==
  /\ main = "open"
  /\ main' = "refused"
  /\ UNCHANGED <<made, live, bufs, engine, claimed, engineVars, hostVars, thread, cb, clock>>

\* One transfer allocated, zero-filled, and submitted: OUT first, then IN.
StartXfer ==
  /\ main = "start" /\ made < NOut + NIn
  /\ made' = made + 1
  /\ live' = live \cup {made'}
  /\ bufs' = bufs \cup {made'}
  /\ Submit(made')
  /\ UNCHANGED <<main, engine, claimed, engineVars, reaped, cancelled, gone, sent, thread, cb, clock>>

\* The event thread is spawned.
StartThread ==
  /\ main = "start" /\ made = NOut + NIn
  /\ main' = "up"
  /\ thread' = "check"
  /\ UNCHANGED <<made, live, bufs, engine, claimed, engineVars, hostVars, cb, clock>>

\* libusb_alloc_transfer or the spawn fails: start returns the error, which
\* drops the buffers allocated so far, in flight or not, and leaks the rest.
StartFails ==
  /\ main = "start"
  /\ main' = "failed"
  /\ bufs' = {}
  /\ UNCHANGED <<made, live, engine, claimed, engineVars, hostVars, thread, cb, clock>>

---------------------------------------------------------------------------
(* libusb_handle_events_timeout, on the event thread or in stop's drain. *)

Handle(t) ==
  /\ cb[t] = NoCallback
  /\ reaped # <<>>
  /\ cb' = [cb EXCEPT ![t] = [pc     |-> "enter",
                              x      |-> Head(reaped).x,
                              status |-> Head(reaped).status]]
  /\ reaped' = Tail(reaped)
  /\ UNCHANGED <<mainVars, engineVars, queue, cancelled, gone, fails, sent, thread, clock>>

\* Mutant of Enter: resubmit first, fill afterwards.
EnterSubmits(t) ==
  /\ cb[t].pc = "enter"
  /\ IF running /\ cb[t].status = "completed"
     THEN /\ Submit(cb[t].x)
          /\ cb' = [cb EXCEPT ![t].pc = "submit"]
     ELSE /\ cb' = [cb EXCEPT ![t] = NoCallback]
          /\ UNCHANGED <<queue, fails>>
  /\ UNCHANGED <<mainVars, engineVars, reaped, cancelled, gone, sent, thread, clock>>

\* on_out, on_in: their early returns.
Enter(t) ==
  /\ cb[t].pc = "enter"
  /\ cb' = [cb EXCEPT ![t] = IF running /\ cb[t].status = "completed"
                             THEN [@ EXCEPT !.pc = "submit"] ELSE NoCallback]
  /\ UNCHANGED <<mainVars, engineVars, hostVars, thread, clock>>

\* Mutant of Resubmit: the IN callback forgets to resubmit.
ResubmitOutOnly(t) ==
  /\ cb[t].pc = "submit"
  /\ LET x == cb[t].x IN
       IF Ep(x) = "out"
       THEN Submit(x) /\ seq' = [seq EXCEPT ![x] = outSeq] /\ outSeq' = Advanced(outSeq)
       ELSE UNCHANGED <<queue, fails, seq, outSeq>>
  /\ cb' = [cb EXCEPT ![t] = NoCallback]
  /\ UNCHANGED <<mainVars, running, reaped, cancelled, gone, sent, thread, clock>>

\* The packets of an OUT transfer are numbered and filled; resubmit.
Resubmit(t) ==
  /\ cb[t].pc = "submit"
  /\ LET x == cb[t].x IN
       /\ Submit(x)
       /\ IF Ep(x) = "out"
          THEN seq' = [seq EXCEPT ![x] = outSeq] /\ outSeq' = Advanced(outSeq)
          ELSE UNCHANGED <<seq, outSeq>>
  /\ cb' = [cb EXCEPT ![t] = NoCallback]
  /\ UNCHANGED <<mainVars, running, reaped, cancelled, gone, sent, thread, clock>>

---------------------------------------------------------------------------
(* event_loop. *)

\* Mutant of Check: the loop does not look at running.
CheckForever ==
  /\ thread = "check"
  /\ thread' = "handle"
  /\ UNCHANGED <<mainVars, engineVars, hostVars, cb, clock>>

\* The top of the loop.
Check ==
  /\ thread = "check"
  /\ thread' = IF running THEN "handle" ELSE "exited"
  /\ UNCHANGED <<mainVars, engineVars, hostVars, cb, clock>>

\* libusb returns when no completion is waiting, or its timeout passes.
HandleReturns ==
  /\ thread = "handle" /\ cb[Event] = NoCallback /\ reaped = <<>>
  /\ thread' = "check"
  /\ UNCHANGED <<mainVars, engineVars, hostVars, cb, clock>>

EventHandle == thread = "handle" /\ Handle(Event)

EventLoop == Check \/ HandleReturns \/ EventHandle \/ Enter(Event) \/ Resubmit(Event)

---------------------------------------------------------------------------
(* stop, and the drop of IsoAudio after it. *)

StopSignal ==
  /\ main = "up"
  /\ main' = "join"
  /\ running' = FALSE
  /\ UNCHANGED <<made, live, bufs, engine, claimed, outSeq, seq, hostVars, thread, cb, clock>>

\* Mutant of StopJoin: the thread is not waited for.
StopJoinNot ==
  /\ main = "join"
  /\ main' = "cancel"
  /\ UNCHANGED <<made, live, bufs, engine, claimed, engineVars, hostVars, thread, cb, clock>>

StopJoin ==
  /\ main = "join" /\ thread = "exited"
  /\ main' = "cancel"
  /\ UNCHANGED <<made, live, bufs, engine, claimed, engineVars, hostVars, thread, cb, clock>>

\* Mutant of StopCancel: nothing is cancelled.
StopCancelNone ==
  /\ main = "cancel"
  /\ main' = "drain"
  /\ cancelled' = {}
  /\ clock' = 0
  /\ UNCHANGED <<made, live, bufs, engine, claimed, engineVars, queue, reaped, gone, fails,
                 sent, thread, cb>>

\* libusb_cancel_transfer on each; it refuses those not in flight.
StopCancel ==
  /\ main = "cancel"
  /\ main' = "drain"
  /\ cancelled' = live \cap InFlight
  /\ clock' = 0
  /\ UNCHANGED <<made, live, bufs, engine, claimed, engineVars, queue, reaped, gone, fails, sent,
                 thread, cb>>

\* One round of the drain, on the main thread.
StopDrain == main = "drain" /\ Handle(Main)

\* A twentieth of the drain's second.  Callbacks that are due take no time,
\* and a cancelled transfer is back within CancelTicks.
DrainTick ==
  /\ main = "drain" /\ clock < DrainTicks
  /\ reaped = <<>> /\ cb[Main] = NoCallback
  /\ clock >= CancelTicks => cancelled = {}
  /\ clock' = clock + 1
  /\ UNCHANGED <<mainVars, engineVars, hostVars, thread, cb>>

\* The deadline: libusb_free_transfer on each.
StopFree ==
  /\ main = "drain" /\ clock = DrainTicks /\ cb[Main] = NoCallback
  /\ main' = "release"
  /\ live' = {}
  /\ UNCHANGED <<made, bufs, engine, claimed, engineVars, hostVars, thread, cb, clock>>

\* Release the interface, close the handle (the kernel discards what is still
\* in flight), reclaim the engine; then the drop of the buffers.
StopRelease ==
  /\ main = "release"
  /\ main' = "stopped"
  /\ queue' = [e \in {"out", "in"} |-> <<>>]
  /\ reaped' = <<>> /\ cancelled' = {}
  /\ engine' = "freed"
  /\ claimed' = FALSE
  /\ bufs' = {}
  /\ UNCHANGED <<made, live, engineVars, gone, fails, sent, thread, cb, clock>>

Stop ==
  \/ StopJoin \/ StopCancel \/ StopDrain \/ StopFree \/ StopRelease
  \/ Enter(Main) \/ Resubmit(Main)

---------------------------------------------------------------------------
(* The host controller and the device. *)

\* The transfer submitted first on an endpoint is done.
Complete(e) ==
  /\ ~gone /\ queue[e] # <<>>
  /\ Head(queue[e]) \notin cancelled
  /\ reaped' = Append(reaped, [x |-> Head(queue[e]), status |-> "completed"])
  /\ queue' = [queue EXCEPT ![e] = Tail(@)]
  /\ sent' = IF e = "out" THEN seq[Head(queue[e])] ELSE sent
  /\ UNCHANGED <<mainVars, engineVars, cancelled, gone, fails, thread, cb, clock>>

\* A cancelled transfer comes back.
GiveBack(x) ==
  /\ x \in cancelled
  /\ cancelled' = cancelled \ {x}
  /\ \E i \in DOMAIN queue[Ep(x)] :
       /\ queue[Ep(x)][i] = x
       /\ queue' = [queue EXCEPT ![Ep(x)] = RemoveAt(@, i)]
  /\ reaped' = Append(reaped, [x |-> x, status |-> "cancelled"])
  /\ UNCHANGED <<mainVars, engineVars, gone, fails, sent, thread, cb, clock>>

\* Unplugged: everything in flight comes back, nothing can be submitted.
Unplug ==
  /\ ~gone
  /\ gone' = TRUE
  /\ LET flight == queue["out"] \o queue["in"] IN
       reaped' = reaped \o [i \in 1 .. Len(flight) |-> [x |-> flight[i], status |-> "no_device"]]
  /\ queue' = [e \in {"out", "in"} |-> <<>>]
  /\ cancelled' = {}
  /\ UNCHANGED <<mainVars, engineVars, fails, sent, thread, cb, clock>>

Host == (\E e \in {"out", "in"} : Complete(e)) \/ (\E x \in Xfer : GiveBack(x)) \/ Unplug

---------------------------------------------------------------------------
Next ==
  \/ StartOpen \/ StartRefused \/ StartXfer \/ StartThread \/ StartFails
  \/ Check \/ HandleReturns \/ EventHandle
  \/ \E t \in {Main, Event} : Enter(t) \/ Resubmit(t)
  \/ StopSignal \/ StopJoin \/ StopCancel \/ StopDrain \/ StopFree \/ StopRelease
  \/ DrainTick
  \/ Host

Spec == Init /\ [][Next]_vars

\* The scheduler runs both threads, the host controller serves each endpoint
\* and gives back what was cancelled, and time passes.  Nothing obliges the
\* program to stop, start to succeed or the device to be unplugged.
Fairness ==
  /\ WF_vars(EventLoop)
  /\ WF_vars(Stop)
  /\ WF_vars(DrainTick)
  /\ \A e \in {"out", "in"} : WF_vars(Complete(e))
  /\ \A x \in Xfer : WF_vars(GiveBack(x))

LiveSpec == Spec /\ Fairness

---------------------------------------------------------------------------
TypeOK ==
  /\ main \in {"open", "refused", "start", "up", "failed", "join", "cancel", "drain", "release", "stopped"}
  /\ thread \in {"none", "check", "handle", "exited"}
  /\ cb \in [{Main, Event} -> [pc : {"none", "enter", "submit"}, x : Xfer \cup {0},
                               status : {"none", "completed", "cancelled", "no_device"}]]
  /\ running \in BOOLEAN
  /\ outSeq \in 1 .. MaxSeq
  /\ made \in 0 .. NOut + NIn
  /\ live \subseteq Xfer
  /\ bufs \subseteq Xfer
  /\ engine \in {"none", "live", "freed"}
  /\ claimed \in BOOLEAN
  /\ seq \in [Xfer -> 0 .. MaxSeq]
  /\ queue \in [{"out", "in"} -> Seq(Xfer)]
  /\ reaped \in Seq([x : Xfer, status : {"completed", "cancelled", "no_device"}])
  /\ cancelled \subseteq Xfer
  /\ gone \in BOOLEAN
  /\ fails \in 0 .. MaxFails
  /\ sent \in 0 .. MaxSeq
  /\ clock \in 0 .. DrainTicks

\* The transfers libusb or a callback still holds.
Waiting == {reaped[i].x : i \in DOMAIN reaped}
InCallback == {cb[t].x : t \in {Main, Event}} \ {0}

\* "Drain cancellations so no submitted transfer is freed underfoot" (stop):
\* whatever is in flight, awaits its callback or is in it, is allocated together
\* with its buffer, and a callback finds its engine.  Only a start that fails half
\* way drops the buffers of what it has submitted, and no callback runs after it.
NotFreedUnderfoot ==
  /\ InFlight \cup Waiting \cup InCallback \subseteq live
  /\ main # "failed" => InFlight \cup Waiting \cup InCallback \subseteq bufs
  /\ InFlight # {} => claimed
  /\ InCallback # {} => engine = "live" /\ main # "failed"

\* The &mut EngineState of the callbacks is exclusive: while the main thread
\* runs callbacks in stop's drain, the event thread touches nothing.
EngineNotShared ==
  /\ cb[Main] = NoCallback \/ cb[Event] = NoCallback
  /\ cb[Main] # NoCallback => thread = "exited"

\* No transfer is ever in two places: submitted twice, or submitted while its
\* callback is still filling it.
InOnePlace ==
  \A x \in Xfer :
    Cardinality({i \in DOMAIN queue[Ep(x)] : queue[Ep(x)][i] = x})
      + Cardinality({i \in DOMAIN reaped : reaped[i].x = x})
      + Cardinality({t \in {Main, Event} : cb[t].x = x}) =< 1

\* The packets go out in the order of their GIP sequence numbers without a
\* gap, although several transfers are refilled and queued at once; transfers
\* not yet numbered come first.  (A submission that fails takes its numbers
\* with it.)
Follows(s, r) ==
  IF s = 0 THEN r \in {0, 1}
  ELSE r \in 1 .. MaxSeq /\ (r + MaxSeq - s) % MaxSeq = PktsPerXfer % MaxSeq
OnWire == <<sent>> \o [i \in DOMAIN queue["out"] |-> seq[queue["out"][i]]]
WireInOrder ==
  (fails = 0 /\ cancelled = {} /\ ~gone) =>
    \A i \in 1 .. Len(OnWire) - 1 : Follows(OnWire[i], OnWire[i + 1])

\* "We keep N transfers permanently in flight": one that has completed is in
\* flight again sooner or later, until stop or an unplug.
KeptInFlight ==
  \A x \in Xfer :
    (main = "up" /\ x \notin InFlight) ~> (x \in InFlight \/ ~running \/ gone)

\* The same of a host whose submissions succeed while the device is there.
KeptInFlightUnlessRefused ==
  \A x \in Xfer :
    (main = "up" /\ x \notin InFlight) ~> (x \in InFlight \/ ~running \/ gone \/ fails > 0)

\* stop comes to its end, the device there or not.
StopCompletes == (main = "join") ~> (main = "stopped")
===========================================================================
