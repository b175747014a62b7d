------------------------------ MODULE Capture ------------------------------
(***************************************************************************)
(* Capture: the isochronous IN completion callback (iso.rs on_in) pushes   *)
(* the microphone's PCM into a ring; the PipeWire source callback          *)
(* (audio.rs, second `process`) serves recorders from it, first dropping   *)
(* the oldest backlog.                                                     *)
(*                                                                         *)
(* The source callback runs only while some application records, the IN    *)
(* callback from bring-up on: with no recorder the ring fills and stays    *)
(* full.  A byte is represented by its lane in its 2-byte sample.          *)
(***************************************************************************)
EXTENDS Ring

CONSTANTS
  InSizes,      \* PCM bytes parse_in finds in one iso packet (0: none)
  CapLow,       \* bytes to keep, cap_low
  MaxBytes,     \* bytes of PipeWire's mapped buffer, slice.len()
  Requests      \* frames PipeWire may ask for (0: no hint)

Stride == 2     \* in_stride: one channel of i16

ASSUME CaptureAssumption ==
  /\ Capacity % Stride = 0
  /\ InSizes \subseteq Nat
  /\ \A n \in InSizes : n % Stride = 0
  /\ CapLow \in Nat /\ CapLow >= Stride
  /\ MaxBytes \in Nat
  /\ Requests \subseteq Nat

VARIABLES
  ring,      \* the capture ring: lanes, oldest first
  in,        \* on_in: [pc, size, n], a packet of size bytes, n of them fit
  src,       \* the source callback: [pc, want, had, take, lag], the last the
             \* history's probe.lag when the callback started
  served,    \* the buffer just handed to PipeWire: [want, had, got, lag, lost]
  probe      \* history: place of one accepted byte, the PCM bytes that have
             \* arrived after it, whether any of them was dropped

vars == <<ring, in, src, served, probe>>

Lane == 0 .. Stride - 1
Idle == "idle"
NotCalled == [pc |-> Idle, want |-> 0, had |-> 0, take |-> 0, lag |-> 0]
NoBuffer == [want |-> 0, had |-> 0, got |-> <<>>, lag |-> 0, lost |-> FALSE]
NoProbe == [at |-> 0, lag |-> 0, lost |-> FALSE]

Pcm(n) == [j \in 1 .. n |-> (j - 1) % Stride]

Init ==
  /\ ring = <<>>
  /\ in = [pc |-> Idle, size |-> 0, n |-> 0]
  /\ src = NotCalled
  /\ served = NoBuffer
  /\ probe = NoProbe

---------------------------------------------------------------------------
(* on_in, for one iso packet that carries PCM. *)

\* ring::write looks at the room left.
InPacket(size) ==
  /\ in.pc = Idle
  /\ in' = [pc |-> "push", size |-> size, n |-> Fits(ring, size)]
  /\ UNCHANGED <<ring, src, served, probe>>

\* What has arrived since the watched byte, up to LagCap.
LagCap == 2 * Capacity
Behind(p) ==
  [p EXCEPT !.lag = Smaller(@ + in.size, LagCap), !.lost = @ \/ in.n < in.size]

\* ring::write publishes what fitted; the rest of the packet is lost.
InCommit ==
  /\ in.pc = "push"
  /\ ring' = Pushed(ring, Pcm(in.n))
  /\ in' = [pc |-> Idle, size |-> 0, n |-> 0]
  /\ IF probe.at > 0
     THEN probe' = Behind(probe)
     ELSE probe' \in {probe} \cup
            (IF in.n > 0
             THEN {[at |-> Len(ring'), lag |-> in.size - in.n, lost |-> in.n < in.size]}
             ELSE {})
  /\ UNCHANGED <<src, served>>

---------------------------------------------------------------------------
(* The source callback, with a buffer of MaxBytes mapped bytes. *)

\* Mutant of Want: the mapped size is not rounded down to whole samples.
WantUnrounded(requested) ==
  IF requested > 0 THEN Smaller(requested * Stride, MaxBytes) ELSE MaxBytes

Want(requested) ==
  LET maxbytes == (MaxBytes \div Stride) * Stride
  IN  IF requested > 0 THEN Smaller(requested * Stride, maxbytes) ELSE maxbytes

\* Mutant of Low: the fixed target alone, whatever the read needs.
LowFixed(want) == CapLow

Low(want)  == Larger(CapLow, want)
High(want) == Larger(2 * CapLow, 2 * want)

\* Mutants of SourceTrim: it trims at every call; it never trims.
SourceTrimAlways(requested) ==
  /\ src.pc = Idle
  /\ src' = [pc |-> "skip", want |-> Want(requested), had |-> Avail(ring),
             take |-> Avail(ring) - Low(Want(requested)), lag |-> probe.lag]
  /\ served' = NoBuffer
  /\ UNCHANGED <<ring, in, probe>>
SourceTrimNever(requested) ==
  /\ src.pc = Idle
  /\ src' = [pc |-> "load", want |-> Want(requested), had |-> Avail(ring),
             take |-> 0, lag |-> probe.lag]
  /\ served' = NoBuffer
  /\ UNCHANGED <<ring, in, probe>>

\* Bound the backlog, but keep what this read needs.
SourceTrim(requested) ==
  /\ src.pc = Idle
  /\ LET want   == Want(requested)
         avail  == Avail(ring)
         excess == avail - Low(want)
         deep   == avail > High(want)
     IN  src' = [pc   |-> IF deep THEN "skip" ELSE "load",
                 want |-> want,
                 had  |-> avail,
                 take |-> IF deep THEN excess - (excess % Stride) ELSE 0,
                 lag  |-> probe.lag]
  /\ served' = NoBuffer
  /\ UNCHANGED <<ring, in, probe>>

Shifted(n) == IF probe.at > n THEN [probe EXCEPT !.at = @ - n] ELSE NoProbe

\* ring::skip.
SourceSkip ==
  /\ src.pc = "skip"
  /\ LET n == Takes(ring, src.take) IN
       /\ ring' = Rest(ring, n)
       /\ probe' = Shifted(n)
       /\ src' = [src EXCEPT !.pc = "load", !.take = 0,
                            !.lag = IF probe.at > n THEN @ ELSE 0]
  /\ UNCHANGED <<in, served>>

\* ring::read looks at what there is.
SourceLoad ==
  /\ src.pc = "load"
  /\ src' = [src EXCEPT !.pc = "pop", !.take = Takes(ring, src.want)]
  /\ UNCHANGED <<ring, in, served, probe>>

\* The buffer is complete: what was read, then silence up to want.
SourcePop ==
  /\ src.pc = "pop"
  /\ LET watched == probe.at \in 1 .. src.take IN
       served' = [want |-> src.want, had |-> src.had, got |-> Front(ring, src.take),
                  lag |-> IF watched THEN src.lag ELSE 0,
                  lost |-> watched /\ probe.lost]
  /\ ring' = Rest(ring, src.take)
  /\ probe' = Shifted(src.take)
  /\ src' = NotCalled
  /\ UNCHANGED in

Source == (\E r \in Requests : SourceTrim(r)) \/ SourceSkip \/ SourceLoad \/ SourcePop

Next ==
  \/ \E n \in InSizes : InPacket(n)
  \/ InCommit
  \/ Source

Spec == Init /\ [][Next]_vars

---------------------------------------------------------------------------
TypeOK ==
  /\ ring \in Seq(Lane)
  /\ in \in [pc : {Idle, "push"}, size : Nat, n : Nat]
  /\ src \in [pc : {Idle, "skip", "load", "pop"},
              want : Nat, had : Nat, take : Nat, lag : Nat]
  /\ served \in [want : Nat, had : Nat, got : Seq(Lane), lag : Nat, lost : BOOLEAN]
  /\ probe \in [at : Nat, lag : Nat, lost : BOOLEAN]

\* Neither end commits more than there is room for or takes more than there
\* is, although each decided on a view of the ring the other has changed.
RingSafe ==
  /\ Len(ring) + in.n =< Capacity
  /\ src.pc = "pop" => src.take =< Len(ring)

\* Every buffer a recorder gets starts on the low byte of a sample, whatever
\* was dropped by overflow, trim or underrun before it.
BufferAligned ==
  \A j \in 1 .. Len(served.got) : served.got[j] = (j - 1) % Stride

\* The latency bound never turns into silence: if the ring held what the read
\* needs when the callback started, the read is served in full (the "mic cut
\* off after the first syllable" regression of CONTEXT.md).
TrimNeverStarves == served.had >= served.want => Len(served.got) = served.want

\* A served byte is no older than the trim mark: at most High bytes of speech
\* had come in after it when the callback started.
ServedLagBounded == served.lag =< High(served.want)

\* The same where no packet was cut short by a full ring since that byte.
ServedFreshUnlessLost == served.lost \/ ServedLagBounded
===========================================================================
