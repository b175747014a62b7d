----------------------------- MODULE Playback -----------------------------
(***************************************************************************)
(* Playback: the PipeWire sink callback (audio.rs) writes PCM into a ring  *)
(* which the isochronous OUT completion callback (iso.rs on_out) drains    *)
(* into GIP audio packets.                                                 *)
(*                                                                         *)
(* The two callbacks run on two threads.  A byte of PCM is represented by  *)
(* its lane, its place in its 4-byte stereo frame (left low, left high,    *)
(* right low, right high): that is what the controller hears going wrong   *)
(* when a stream slips by part of a frame.                                 *)
(***************************************************************************)
EXTENDS Ring

CONSTANTS
  PcmBytes,      \* PCM bytes in one OUT packet, OUT_PCM_BYTES
  PrimeBytes,    \* ring depth to reach before draining, prime_bytes
  PktsPerXfer,   \* packets refilled by one completion, out_pkts_per_xfer
  SinkSizes,     \* sizes of the buffers PipeWire hands to the sink
  MaxSeq         \* largest GIP sequence number, 255

FrameBytes == 4

ASSUME PlaybackAssumption ==
  /\ Capacity % FrameBytes = 0
  /\ PcmBytes \in Nat \ {0} /\ PcmBytes % FrameBytes = 0
  /\ PrimeBytes \in Nat \ {0}
  /\ PktsPerXfer \in Nat \ {0}
  /\ SinkSizes \subseteq Nat
  /\ \A n \in SinkSizes : n % FrameBytes = 0
  /\ MaxSeq \in Nat \ {0}

VARIABLES
  ring,      \* the playback ring: lanes, oldest first
  sink,      \* the sink callback: [pc, n], n bytes to commit
  out,       \* on_out: [pc, i, take, trimmed]
  primed,    \* EngineState.primed
  outSeq,    \* EngineState.out_seq
  frame,     \* the packet built last: [seq, pcm], padded with silence
  probe      \* history: place in the ring and age of one accepted byte

vars == <<ring, sink, out, primed, outSeq, frame, probe>>

Lane == 0 .. FrameBytes - 1
Idle == "idle"

\* The PCM of one buffer: whole frames, from the first lane on.
Pcm(n) == [j \in 1 .. n |-> (j - 1) % FrameBytes]

Init ==
  /\ ring = <<>>
  /\ sink = [pc |-> Idle, n |-> 0]
  /\ out = [pc |-> Idle, i |-> 0, take |-> 0, trimmed |-> FALSE]
  /\ primed = FALSE
  /\ outSeq = 1
  /\ frame = [seq |-> 0, pcm |-> <<>>]
  /\ probe = [at |-> 0, age |-> 0]

---------------------------------------------------------------------------
(* The sink callback. *)

\* `process` got a buffer of n bytes and ring::write looked at the room left.
SinkProcess(n) ==
  /\ sink.pc = Idle
  /\ sink' = [pc |-> "push", n |-> Fits(ring, n)]
  /\ UNCHANGED <<ring, out, primed, outSeq, frame, probe>>

\* ring::write publishes what fitted.  The history either keeps watching the
\* byte it watched or starts on the newest byte of this buffer.
SinkCommit ==
  /\ sink.pc = "push"
  /\ ring' = Pushed(ring, Pcm(sink.n))
  /\ sink' = [pc |-> Idle, n |-> 0]
  /\ probe' \in {probe} \cup
       (IF probe.at = 0 /\ sink.n > 0 THEN {[at |-> Len(ring'), age |-> 0]} ELSE {})
  /\ UNCHANGED <<out, primed, outSeq, frame>>

---------------------------------------------------------------------------
(* on_out, from the point where its early returns have been passed. *)

\* Depth above which the ring is trimmed.
High == PrimeBytes + Larger(PrimeBytes, PcmBytes)

\* A byte watched at place p is at p - n once n older ones are gone.
Shifted(n) ==
  IF probe.at > n THEN [probe EXCEPT !.at = @ - n] ELSE [at |-> 0, age |-> 0]

\* The cushion is there: start draining.  primed is never cleared.
OutPrime ==
  /\ out.pc = Idle
  /\ primed' = (primed \/ Avail(ring) >= PrimeBytes)
  /\ out' = [pc |-> "trim", i |-> 0, take |-> 0, trimmed |-> FALSE]
  /\ probe' = IF primed' /\ probe.at > 0 THEN [probe EXCEPT !.age = @ + 1] ELSE probe
  /\ UNCHANGED <<ring, sink, outSeq, frame>>

\* Mutants of Excess: the trim empties the ring; it drops one packet's worth.
ExcessAll(avail) == avail
ExcessOnePacket(avail) == PcmBytes

\* What the trim removes: down to the prime depth, in whole frames.
Excess(avail) == LET over == avail - PrimeBytes IN over - (over % FrameBytes)

\* Too deep: decide how much of the oldest audio to drop.
OutTrim ==
  /\ out.pc = "trim"
  /\ out' = IF primed /\ Avail(ring) > High
            THEN [out EXCEPT !.pc = "skip", !.take = Excess(Avail(ring))]
            ELSE [out EXCEPT !.pc = "load"]
  /\ UNCHANGED <<ring, sink, primed, outSeq, frame, probe>>

\* ring::skip.
OutSkip ==
  /\ out.pc = "skip"
  /\ LET n == Takes(ring, out.take) IN
       /\ ring' = Rest(ring, n)
       /\ probe' = Shifted(n)
  /\ out' = [out EXCEPT !.pc = "load", !.take = 0, !.trimmed = TRUE]
  /\ UNCHANGED <<sink, primed, outSeq, frame>>

\* Mutant of OutLoad: it drains without waiting for the cushion.
OutLoadUnprimed ==
  /\ out.pc = "load"
  /\ out' = [out EXCEPT !.pc = "pop", !.take = Takes(ring, PcmBytes)]
  /\ UNCHANGED <<ring, sink, primed, outSeq, frame, probe>>

\* ring::read looks at what there is for the next packet.
OutLoad ==
  /\ out.pc = "load"
  /\ out' = [out EXCEPT !.pc = "pop",
                        !.take = IF primed THEN Takes(ring, PcmBytes) ELSE 0]
  /\ UNCHANGED <<ring, sink, primed, outSeq, frame, probe>>

\* Mutants of NextSeq: no wrap; a wrap through 0.
NextSeqUnbounded(s) == s + 1
NextSeqZero(s) == (s + 1) % (MaxSeq + 1)

\* The sequence number after s: 1 .. MaxSeq, never 0.
NextSeq(s) == IF s < MaxSeq THEN s + 1 ELSE 1

\* The packet is complete: next sequence number, PCM and then silence up to
\* PcmBytes.  After the last packet the transfer is resubmitted.
OutPop ==
  /\ out.pc = "pop"
  /\ frame' = [seq |-> outSeq, pcm |-> Front(ring, out.take)]
  /\ ring' = Rest(ring, out.take)
  /\ probe' = Shifted(out.take)
  /\ outSeq' = NextSeq(outSeq)
  /\ out' = [out EXCEPT !.pc = IF out.i + 1 < PktsPerXfer THEN "load" ELSE Idle,
                        !.i = @ + 1, !.take = 0]
  /\ UNCHANGED <<sink, primed>>

OnOut == OutPrime \/ OutTrim \/ OutSkip \/ OutLoad \/ OutPop

Next ==
  \/ \E n \in SinkSizes : SinkProcess(n)
  \/ SinkCommit
  \/ OnOut

Spec == Init /\ [][Next]_vars

\* A stream is playing (PipeWire keeps calling the sink with audio, an empty
\* buffer now and then notwithstanding) and the host controller keeps
\* completing transfers.
Fairness ==
  /\ SF_vars(\E n \in SinkSizes \ {0} : SinkProcess(n))
  /\ WF_vars(SinkCommit)
  /\ WF_vars(OnOut)

LiveSpec == Spec /\ Fairness

---------------------------------------------------------------------------
TypeOK ==
  /\ ring \in Seq(Lane)
  /\ sink \in [pc : {Idle, "push"}, n : Nat]
  /\ out \in [pc : {Idle, "trim", "skip", "load", "pop"},
              i : 0 .. PktsPerXfer, take : Nat, trimmed : BOOLEAN]
  /\ primed \in BOOLEAN
  /\ outSeq \in 1 .. MaxSeq
  /\ frame \in [seq : 0 .. MaxSeq, pcm : Seq(Lane)]
  /\ probe \in [at : Nat, age : Nat]

\* What both threads rely on: neither end ever commits more than there is
\* room for, or takes more than there is, although each decided on a view
\* of the ring that the other has since changed.
RingSafe ==
  /\ Len(ring) + sink.n =< Capacity
  /\ out.pc = "pop" => out.take =< Len(ring)

\* Every packet starts on the left channel's low byte and runs on from
\* there: no overflow, trim or underrun ever shifts the stream by part of a
\* stereo frame (the buzz on the left channel of CONTEXT.md).
PacketAligned ==
  \A j \in 1 .. Len(frame.pcm) : frame.pcm[j] = (j - 1) % FrameBytes

\* The trim that bounds latency does not itself cause silence: a completion
\* that trimmed fills all its packets, if a prime's worth covers them.
TrimNeverStarves ==
  (out.trimmed /\ out.i > 0 /\ PktsPerXfer * PcmBytes =< PrimeBytes)
     => Len(frame.pcm) = PcmBytes

\* Latency is bounded however fast PipeWire's clock runs against the bus:
\* once primed, an accepted byte is out of the ring (played or trimmed) after
\* at most the completions it takes to play High bytes, not the Capacity.
PerXfer == PktsPerXfer * PcmBytes
MaxAge == (High + PerXfer - 1) \div PerXfer
LatencyBounded == out.pc = Idle => probe.age < MaxAge \/ probe.at = 0

\* GIP sequence numbers of the packets follow each other, wrap from MaxSeq to
\* 1 and are never 0.
SeqFollows ==
  [][frame'.seq # frame.seq =>
       /\ frame'.seq # 0
       /\ frame'.seq = (frame.seq % MaxSeq) + 1]_vars

\* While audio is being played into the sink, draining starts.
EventuallyPrimed == <>primed
===========================================================================
