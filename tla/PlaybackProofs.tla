-------------------------- MODULE PlaybackProofs --------------------------
(***************************************************************************)
(* Proofs about Playback for every ring capacity, packet size, prime       *)
(* depth, buffer size and interleaving of the two callbacks.               *)
(*                                                                         *)
(* None of RingSafe, PacketAligned and TrimNeverStarves is inductive: that *)
(* a packet starts on a frame rests on the ring holding whole frames and   *)
(* on every amount either callback has decided on, and not yet committed,  *)
(* being whole frames too.  IInv adds that.                                *)
(***************************************************************************)
EXTENDS Playback, RingProofs

\* The ring starts on a frame and holds whole frames; so does every amount a
\* callback is about to push, skip or take.
WholeInv ==
  /\ Len(ring) % 4 = 0
  /\ Phased(ring, 4)
  /\ sink.n % 4 = 0
  /\ out.take % 4 = 0

\* Where on_out is in its transfer.
ProgressInv ==
  /\ out.pc # Idle => out.i < PktsPerXfer
  /\ out.pc \in {"trim", "skip"} => out.i = 0 /\ ~out.trimmed
  /\ out.pc = "skip" => primed /\ Len(ring) - out.take >= PrimeBytes

IInv == TypeOK /\ RingSafe /\ PacketAligned /\ WholeInv /\ ProgressInv

USE DEF Idle, FrameBytes

LEMMA PcmFacts ==
  ASSUME NEW n \in Nat
  PROVE  Pcm(n) \in Seq(Lane) /\ Len(Pcm(n)) = n /\ Phased(Pcm(n), 4)
BY DEF Pcm, Phased, Lane

LEMMA InitInv == Init => IInv
<1> SUFFICES ASSUME Init
             PROVE  IInv
  OBVIOUS
<1>1. TypeOK
  <2>1. /\ PktsPerXfer \in Nat /\ MaxSeq \in Nat
        /\ 0 \in 0 .. PktsPerXfer /\ 1 \in 1 .. MaxSeq /\ 0 \in 0 .. MaxSeq
    BY PlaybackAssumption
  <2>2. <<>> \in Seq(Lane)
    OBVIOUS
  <2> QED  BY <2>1, <2>2 DEF Init, TypeOK
<1>2. RingSafe /\ PacketAligned
  BY CapacityAssumption DEF Init, RingSafe, PacketAligned
<1>3. Len(ring) % 4 = 0 /\ sink.n % 4 = 0 /\ out.take % 4 = 0
  BY DEF Init
<1>4. WholeInv /\ ProgressInv
  BY <1>3 DEF Init, WholeInv, ProgressInv, Phased
<1> QED  BY <1>1, <1>2, <1>4 DEF IInv

\* What IInv says of the amounts, with their types.
LEMMA Amounts ==
  ASSUME IInv
  PROVE  /\ ring \in Seq(Lane) /\ Len(ring) \in Nat /\ Len(ring) % 4 = 0 /\ Phased(ring, 4)
         /\ sink.n \in Nat /\ sink.n % 4 = 0
         /\ out.take \in Nat /\ out.take % 4 = 0
         /\ Capacity \in Nat /\ Capacity % 4 = 0 /\ Len(ring) + sink.n =< Capacity
         /\ PcmBytes \in Nat /\ PcmBytes % 4 = 0 /\ PcmBytes > 0
         /\ PrimeBytes \in Nat /\ PrimeBytes > 0
<1>1. ring \in Seq(Lane) /\ sink.n \in Nat /\ out.take \in Nat
  BY DEF IInv, TypeOK
<1>2. Len(ring) \in Nat
  BY <1>1
<1>3. Capacity \in Nat /\ Capacity % 4 = 0 /\ PcmBytes \in Nat /\ PcmBytes % 4 = 0
      /\ PcmBytes > 0 /\ PrimeBytes \in Nat /\ PrimeBytes > 0
  BY CapacityAssumption, PlaybackAssumption
<1> QED  BY <1>1, <1>2, <1>3 DEF IInv, WholeInv, RingSafe

\* Each action in turn.
LEMMA SinkProcessInv ==
  ASSUME IInv, NEW n \in SinkSizes, SinkProcess(n)
  PROVE  IInv'
<1>0. n \in Nat /\ n % 4 = 0
  BY PlaybackAssumption
<1>a. Capacity - Len(ring) \in Nat /\ (Capacity - Len(ring)) % 4 = 0
  BY Amounts
<1>1. /\ Fits(ring, n) \in Nat
      /\ Len(ring) + Fits(ring, n) =< Capacity
      /\ Fits(ring, n) % 4 = 0
  BY <1>0, <1>a, Amounts DEF Fits, Smaller
<1>2. TypeOK'
  BY <1>1 DEF IInv, TypeOK, SinkProcess
<1>3. RingSafe' /\ PacketAligned'
  BY <1>1 DEF IInv, TypeOK, RingSafe, PacketAligned, SinkProcess
<1>4. WholeInv' /\ ProgressInv'
  BY <1>1 DEF IInv, TypeOK, WholeInv, ProgressInv, SinkProcess
<1> QED  BY <1>2, <1>3, <1>4 DEF IInv

LEMMA SinkCommitInv ==
  ASSUME IInv, SinkCommit
  PROVE  IInv'
<1>0. sink.n \in Nat /\ ring \in Seq(Lane) /\ Len(ring) \in Nat
  BY Amounts
<1>a. Pcm(sink.n) \in Seq(Lane) /\ Len(Pcm(sink.n)) = sink.n /\ Phased(Pcm(sink.n), 4)
  BY <1>0, PcmFacts
<1>1. /\ ring' \in Seq(Lane)
      /\ Len(ring') = Len(ring) + sink.n
      /\ Phased(ring', 4)
  <2>1. ring' = Pushed(ring, Pcm(sink.n))
    BY DEF SinkCommit
  <2>2. Len(ring) % 4 = 0 /\ Phased(ring, 4) /\ 4 \in {2, 4}
    BY Amounts
  <2>3. \A t \in Seq(Lane) : Phased(t, 4) =>
          /\ Pushed(ring, t) \in Seq(Lane)
          /\ Len(Pushed(ring, t)) = Len(ring) + Len(t)
          /\ Phased(Pushed(ring, t), 4)
    BY <1>0, <2>2, PushedPhased
  <2> QED  BY <1>a, <2>1, <2>3
<1>2. Len(ring') % 4 = 0
  <2>1. Len(ring) \in Nat /\ Len(ring) % 4 = 0 /\ sink.n \in Nat /\ sink.n % 4 = 0
    BY Amounts
  <2>2. (Len(ring) + sink.n) % 4 = 0
    BY <2>1
  <2> QED  BY <1>1, <2>2
<1>3. TypeOK'
  BY <1>0, <1>1 DEF IInv, TypeOK, SinkCommit
<1>4. RingSafe' /\ PacketAligned'
  BY <1>0, <1>1 DEF IInv, TypeOK, RingSafe, PacketAligned, SinkCommit
<1>5. WholeInv'
  <2>1. sink'.n = 0 /\ out' = out
    BY DEF SinkCommit
  <2>2. out.take % 4 = 0 /\ 0 % 4 = 0
    BY Amounts
  <2> QED  BY <1>1, <1>2, <2>1, <2>2 DEF WholeInv
<1>6. ProgressInv'
  <2>1. out' = out /\ primed' = primed /\ Len(ring') >= Len(ring)
    BY <1>0, <1>1 DEF SinkCommit
  <2>2. out.take \in Nat /\ PrimeBytes \in Nat /\ Len(ring) \in Nat /\ Len(ring') \in Nat
    BY <1>0, <1>1, Amounts
  <2> QED  BY <2>1, <2>2 DEF IInv, ProgressInv
<1> QED  BY <1>3, <1>4, <1>5, <1>6 DEF IInv

LEMMA OutPrimeInv ==
  ASSUME IInv, OutPrime
  PROVE  IInv'
<1>0. primed' \in BOOLEAN /\ probe' \in [at : Nat, age : Nat]
  BY DEF IInv, TypeOK, OutPrime
<1>1. TypeOK'
  BY <1>0, PlaybackAssumption DEF IInv, TypeOK, OutPrime
<1>2. RingSafe' /\ PacketAligned'
  BY DEF IInv, TypeOK, RingSafe, PacketAligned, OutPrime
<1>3. WholeInv' /\ ProgressInv'
  BY PlaybackAssumption DEF IInv, TypeOK, WholeInv, ProgressInv, OutPrime
<1> QED  BY <1>1, <1>2, <1>3 DEF IInv

LEMMA OutTrimInv ==
  ASSUME IInv, OutTrim
  PROVE  IInv'
<1>1. CASE primed /\ Avail(ring) > High
  <2>0. Avail(ring) \in Nat /\ Avail(ring) > PrimeBytes /\ PrimeBytes \in Nat
    BY <1>1, PlaybackAssumption DEF IInv, TypeOK, Avail, High, Larger
  <2>1. /\ Excess(Avail(ring)) \in Nat
        /\ Excess(Avail(ring)) % 4 = 0
        /\ Len(ring) - Excess(Avail(ring)) >= PrimeBytes
    BY <2>0 DEF Excess, Avail
  <2>2. out' = [out EXCEPT !.pc = "skip", !.take = Excess(Avail(ring))]
    BY <1>1 DEF OutTrim
  <2>3. TypeOK'
    BY <2>1, <2>2 DEF IInv, TypeOK, OutTrim
  <2>4. RingSafe' /\ PacketAligned'
    BY <2>1, <2>2 DEF IInv, TypeOK, RingSafe, PacketAligned, OutTrim
  <2>5. WholeInv' /\ ProgressInv'
    BY <1>1, <2>1, <2>2 DEF IInv, TypeOK, WholeInv, ProgressInv, OutTrim
  <2> QED  BY <2>3, <2>4, <2>5 DEF IInv
<1>2. CASE ~(primed /\ Avail(ring) > High)
  <2>1. out' = [out EXCEPT !.pc = "load"]
    BY <1>2 DEF OutTrim
  <2>2. TypeOK'
    BY <2>1 DEF IInv, TypeOK, OutTrim
  <2>3. RingSafe' /\ PacketAligned'
    BY <2>1 DEF IInv, TypeOK, RingSafe, PacketAligned, OutTrim
  <2>4. WholeInv' /\ ProgressInv'
    BY <2>1 DEF IInv, TypeOK, WholeInv, ProgressInv, OutTrim
  <2> QED  BY <2>2, <2>3, <2>4 DEF IInv
<1> QED  BY <1>1, <1>2

\* A watched byte keeps its type when older ones go.
LEMMA ShiftedType ==
  ASSUME TypeOK, NEW n \in Nat
  PROVE  Shifted(n) \in [at : Nat, age : Nat]
BY DEF TypeOK, Shifted

LEMMA OutSkipInv ==
  ASSUME IInv, OutSkip
  PROVE  IInv'
<1> DEFINE n == Takes(ring, out.take)
<1>0. n \in Nat /\ n =< Len(ring) /\ n % 4 = 0 /\ n = out.take
  BY PlaybackAssumption DEF IInv, TypeOK, WholeInv, ProgressInv, OutSkip, Takes, Smaller
<1>1. ring' = Rest(ring, n) /\ probe' = Shifted(n)
  BY DEF OutSkip
<1>2. /\ ring' \in Seq(Lane)
      /\ Len(ring') = Len(ring) - n
      /\ Phased(ring', 4)
  BY <1>0, <1>1, RestPhased DEF IInv, TypeOK, WholeInv
<1>3. Len(ring') % 4 = 0
  <2>1. Len(ring) \in Nat /\ Len(ring) % 4 = 0
    BY Amounts
  <2>2. (Len(ring) - n) % 4 = 0
    BY <1>0, <2>1
  <2> QED  BY <1>2, <2>2
<1>4. TypeOK'
  BY <1>0, <1>1, <1>2, ShiftedType DEF IInv, TypeOK, OutSkip
<1>5. RingSafe'
  <2>1. sink' = sink /\ out'.pc = "load"
    BY DEF IInv, TypeOK, OutSkip
  <2>2. Len(ring) \in Nat /\ sink.n \in Nat /\ Capacity \in Nat /\ Len(ring) + sink.n =< Capacity
    BY Amounts
  <2>3. Len(ring') + sink.n =< Capacity
    BY <1>0, <1>2, <2>2
  <2> QED  BY <2>1, <2>3 DEF RingSafe
<1>7. PacketAligned'
  BY DEF IInv, PacketAligned, OutSkip
<1>6. WholeInv' /\ ProgressInv'
  BY <1>2, <1>3 DEF IInv, TypeOK, WholeInv, ProgressInv, OutSkip
<1> QED  BY <1>4, <1>5, <1>6, <1>7 DEF IInv

LEMMA OutLoadInv ==
  ASSUME IInv, OutLoad
  PROVE  IInv'
<1>1. /\ Takes(ring, PcmBytes) \in Nat
      /\ Takes(ring, PcmBytes) =< Len(ring)
      /\ Takes(ring, PcmBytes) % 4 = 0
  BY Amounts DEF Takes, Smaller
<1>2. /\ out' = [out EXCEPT !.pc = "pop", !.take = out'.take]
      /\ out'.take \in {0, Takes(ring, PcmBytes)}
  BY DEF OutLoad, IInv, TypeOK
<1>3. TypeOK'
  BY <1>1, <1>2 DEF IInv, TypeOK, OutLoad
<1>4. RingSafe' /\ PacketAligned'
  BY <1>1, <1>2 DEF IInv, TypeOK, RingSafe, PacketAligned, OutLoad
<1>5. WholeInv' /\ ProgressInv'
  BY <1>1, <1>2 DEF IInv, TypeOK, WholeInv, ProgressInv, OutLoad
<1> QED  BY <1>3, <1>4, <1>5 DEF IInv

LEMMA OutPopInv ==
  ASSUME IInv, OutPop
  PROVE  IInv'
<1>0. out.take \in Nat /\ out.take =< Len(ring) /\ out.take % 4 = 0 /\ ring \in Seq(Lane)
  BY Amounts DEF IInv, RingSafe, OutPop
<1>1. /\ ring' \in Seq(Lane)
      /\ Len(ring') = Len(ring) - out.take
      /\ Phased(ring', 4)
  BY <1>0, Amounts, RestPhased DEF OutPop
<1>2. Len(ring') % 4 = 0
  <2>1. Len(ring) \in Nat /\ Len(ring) % 4 = 0
    BY Amounts
  <2>2. (Len(ring) - out.take) % 4 = 0
    BY <1>0, <2>1
  <2> QED  BY <1>1, <2>2
<1>3. /\ frame'.pcm \in Seq(Lane)
      /\ Phased(frame'.pcm, 4)
      /\ frame' = [seq |-> outSeq, pcm |-> frame'.pcm]
  BY <1>0, FrontPhased DEF IInv, WholeInv, OutPop
<1>4. outSeq' \in 1 .. MaxSeq
  BY PlaybackAssumption DEF IInv, TypeOK, OutPop, NextSeq
<1>5. TypeOK'
  <2>1. out' \in [pc : {Idle, "trim", "skip", "load", "pop"},
                  i : 0 .. PktsPerXfer, take : Nat, trimmed : BOOLEAN]
    <3>1. out.i \in 0 .. PktsPerXfer /\ out.i < PktsPerXfer /\ PktsPerXfer \in Nat
      BY PlaybackAssumption DEF IInv, TypeOK, ProgressInv, OutPop
    <3>2. PICK p \in {"load", Idle} : out' = [out EXCEPT !.pc = p, !.i = @ + 1, !.take = 0]
      BY DEF OutPop
    <3>3. out.i + 1 \in 0 .. PktsPerXfer
      BY <3>1
    <3> QED  BY <3>2, <3>3 DEF IInv, TypeOK
  <2>2. probe' \in [at : Nat, age : Nat]
    BY <1>0, ShiftedType DEF IInv, OutPop
  <2> QED  BY <1>1, <1>3, <1>4, <2>1, <2>2 DEF IInv, TypeOK, OutPop
<1>6. RingSafe'
  <2>1. sink' = sink /\ out'.pc # "pop"
    BY DEF IInv, TypeOK, OutPop
  <2>2. Len(ring) \in Nat /\ sink.n \in Nat /\ Capacity \in Nat /\ Len(ring) + sink.n =< Capacity
    BY Amounts
  <2>3. Len(ring') + sink.n =< Capacity
    BY <1>0, <1>1, <2>2
  <2> QED  BY <2>1, <2>3 DEF RingSafe
<1>8. PacketAligned'
  BY <1>3 DEF PacketAligned, Phased
<1>7. WholeInv' /\ ProgressInv'
  BY <1>1, <1>2, PlaybackAssumption DEF IInv, TypeOK, WholeInv, ProgressInv, OutPop
<1> QED  BY <1>5, <1>6, <1>7, <1>8 DEF IInv

LEMMA StepInv == IInv /\ [Next]_vars => IInv'
<1> SUFFICES ASSUME IInv, [Next]_vars
             PROVE  IInv'
  OBVIOUS
<1>1. CASE \E n \in SinkSizes : SinkProcess(n)
  BY <1>1, SinkProcessInv
<1>2. CASE SinkCommit
  BY <1>2, SinkCommitInv
<1>3. CASE OnOut
  BY <1>3, OutPrimeInv, OutTrimInv, OutSkipInv, OutLoadInv, OutPopInv DEF OnOut
<1>4. CASE UNCHANGED vars
  BY <1>4 DEF vars, IInv, TypeOK, RingSafe, PacketAligned, WholeInv, ProgressInv
<1> QED  BY <1>1, <1>2, <1>3, <1>4 DEF Next

LEMMA Invariance == Spec => []IInv
BY InitInv, StepInv, PTL DEF Spec

\* Type correctness of the playback path.
THEOREM TypeCorrect == Spec => []TypeOK
<1>1. IInv => TypeOK  BY DEF IInv
<1> QED  BY Invariance, <1>1, PTL

\* Neither callback ever pushes more than there is room for or takes more
\* than there is, on whatever stale view of the ring it decided.
THEOREM RingIsSafe == Spec => []RingSafe
<1>1. IInv => RingSafe  BY DEF IInv
<1> QED  BY Invariance, <1>1, PTL

\* No overflow, trim or underrun shifts the stream by part of a frame.
THEOREM PacketsAreAligned == Spec => []PacketAligned
<1>1. IInv => PacketAligned  BY DEF IInv
<1> QED  BY Invariance, <1>1, PTL

---------------------------------------------------------------------------
(* The trim never starves: once a completion has trimmed, the ring holds    *)
(* what its remaining packets need.                                        *)

TrimInv ==
  (out.trimmed /\ PktsPerXfer * PcmBytes =< PrimeBytes) =>
    /\ primed
    /\ out.pc \in {"load", "pop"} => Len(ring) >= (PktsPerXfer - out.i) * PcmBytes
    /\ out.pc = "pop" => out.take = PcmBytes
    /\ out.i > 0 => Len(frame.pcm) = PcmBytes

LEMMA OnePacketLess ==
  ASSUME NEW k \in Nat \ {0}, NEW b \in Nat
  PROVE  k * b >= b /\ (k - 1) * b = k * b - b
<1>1. (k - 1) \in Nat /\ k = (k - 1) + 1
  OBVIOUS
<1>2. (k - 1) * b \in Nat /\ k * b = (k - 1) * b + b
  BY <1>1
<1> QED  BY <1>1, <1>2

LEMMA TrimStep == IInv /\ IInv' /\ TrimInv /\ [Next]_vars => TrimInv'
<1> SUFFICES ASSUME IInv, IInv', TrimInv, [Next]_vars,
                    out'.trimmed, PktsPerXfer * PcmBytes =< PrimeBytes
             PROVE  /\ primed'
                    /\ out'.pc \in {"load", "pop"} =>
                         Len(ring') >= (PktsPerXfer - out'.i) * PcmBytes
                    /\ out'.pc = "pop" => out'.take = PcmBytes
                    /\ out'.i > 0 => Len(frame'.pcm) = PcmBytes
  BY DEF TrimInv
<1>0. /\ PktsPerXfer \in Nat /\ PcmBytes \in Nat /\ PktsPerXfer * PcmBytes \in Nat
      /\ Len(ring) \in Nat
  BY Amounts, PlaybackAssumption
<1>a. out.i \in 0 .. PktsPerXfer /\ (out.pc # Idle => out.i < PktsPerXfer)
  BY DEF IInv, TypeOK, ProgressInv
<1>b. out.i \in Nat /\ PktsPerXfer - out.i \in Nat
  BY <1>0, <1>a
<1>c. \A n \in Nat : n =< Len(ring) =>
        Len(Rest(ring, n)) = Len(ring) - n /\ Len(Front(ring, n)) = n
  BY Amounts DEF Rest, Front
<1>1. ASSUME NEW n \in SinkSizes, SinkProcess(n)
      PROVE  primed' = primed /\ out' = out /\ ring' = ring /\ frame' = frame
  BY <1>1 DEF SinkProcess
<1>2. CASE SinkCommit
  <2>1. /\ primed' = primed /\ out' = out /\ frame' = frame
        /\ ring' = Pushed(ring, Pcm(sink.n))
    BY <1>2 DEF SinkCommit
  <2>2. Len(ring') = Len(ring) + sink.n /\ sink.n \in Nat
    <3>1. Pcm(sink.n) \in Seq(Lane) /\ Len(Pcm(sink.n)) = sink.n /\ sink.n \in Nat
      BY Amounts, PcmFacts
    <3>2. \A t \in Seq(Lane) : Len(Pushed(ring, t)) = Len(ring) + Len(t)
      BY Amounts DEF Pushed
    <3> QED  BY <2>1, <3>1, <3>2
  <2>3. (PktsPerXfer - out.i) * PcmBytes \in Int
    BY <1>0, <1>b
  <2> QED  BY <1>0, <2>1, <2>2, <2>3 DEF TrimInv
<1>3. CASE OutPrime
  BY <1>3 DEF OutPrime
<1>4. CASE OutTrim
  BY <1>4 DEF OutTrim, IInv, TypeOK, ProgressInv
<1>5. CASE OutSkip
  <2>1. /\ out.i = 0 /\ primed /\ Len(ring) - out.take >= PrimeBytes
        /\ out' = [out EXCEPT !.pc = "load", !.take = 0, !.trimmed = TRUE]
        /\ primed' = primed
    BY <1>5 DEF OutSkip, IInv, ProgressInv
  <2>2. Len(ring') = Len(ring) - out.take
    <3>1. Takes(ring, out.take) = out.take /\ out.take =< Len(ring)
      BY <2>1, Amounts DEF Takes, Smaller
    <3>2. ring' = Rest(ring, out.take)
      BY <1>5, <3>1 DEF OutSkip
    <3> QED  BY <3>1, <3>2, <1>c, Amounts
  <2>3. out'.i = 0 /\ out'.pc = "load"
    BY <2>1 DEF IInv, TypeOK
  <2>4. PrimeBytes \in Nat /\ out.take \in Nat
    BY Amounts
  <2> QED  BY <1>0, <2>1, <2>2, <2>3, <2>4
<1>6. CASE OutLoad
  <2>1. /\ out'.pc = "pop" /\ out'.i = out.i /\ out'.trimmed = out.trimmed
        /\ primed' = primed /\ ring' = ring /\ frame' = frame
        /\ out'.take = IF primed THEN Takes(ring, PcmBytes) ELSE 0
        /\ out.pc = "load"
    BY <1>6 DEF OutLoad, IInv, TypeOK
  <2>2. primed /\ Len(ring) >= (PktsPerXfer - out.i) * PcmBytes
    BY <2>1 DEF TrimInv
  <2>3. PktsPerXfer - out.i \in Nat \ {0}
    BY <2>1, <1>0 DEF IInv, TypeOK, ProgressInv
  <2>4. (PktsPerXfer - out.i) * PcmBytes >= PcmBytes /\ (PktsPerXfer - out.i) * PcmBytes \in Nat
    BY <2>3, <1>0, OnePacketLess
  <2>5. Takes(ring, PcmBytes) = PcmBytes
    BY <2>2, <2>4, <1>0 DEF Takes, Smaller
  <2> QED  BY <2>1, <2>2, <2>5 DEF TrimInv
<1>7. CASE OutPop
  <2>1. /\ out.pc = "pop" /\ out'.i = out.i + 1 /\ out'.trimmed = out.trimmed
        /\ primed' = primed /\ ring' = Rest(ring, out.take)
        /\ frame'.pcm = Front(ring, out.take)
        /\ out'.pc \in {"load", Idle}
    BY <1>7 DEF OutPop, IInv, TypeOK
  <2>2. primed /\ out.take = PcmBytes /\ Len(ring) >= (PktsPerXfer - out.i) * PcmBytes
    BY <2>1 DEF TrimInv
  <2>3. out.take =< Len(ring)
    BY <2>1 DEF IInv, RingSafe
  <2>4. Len(ring') = Len(ring) - PcmBytes /\ Len(frame'.pcm) = PcmBytes
    BY <2>1, <2>2, <2>3, <1>0, <1>c
  <2>5. PktsPerXfer - out.i \in Nat \ {0} /\ out.i \in Nat
    BY <2>1, <1>0, <1>a, <1>b
  <2>6. /\ (PktsPerXfer - out.i - 1) * PcmBytes = (PktsPerXfer - out.i) * PcmBytes - PcmBytes
        /\ (PktsPerXfer - out.i) * PcmBytes \in Nat
    BY <2>5, <1>0, OnePacketLess
  <2>7. PktsPerXfer - out'.i = PktsPerXfer - out.i - 1
    BY <2>1, <2>5, <1>0
  <2> QED  BY <1>0, <2>1, <2>2, <2>4, <2>6, <2>7
<1>8. CASE UNCHANGED vars
  BY <1>8 DEF vars, TrimInv
<1> QED
  BY <1>1, <1>2, <1>3, <1>4, <1>5, <1>6, <1>7, <1>8 DEF Next, OnOut, TrimInv

\* A completion that trimmed the ring fills all its packets with audio.
THEOREM TrimDoesNotStarve == Spec => []TrimNeverStarves
<1>1. Init => TrimInv
  BY DEF Init, TrimInv
<1>2. TrimInv => TrimNeverStarves
  BY DEF TrimInv, TrimNeverStarves
<1> QED  BY Invariance, <1>1, <1>2, TrimStep, PTL DEF Spec

---------------------------------------------------------------------------
(* Sequence numbers. *)

\* outSeq is the number after the last packet's.
SeqInv == outSeq = IF frame.seq = 0 THEN 1 ELSE NextSeq(frame.seq)

LEMMA NextSeqIs ==
  ASSUME NEW s \in 0 .. MaxSeq
  PROVE  (IF s = 0 THEN 1 ELSE NextSeq(s)) = (s % MaxSeq) + 1
<1>1. MaxSeq \in Nat /\ MaxSeq > 0
  BY PlaybackAssumption
<1>2. CASE s = MaxSeq
  BY <1>1, <1>2 DEF NextSeq
<1>3. CASE s < MaxSeq
  BY <1>1, <1>3 DEF NextSeq
<1> QED  BY <1>1, <1>2, <1>3

LEMMA SeqStep == IInv /\ SeqInv /\ [Next]_vars => SeqInv'
<1> SUFFICES ASSUME IInv, SeqInv, [Next]_vars
             PROVE  SeqInv'
  OBVIOUS
<1>1. CASE OutPop
  BY <1>1 DEF OutPop, SeqInv, IInv, TypeOK
<1>2. CASE ~OutPop
  <2>1. outSeq' = outSeq /\ frame' = frame
    BY <1>2 DEF Next, OnOut, SinkProcess, SinkCommit, OutPrime, OutTrim, OutSkip, OutLoad, vars
  <2> QED  BY <2>1 DEF SeqInv
<1> QED  BY <1>1, <1>2

\* GIP sequence numbers follow each other, wrap to 1 and are never 0.
THEOREM SequenceFollows == Spec => SeqFollows
<1>1. Init => SeqInv
  BY DEF Init, SeqInv
<1>2. IInv /\ SeqInv /\ [Next]_vars =>
        [frame'.seq # frame.seq =>
           frame'.seq # 0 /\ frame'.seq = (frame.seq % MaxSeq) + 1]_vars
  <2> SUFFICES ASSUME IInv, SeqInv, Next, frame'.seq # frame.seq
               PROVE  frame'.seq # 0 /\ frame'.seq = (frame.seq % MaxSeq) + 1
    BY DEF vars
  <2>1. OutPop
    BY DEF Next, OnOut, SinkProcess, SinkCommit, OutPrime, OutTrim, OutSkip, OutLoad
  <2>2. frame'.seq = outSeq /\ outSeq # 0
    BY <2>1 DEF OutPop, IInv, TypeOK
  <2>3. frame.seq \in 0 .. MaxSeq
    BY DEF IInv, TypeOK
  <2> QED  BY <2>2, <2>3, NextSeqIs DEF SeqInv
<1> QED  BY Invariance, <1>1, <1>2, SeqStep, PTL DEF Spec, SeqFollows

---------------------------------------------------------------------------
(* Latency.  A byte watched for age completions since draining began is no  *)
(* deeper than High less what those completions have taken.                *)

\* Bytes the completions before this one have taken since it was watched.
Taken(age) == (age - 1) * PerXfer

LatencyInv ==
  /\ probe.at =< Len(ring)
  /\ probe.age >= 1 =>
       /\ primed
       /\ probe.at >= 1
       /\ out.pc = Idle => probe.at + Taken(probe.age) + PerXfer =< High
       /\ out.pc = "trim" /\ probe.age >= 2 => probe.at + Taken(probe.age) =< High
       /\ out.pc = "skip" => probe.at + Taken(probe.age) =< High + out.take
       /\ out.pc \in {"load", "pop"} =>
            probe.at + Taken(probe.age) + out.i * PcmBytes =< High
       /\ out.pc = "pop" => probe.at =< out.take \/ out.take = PcmBytes

LEMMA TakenFacts ==
  ASSUME NEW a \in Nat, a >= 1
  PROVE  /\ Taken(a) \in Nat
         /\ Taken(a + 1) = Taken(a) + PerXfer
         /\ Taken(1) = 0
         /\ Taken(a) + PerXfer = a * PerXfer
         /\ PerXfer \in Nat
<1>1. PerXfer \in Nat
  BY PlaybackAssumption DEF PerXfer
<1>2. a - 1 \in Nat /\ a = (a - 1) + 1
  OBVIOUS
<1>3. (a - 1) * PerXfer \in Nat /\ a * PerXfer = (a - 1) * PerXfer + PerXfer
  BY <1>1, <1>2
<1> QED  BY <1>1, <1>2, <1>3 DEF Taken

LEMMA HighFacts ==
  /\ High \in Nat /\ PrimeBytes \in Nat /\ PcmBytes \in Nat
  /\ High >= PrimeBytes + PcmBytes /\ PcmBytes >= 4
<1>1. PrimeBytes \in Nat /\ PcmBytes \in Nat /\ PcmBytes >= 4
  BY PlaybackAssumption
<1>2. Larger(PrimeBytes, PcmBytes) \in Nat /\ Larger(PrimeBytes, PcmBytes) >= PcmBytes
  BY <1>1 DEF Larger
<1> QED  BY <1>1, <1>2 DEF High

\* Rounding up: fewer than h / b whole steps.
LEMMA RoundUp ==
  ASSUME NEW a \in Nat, NEW b \in Nat \ {0}, NEW h \in Nat, a * b < h
  PROVE  a < (h + b - 1) \div b
<1> DEFINE q == (h + b - 1) \div b
<1>1. q \in Nat /\ h + b - 1 < (q + 1) * b
  OBVIOUS
<1>2. (a + 1) * b = a * b + b /\ a * b \in Nat
  OBVIOUS
<1>3. (a + 1) * b =< h + b - 1
  BY <1>2
<1>4. (a + 1) * b < (q + 1) * b
  BY <1>1, <1>2, <1>3
<1>5. ~(q + 1 =< a + 1)
  <2> SUFFICES ASSUME q + 1 =< a + 1 PROVE FALSE
    OBVIOUS
  <2>1. PICK d \in Nat : a + 1 = (q + 1) + d
    BY <1>1
  <2>2. (a + 1) * b = (q + 1) * b + d * b /\ d * b \in Nat /\ (q + 1) * b \in Nat
    BY <1>1, <2>1
  <2> QED  BY <1>4, <2>2
<1> QED  BY <1>1, <1>5

LEMMA LatencyBound == IInv /\ LatencyInv => LatencyBounded
<1> SUFFICES ASSUME IInv, LatencyInv, out.pc = Idle, probe.at # 0
             PROVE  probe.age < MaxAge
  BY DEF LatencyBounded
<1>1. probe.at \in Nat /\ probe.age \in Nat
  BY DEF IInv, TypeOK
<1>2. PerXfer \in Nat \ {0} /\ High \in Nat
  <2>1. PktsPerXfer \in Nat \ {0} /\ PcmBytes \in Nat \ {0}
    BY PlaybackAssumption
  <2>2. PktsPerXfer * PcmBytes \in Nat \ {0}
    BY <2>1
  <2> QED  BY <2>2, HighFacts DEF PerXfer
<1>3. probe.age * PerXfer < High
  <2>1. CASE probe.age = 0
    BY <2>1, <1>2, HighFacts
  <2>2. CASE probe.age >= 1
    <3>1. probe.at >= 1 /\ probe.at + Taken(probe.age) + PerXfer =< High
      BY <2>2 DEF LatencyInv
    <3>2. Taken(probe.age) \in Nat /\ Taken(probe.age) + PerXfer = probe.age * PerXfer
      BY <2>2, <1>1, TakenFacts
    <3> QED  BY <3>1, <3>2, <1>1, <1>2
  <2> QED  BY <1>1, <2>1, <2>2
<1> QED  BY <1>1, <1>2, <1>3, RoundUp DEF MaxAge

LEMMA LatencyStep == IInv /\ IInv' /\ LatencyInv /\ [Next]_vars => LatencyInv'
<1> SUFFICES ASSUME IInv, IInv', LatencyInv, [Next]_vars
             PROVE  LatencyInv'
  OBVIOUS
<1>0. /\ probe \in [at : Nat, age : Nat] /\ probe.at \in Nat /\ probe.age \in Nat
      /\ Len(ring) \in Nat /\ Len(ring') \in Nat /\ out.take \in Nat
      /\ out.i \in Nat /\ out.i =< PktsPerXfer
      /\ (out.pc # Idle => out.i < PktsPerXfer)
      /\ PktsPerXfer \in Nat /\ PcmBytes \in Nat
  <2>1. PktsPerXfer \in Nat /\ PcmBytes \in Nat
    BY PlaybackAssumption
  <2>2. /\ probe \in [at : Nat, age : Nat] /\ ring \in Seq(Lane) /\ ring' \in Seq(Lane)
        /\ out.take \in Nat /\ out.i \in 0 .. PktsPerXfer
        /\ (out.pc # Idle => out.i < PktsPerXfer)
    BY DEF IInv, TypeOK, ProgressInv
  <2> QED  BY <2>1, <2>2
<1>1. ASSUME NEW n \in SinkSizes, SinkProcess(n)
      PROVE  LatencyInv'
  BY <1>1 DEF SinkProcess, LatencyInv
<1>2. CASE SinkCommit
  <2>1. Len(ring') = Len(ring) + sink.n /\ sink.n \in Nat
    <3>1. Pcm(sink.n) \in Seq(Lane) /\ Len(Pcm(sink.n)) = sink.n /\ sink.n \in Nat
      BY Amounts, PcmFacts
    <3>2. \A t \in Seq(Lane) : Len(Pushed(ring, t)) = Len(ring) + Len(t)
      BY Amounts DEF Pushed
    <3> QED  BY <1>2, <3>1, <3>2 DEF SinkCommit
  <2>2. CASE probe' = probe
    BY <1>0, <1>2, <2>1, <2>2 DEF SinkCommit, LatencyInv
  <2>3. CASE probe' = [at |-> Len(ring'), age |-> 0]
    BY <1>0, <2>3 DEF LatencyInv
  <2> QED  BY <1>2, <2>2, <2>3 DEF SinkCommit
<1>3. CASE OutPrime
  <2>1. out'.pc = "trim" /\ ring' = ring /\ out.pc = Idle /\ (primed => primed')
    BY <1>3 DEF OutPrime
  <2>2. CASE probe' = probe
    <3>1. probe.age = 0
      BY <1>0, <1>3, <2>1, <2>2 DEF OutPrime, LatencyInv
    <3> QED  BY <1>0, <2>1, <2>2, <3>1 DEF LatencyInv
  <2>3. CASE primed' /\ probe.at > 0 /\ probe' = [probe EXCEPT !.age = @ + 1]
    <3>1. probe'.at = probe.at /\ probe'.age = probe.age + 1
      BY <1>0, <2>3
    <3>2. CASE probe.age = 0
      BY <1>0, <2>1, <2>3, <3>1, <3>2 DEF LatencyInv
    <3>3. CASE probe.age >= 1
      <4>1. Taken(probe'.age) = Taken(probe.age) + PerXfer /\ Taken(probe.age) \in Nat
            /\ PerXfer \in Nat
        BY <1>0, <3>1, <3>3, TakenFacts
      <4> QED  BY <1>0, <2>1, <2>3, <3>1, <3>3, <4>1, HighFacts DEF LatencyInv
    <3> QED  BY <1>0, <3>2, <3>3
  <2> QED  BY <1>3, <2>2, <2>3 DEF OutPrime
<1>4. CASE OutTrim
  <2>0. ring' = ring /\ probe' = probe /\ primed' = primed /\ out.pc = "trim" /\ out.i = 0
        /\ out' \in {[out EXCEPT !.pc = "skip", !.take = Excess(Avail(ring))],
                     [out EXCEPT !.pc = "load"]}
    BY <1>4 DEF OutTrim, IInv, ProgressInv
  <2> SUFFICES ASSUME probe.age >= 1
               PROVE  LatencyInv'
    BY <1>0, <2>0 DEF LatencyInv
  <2>1. /\ primed /\ probe.at >= 1 /\ probe.at =< Len(ring)
        /\ probe.age >= 2 => probe.at + Taken(probe.age) =< High
    BY <2>0 DEF LatencyInv
  <2>2. Taken(probe.age) \in Nat /\ (probe.age = 1 => Taken(probe.age) = 0)
    BY <1>0, TakenFacts
  <2>3. CASE Avail(ring) > High
    <3>1. out'.pc = "skip" /\ out'.take = Excess(Avail(ring))
      BY <1>4, <2>1, <2>3 DEF OutTrim, IInv, TypeOK
    <3>2. Excess(Avail(ring)) \in Nat /\ Len(ring) =< High + Excess(Avail(ring))
      BY <1>0, <2>3, HighFacts DEF Excess, Avail
    <3>3. probe.at + Taken(probe.age) =< High + Excess(Avail(ring))
      BY <1>0, <2>1, <2>2, <3>2, HighFacts
    <3> QED  BY <2>0, <2>1, <3>1, <3>3 DEF LatencyInv
  <2>4. CASE ~(Avail(ring) > High)
    <3>1. out'.pc = "load" /\ out'.i = 0
      BY <1>4, <2>0, <2>4 DEF OutTrim, IInv, TypeOK
    <3>2. probe.at + Taken(probe.age) =< High
      BY <1>0, <2>1, <2>2, <2>4, HighFacts DEF Avail
    <3>3. 0 * PcmBytes = 0
      BY <1>0
    <3> QED  BY <1>0, <2>0, <2>1, <2>2, <3>1, <3>2, <3>3, HighFacts DEF LatencyInv
  <2> QED  BY <2>3, <2>4
<1>c. \A n \in Nat : n =< Len(ring) => Len(Rest(ring, n)) = Len(ring) - n
  BY Amounts DEF Rest
<1>5. CASE OutSkip
  <2>1. /\ out.pc = "skip" /\ out.i = 0 /\ primed /\ primed' = primed
        /\ out'.pc = "load" /\ out'.i = 0
        /\ Takes(ring, out.take) = out.take /\ out.take =< Len(ring)
    <3>1. /\ out.pc = "skip" /\ out.i = 0 /\ primed /\ primed' = primed
          /\ out'.pc = "load" /\ out'.i = 0
          /\ Len(ring) - out.take >= PrimeBytes
      BY <1>5 DEF OutSkip, IInv, TypeOK, ProgressInv
    <3>2. out.take =< Len(ring)
      BY <3>1, <1>0, HighFacts
    <3> QED  BY <3>1, <3>2, <1>0 DEF Takes, Smaller
  <2>2. Len(ring') = Len(ring) - out.take /\ probe' = Shifted(out.take)
    BY <1>0, <1>5, <1>c, <2>1 DEF OutSkip
  <2>3. CASE probe.at > out.take
    <3>1. probe'.at = probe.at - out.take /\ probe'.age = probe.age
      BY <1>0, <2>2, <2>3 DEF Shifted
    <3>2. 0 * PcmBytes = 0
      BY <1>0
    <3>3. probe.age >= 1 => Taken(probe.age) \in Nat
      BY <1>0, TakenFacts
    <3> QED  BY <1>0, <2>1, <2>2, <2>3, <3>1, <3>2, <3>3, HighFacts DEF LatencyInv
  <2>4. CASE ~(probe.at > out.take)
    <3>1. probe'.at = 0 /\ probe'.age = 0
      BY <2>2, <2>4 DEF Shifted
    <3> QED  BY <1>0, <3>1 DEF LatencyInv
  <2> QED  BY <2>3, <2>4
<1>6. CASE OutLoad
  <2>1. /\ out.pc = "load" /\ out'.pc = "pop" /\ out'.i = out.i
        /\ primed' = primed /\ ring' = ring /\ probe' = probe
        /\ out'.take = IF primed THEN Takes(ring, PcmBytes) ELSE 0
    BY <1>6 DEF OutLoad, IInv, TypeOK
  <2>2. Takes(ring, PcmBytes) = PcmBytes \/ Takes(ring, PcmBytes) = Len(ring)
    BY DEF Takes, Smaller
  <2> QED  BY <1>0, <2>1, <2>2 DEF LatencyInv
<1>7. CASE OutPop
  <2>1. /\ out.pc = "pop" /\ out'.i = out.i + 1 /\ primed' = primed
        /\ out'.pc = IF out.i + 1 < PktsPerXfer THEN "load" ELSE Idle
        /\ ring' = Rest(ring, out.take) /\ probe' = Shifted(out.take)
        /\ out.take =< Len(ring)
    BY <1>7 DEF OutPop, IInv, TypeOK, RingSafe
  <2>2. Len(ring') = Len(ring) - out.take
    BY <1>0, <1>c, <2>1
  <2>3. CASE probe.at > out.take
    <3>1. probe'.at = probe.at - out.take /\ probe'.age = probe.age
      BY <1>0, <2>1, <2>3 DEF Shifted
    <3>2. CASE probe.age = 0
      BY <1>0, <2>2, <2>3, <3>1, <3>2 DEF LatencyInv
    <3>3. CASE probe.age >= 1
      <4>1. /\ out.take = PcmBytes /\ primed
            /\ probe.at + Taken(probe.age) + out.i * PcmBytes =< High
        BY <1>0, <2>1, <2>3, <3>3 DEF LatencyInv
      <4>a. \A i, b \in Nat : (i + 1) * b = i * b + b /\ i * b \in Nat
        OBVIOUS
      <4>b. Taken(probe.age) \in Nat
        BY <1>0, <3>3, TakenFacts
      <4>2. /\ Taken(probe.age) \in Nat
            /\ (out.i + 1) * PcmBytes = out.i * PcmBytes + PcmBytes
            /\ out.i * PcmBytes \in Nat
        BY <1>0, <4>a, <4>b
      <4>3. probe'.at + Taken(probe'.age) + out'.i * PcmBytes =< High
        BY <1>0, <2>1, <2>3, <3>1, <4>1, <4>2, HighFacts
      <4>4. CASE out.i + 1 < PktsPerXfer
        BY <1>0, <2>1, <2>2, <2>3, <3>1, <4>1, <4>3, <4>4 DEF LatencyInv
      <4>5. CASE ~(out.i + 1 < PktsPerXfer)
        <5>1. out'.i = PktsPerXfer /\ out'.pc = Idle
          BY <1>0, <2>1, <4>5
        <5>2. out'.i * PcmBytes = PerXfer
          BY <5>1 DEF PerXfer
        <5> QED  BY <1>0, <2>1, <2>2, <2>3, <3>1, <4>1, <4>3, <5>1, <5>2 DEF LatencyInv
      <4> QED  BY <4>4, <4>5
    <3> QED  BY <1>0, <3>2, <3>3
  <2>4. CASE ~(probe.at > out.take)
    <3>1. probe'.at = 0 /\ probe'.age = 0
      BY <2>1, <2>4 DEF Shifted
    <3> QED  BY <1>0, <3>1 DEF LatencyInv
  <2> QED  BY <2>3, <2>4
<1>8. CASE UNCHANGED vars
  BY <1>8 DEF vars, LatencyInv
<1> QED
  BY <1>1, <1>2, <1>3, <1>4, <1>5, <1>6, <1>7, <1>8 DEF Next, OnOut

\* However fast PipeWire's clock runs, an accepted byte is played or trimmed
\* within the completions that play High bytes.
THEOREM LatencyIsBounded == Spec => []LatencyBounded
<1>1. Init => LatencyInv
  BY DEF Init, LatencyInv
<1> QED  BY Invariance, <1>1, LatencyStep, LatencyBound, PTL DEF Spec
===========================================================================
