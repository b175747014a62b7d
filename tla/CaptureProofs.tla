--------------------------- MODULE CaptureProofs ---------------------------
(***************************************************************************)
(* Proofs about Capture for every ring capacity, packet size, latency      *)
(* target, mapped buffer and interleaving of the two callbacks.            *)
(*                                                                         *)
(* As in PlaybackProofs, what each callback has decided on and not yet     *)
(* committed must be whole samples (WholeInv) for the ring to keep its     *)
(* lanes; ServeInv carries the promise of a full read across the steps of  *)
(* the source callback, LagInv ties the age of a byte to its depth.        *)
(***************************************************************************)
EXTENDS Capture, RingProofs

\* The ring and every pending amount are whole samples.
WholeInv ==
  /\ Len(ring) % 2 = 0 /\ Phased(ring, 2)
  /\ in.n % 2 = 0 /\ in.n =< in.size
  /\ src.take % 2 = 0 /\ src.want % 2 = 0

\* What the read needs stays in the ring until it is taken.
ServeInv ==
  /\ src.pc = "skip" => Len(ring) - src.take >= Low(src.want)
  /\ src.had >= src.want =>
       /\ src.pc = "load" => Len(ring) >= src.want
       /\ src.pc = "pop" => src.take = src.want

IInv == TypeOK /\ RingSafe /\ BufferAligned /\ WholeInv /\ ServeInv /\ TrimNeverStarves

USE DEF Idle, Stride

LEMMA PcmFacts ==
  ASSUME NEW n \in Nat
  PROVE  Pcm(n) \in Seq(Lane) /\ Len(Pcm(n)) = n /\ Phased(Pcm(n), 2)
BY DEF Pcm, Phased, Lane

\* What a read needs, and the marks derived from it.
LEMMA WantFacts ==
  ASSUME NEW r \in Requests
  PROVE  Want(r) \in Nat /\ Want(r) % 2 = 0
<1>1. r \in Nat /\ MaxBytes \in Nat
  BY CaptureAssumption
<1>2. (MaxBytes \div 2) * 2 \in Nat /\ ((MaxBytes \div 2) * 2) % 2 = 0
  BY <1>1
<1>3. r * 2 \in Nat /\ (r * 2) % 2 = 0
  BY <1>1
<1> QED  BY <1>1, <1>2, <1>3 DEF Want, Smaller

LEMMA MarkFacts ==
  ASSUME NEW w \in Nat
  PROVE  /\ Low(w) \in Nat /\ High(w) \in Nat
         /\ Low(w) >= w /\ Low(w) >= 2 /\ High(w) = 2 * Low(w)
BY CaptureAssumption DEF Low, High, Larger

\* What IInv says of the amounts, with their types.
LEMMA Amounts ==
  ASSUME IInv
  PROVE  /\ ring \in Seq(Lane) /\ Len(ring) \in Nat /\ Len(ring) % 2 = 0 /\ Phased(ring, 2)
         /\ in.n \in Nat /\ in.n % 2 = 0 /\ in.size \in Nat
         /\ src.take \in Nat /\ src.take % 2 = 0
         /\ src.want \in Nat /\ src.want % 2 = 0 /\ src.had \in Nat /\ src.lag \in Nat
         /\ Capacity \in Nat /\ Capacity % 2 = 0 /\ Len(ring) + in.n =< Capacity
<1>1. /\ ring \in Seq(Lane) /\ in.n \in Nat /\ in.size \in Nat /\ src.take \in Nat
      /\ src.want \in Nat /\ src.had \in Nat /\ src.lag \in Nat
  BY DEF IInv, TypeOK
<1>2. Len(ring) \in Nat
  BY <1>1
<1>3. Capacity \in Nat /\ Capacity % 2 = 0
  BY CapacityAssumption, CaptureAssumption
<1> QED  BY <1>1, <1>2, <1>3 DEF IInv, WholeInv, RingSafe

\* A watched byte keeps its type when older ones go.
LEMMA ShiftedType ==
  ASSUME TypeOK, NEW n \in Nat
  PROVE  Shifted(n) \in [at : Nat, lag : Nat, lost : BOOLEAN]
<1>1. probe \in [at : Nat, lag : Nat, lost : BOOLEAN]
  BY DEF TypeOK
<1>2. CASE probe.at > n
  <2>1. probe.at - n \in Nat
    BY <1>1, <1>2
  <2> QED  BY <1>1, <1>2, <2>1 DEF Shifted
<1>3. CASE ~(probe.at > n)
  BY <1>3 DEF Shifted, NoProbe
<1> QED  BY <1>2, <1>3

\* The ring after bytes are taken from its front.
LEMMA TakenFrom ==
  ASSUME IInv, NEW n \in Nat, n =< Len(ring), n % 2 = 0
  PROVE  /\ Rest(ring, n) \in Seq(Lane)
         /\ Len(Rest(ring, n)) = Len(ring) - n
         /\ Len(Rest(ring, n)) % 2 = 0
         /\ Phased(Rest(ring, n), 2)
         /\ Front(ring, n) \in Seq(Lane)
         /\ Len(Front(ring, n)) = n
         /\ Phased(Front(ring, n), 2)
<1>1. Len(ring) \in Nat /\ Len(ring) % 2 = 0
  BY Amounts
<1>2. (Len(ring) - n) % 2 = 0
  BY <1>1
<1>3. ring \in Seq(Lane) /\ Phased(ring, 2) /\ 2 \in {2, 4}
  BY Amounts
<1>4. Rest(ring, n) \in Seq(Lane) /\ Len(Rest(ring, n)) = Len(ring) - n
      /\ Phased(Rest(ring, n), 2)
  BY <1>3, RestPhased
<1>5. Front(ring, n) \in Seq(Lane) /\ Len(Front(ring, n)) = n /\ Phased(Front(ring, n), 2)
  BY <1>3, FrontPhased
<1> QED  BY <1>2, <1>4, <1>5

LEMMA InitInv == Init => IInv
<1> SUFFICES ASSUME Init
             PROVE  IInv
  OBVIOUS
<1>1. TypeOK
  <2>1. <<>> \in Seq(Lane)
    OBVIOUS
  <2> QED  BY <2>1 DEF Init, TypeOK, NotCalled, NoBuffer, NoProbe
<1>2. RingSafe /\ BufferAligned /\ TrimNeverStarves
  BY CapacityAssumption
     DEF Init, RingSafe, BufferAligned, TrimNeverStarves, NotCalled, NoBuffer
<1>3. Len(ring) % 2 = 0 /\ in.n % 2 = 0 /\ src.take % 2 = 0 /\ src.want % 2 = 0
  BY DEF Init, NotCalled
<1>4. WholeInv /\ ServeInv
  BY <1>3 DEF Init, WholeInv, ServeInv, Phased, NotCalled
<1> QED  BY <1>1, <1>2, <1>4 DEF IInv

LEMMA InPacketInv ==
  ASSUME IInv, NEW size \in InSizes, InPacket(size)
  PROVE  IInv'
<1>0. size \in Nat /\ size % 2 = 0
  BY CaptureAssumption
<1>a. Capacity \in Nat /\ Len(ring) \in Nat /\ Capacity % 2 = 0 /\ Len(ring) % 2 = 0
      /\ in.n \in Nat /\ Len(ring) + in.n =< Capacity
  BY Amounts
<1>1. Capacity - Len(ring) \in Nat /\ (Capacity - Len(ring)) % 2 = 0
  BY <1>a
<1>b. /\ Fits(ring, size) \in {size, Capacity - Len(ring)}
      /\ Fits(ring, size) =< size /\ Fits(ring, size) =< Capacity - Len(ring)
  BY <1>0, <1>1 DEF Fits, Smaller
<1>2. /\ Fits(ring, size) \in Nat
      /\ Len(ring) + Fits(ring, size) =< Capacity
      /\ Fits(ring, size) % 2 = 0 /\ Fits(ring, size) =< size
  <2>1. Fits(ring, size) \in Nat /\ Fits(ring, size) % 2 = 0
    BY <1>0, <1>1, <1>b
  <2>2. Len(ring) + Fits(ring, size) =< Capacity
    BY <1>a, <1>b, <2>1
  <2> QED  BY <1>b, <2>1, <2>2
<1>3. TypeOK'
  BY <1>0, <1>2 DEF IInv, TypeOK, InPacket
<1>4. RingSafe' /\ BufferAligned' /\ TrimNeverStarves'
  BY <1>2 DEF IInv, RingSafe, BufferAligned, TrimNeverStarves, InPacket
<1>5. WholeInv' /\ ServeInv'
  BY <1>2 DEF IInv, WholeInv, ServeInv, InPacket
<1> QED  BY <1>3, <1>4, <1>5 DEF IInv

LEMMA InCommitInv ==
  ASSUME IInv, InCommit
  PROVE  IInv'
<1>0. ring \in Seq(Lane) /\ in.n \in Nat /\ Len(ring) \in Nat /\ Len(ring) % 2 = 0
      /\ Phased(ring, 2) /\ 2 \in {2, 4}
  BY Amounts
<1>1. Pcm(in.n) \in Seq(Lane) /\ Len(Pcm(in.n)) = in.n /\ Phased(Pcm(in.n), 2)
  BY <1>0, PcmFacts
<1>2. /\ ring' \in Seq(Lane)
      /\ Len(ring') = Len(ring) + in.n
      /\ Phased(ring', 2)
  <2>1. \A t \in Seq(Lane) : Phased(t, 2) =>
          /\ Pushed(ring, t) \in Seq(Lane)
          /\ Len(Pushed(ring, t)) = Len(ring) + Len(t)
          /\ Phased(Pushed(ring, t), 2)
    BY <1>0, PushedPhased
  <2> QED  BY <1>1, <2>1 DEF InCommit
<1>3. Len(ring') % 2 = 0 /\ Len(ring') >= Len(ring) /\ Len(ring') =< Capacity
  <2>1. in.n % 2 = 0 /\ Len(ring) + in.n =< Capacity
    BY Amounts
  <2>2. (Len(ring) + in.n) % 2 = 0
    BY <1>0, <2>1
  <2> QED  BY <1>0, <1>2, <2>1, <2>2
<1>4. probe' \in [at : Nat, lag : Nat, lost : BOOLEAN]
  <2>0. /\ probe \in [at : Nat, lag : Nat, lost : BOOLEAN]
        /\ in.size \in Nat /\ in.n \in Nat /\ Capacity \in Nat /\ Len(ring') \in Nat
        /\ Len(ring) \in Nat
    BY <1>2, Amounts DEF IInv, TypeOK
  <2>1. CASE probe.at > 0
    <3>1. Smaller(probe.lag + in.size, 2 * Capacity) \in Nat
      BY <2>0 DEF Smaller
    <3>2. (probe.lost \/ in.n < in.size) \in BOOLEAN
      OBVIOUS
    <3>3. probe' = [probe EXCEPT !.lag = Smaller(@ + in.size, 2 * Capacity),
                                 !.lost = @ \/ in.n < in.size]
      BY <2>1 DEF InCommit, Behind, LagCap
    <3> QED  BY <2>0, <3>1, <3>2, <3>3
  <2>2. CASE ~(probe.at > 0)
    <3> DEFINE late == in.size - in.n
               cut  == in.n < in.size
    <3>1. probe' = probe \/ probe' = [at |-> Len(ring'), lag |-> late, lost |-> cut]
      BY <2>2 DEF InCommit
    <3>2. late \in Nat
      BY <2>0 DEF IInv, WholeInv
    <3>3. cut \in BOOLEAN
      OBVIOUS
    <3> HIDE DEF late, cut
    <3>4. [at |-> Len(ring'), lag |-> late, lost |-> cut]
            \in [at : Nat, lag : Nat, lost : BOOLEAN]
      BY <2>0, <3>2, <3>3
    <3> QED  BY <2>0, <3>1, <3>4
  <2> QED  BY <2>1, <2>2
<1>5. TypeOK'
  BY <1>2, <1>4 DEF IInv, TypeOK, InCommit
<1>6. RingSafe' /\ BufferAligned' /\ TrimNeverStarves'
  <2>1. src' = src /\ served' = served /\ in'.n = 0
    BY DEF InCommit
  <2>2. src.take \in Nat
    BY Amounts
  <2> QED  BY <1>0, <1>2, <1>3, <2>1, <2>2
           DEF IInv, RingSafe, BufferAligned, TrimNeverStarves
<1>7. WholeInv'
  <2>1. src' = src /\ in'.n = 0 /\ in'.size = 0 /\ 0 % 2 = 0
    BY DEF InCommit
  <2> QED  BY <1>2, <1>3, <2>1 DEF IInv, WholeInv
<1>8. ServeInv'
  <2>1. src' = src
    BY DEF InCommit
  <2>2. src.take \in Nat /\ src.want \in Nat /\ Low(src.want) \in Nat
    BY Amounts, MarkFacts
  <2>3. Len(ring') \in Nat
    BY <1>2
  <2>4. src.pc = "skip" => Len(ring') - src.take >= Low(src.want)
    BY <1>0, <1>3, <2>2, <2>3 DEF IInv, ServeInv
  <2>5. src.pc = "load" /\ src.had >= src.want => Len(ring') >= src.want
    BY <1>0, <1>3, <2>2, <2>3 DEF IInv, ServeInv
  <2>6. src.pc = "pop" /\ src.had >= src.want => src.take = src.want
    BY DEF IInv, ServeInv
  <2> QED  BY <2>1, <2>4, <2>5, <2>6 DEF ServeInv
<1> QED  BY <1>5, <1>6, <1>7, <1>8 DEF IInv

LEMMA SourceTrimInv ==
  ASSUME IInv, NEW r \in Requests, SourceTrim(r)
  PROVE  IInv'
<1> DEFINE want == Want(r)
           excess == Avail(ring) - Low(want)
<1>0. /\ want \in Nat /\ want % 2 = 0 /\ Low(want) \in Nat /\ High(want) \in Nat
      /\ Low(want) >= want /\ High(want) = 2 * Low(want)
      /\ Avail(ring) = Len(ring) /\ Len(ring) \in Nat /\ probe.lag \in Nat
  BY WantFacts, MarkFacts, Amounts DEF Avail, IInv, TypeOK
<1> HIDE DEF want
<1>1. CASE Avail(ring) > High(want)
  <2>a. excess \in Nat /\ Len(ring) - excess = Low(want)
    BY <1>0, <1>1
  <2>b. \A e \in Nat : e - (e % 2) \in Nat /\ (e - (e % 2)) % 2 = 0 /\ e - (e % 2) =< e
    OBVIOUS
  <2>1. /\ excess \in Nat
        /\ excess - (excess % 2) \in Nat /\ (excess - (excess % 2)) % 2 = 0
        /\ Len(ring) - (excess - (excess % 2)) >= Low(want)
    <3> HIDE DEF excess
    <3>1. /\ excess - (excess % 2) \in Nat /\ (excess - (excess % 2)) % 2 = 0
          /\ excess - (excess % 2) =< excess
      BY <2>a, <2>b
    <3>2. Len(ring) - (excess - (excess % 2)) >= Low(want)
      BY <1>0, <2>a, <3>1
    <3> QED  BY <2>a, <3>1, <3>2
  <2>2. src' = [pc |-> "skip", want |-> want, had |-> Avail(ring),
                take |-> excess - (excess % 2), lag |-> probe.lag]
    BY <1>1 DEF SourceTrim, want
  <2> HIDE DEF excess
  <2>3. TypeOK'
    <3>1. Avail(ring) \in Nat /\ <<>> \in Seq(Lane)
      BY <1>0
    <3>2. src' \in [pc : {Idle, "skip", "load", "pop"},
                    want : Nat, had : Nat, take : Nat, lag : Nat]
      BY <1>0, <2>1, <2>2, <3>1
    <3> QED  BY <3>1, <3>2 DEF IInv, TypeOK, SourceTrim, NoBuffer
  <2>4. RingSafe' /\ BufferAligned' /\ TrimNeverStarves'
    BY <2>2 DEF IInv, RingSafe, BufferAligned, TrimNeverStarves, SourceTrim, NoBuffer
  <2>5. ring' = ring /\ in' = in
    BY DEF SourceTrim
  <2>6. WholeInv'
    BY <1>0, <2>1, <2>2, <2>5 DEF IInv, WholeInv
  <2>7. ServeInv'
    BY <1>0, <2>1, <2>2, <2>5 DEF ServeInv
  <2> QED  BY <2>3, <2>4, <2>6, <2>7 DEF IInv
<1>2. CASE ~(Avail(ring) > High(want))
  <2>1. src' = [pc |-> "load", want |-> want, had |-> Avail(ring), take |-> 0,
                lag |-> probe.lag]
    BY <1>2 DEF SourceTrim, want
  <2>2. TypeOK'
    <3>1. Avail(ring) \in Nat /\ <<>> \in Seq(Lane)
      BY <1>0
    <3>2. src' \in [pc : {Idle, "skip", "load", "pop"},
                    want : Nat, had : Nat, take : Nat, lag : Nat]
      BY <1>0, <2>1, <3>1
    <3> QED  BY <3>1, <3>2 DEF IInv, TypeOK, SourceTrim, NoBuffer
  <2>3. RingSafe' /\ BufferAligned' /\ TrimNeverStarves'
    BY <2>1 DEF IInv, RingSafe, BufferAligned, TrimNeverStarves, SourceTrim, NoBuffer
  <2>4. 0 % 2 = 0
    OBVIOUS
  <2>5. WholeInv' /\ ServeInv'
    BY <1>0, <2>1, <2>4 DEF IInv, WholeInv, ServeInv, SourceTrim
  <2> QED  BY <2>2, <2>3, <2>5 DEF IInv
<1> QED  BY <1>1, <1>2

LEMMA SourceSkipInv ==
  ASSUME IInv, SourceSkip
  PROVE  IInv'
<1>0. /\ src.pc = "skip" /\ Len(ring) - src.take >= Low(src.want)
      /\ Low(src.want) \in Nat /\ Low(src.want) >= src.want
      /\ src.take \in Nat /\ src.take % 2 = 0 /\ src.want \in Nat /\ Len(ring) \in Nat
      /\ in.n \in Nat /\ Capacity \in Nat /\ Len(ring) + in.n =< Capacity
  BY Amounts, MarkFacts DEF IInv, ServeInv, SourceSkip
<1>1. Takes(ring, src.take) = src.take /\ src.take =< Len(ring)
  BY <1>0 DEF Takes, Smaller
<1>2. /\ ring' = Rest(ring, src.take) /\ probe' = Shifted(src.take)
      /\ in' = in /\ served' = served
      /\ src' = [src EXCEPT !.pc = "load", !.take = 0,
                            !.lag = IF probe.at > src.take THEN @ ELSE 0]
  BY <1>1 DEF SourceSkip
<1>3. /\ ring' \in Seq(Lane) /\ Len(ring') = Len(ring) - src.take
      /\ Len(ring') % 2 = 0 /\ Phased(ring', 2)
  BY <1>0, <1>1, <1>2, TakenFrom
<1>4. TypeOK'
  BY <1>0, <1>2, <1>3, ShiftedType DEF IInv, TypeOK
<1>5. RingSafe' /\ BufferAligned' /\ TrimNeverStarves'
  <2>0. src'.pc = "load"
    BY <1>2 DEF IInv, TypeOK
  <2>1. src'.pc = "load" /\ Len(ring') + in.n =< Capacity
    <3>1. Len(ring) - src.take + in.n =< Capacity
      BY <1>0
    <3> QED  BY <1>3, <2>0, <3>1
  <2> QED  BY <1>2, <2>1 DEF IInv, RingSafe, BufferAligned, TrimNeverStarves
<1>6. WholeInv' /\ ServeInv'
  <2>1. src'.pc = "load" /\ src'.take = 0 /\ src'.want = src.want /\ 0 % 2 = 0
    BY <1>2 DEF IInv, TypeOK
  <2>2. Len(ring') >= src.want
    BY <1>0, <1>3
  <2> QED  BY <1>2, <1>3, <2>1, <2>2 DEF IInv, WholeInv, ServeInv
<1> QED  BY <1>4, <1>5, <1>6 DEF IInv

LEMMA SourceLoadInv ==
  ASSUME IInv, SourceLoad
  PROVE  IInv'
<1>1. /\ Takes(ring, src.want) \in Nat
      /\ Takes(ring, src.want) =< Len(ring)
      /\ Takes(ring, src.want) % 2 = 0
      /\ Len(ring) >= src.want => Takes(ring, src.want) = src.want
  BY Amounts DEF Takes, Smaller
<1>2. /\ src' = [src EXCEPT !.pc = "pop", !.take = Takes(ring, src.want)]
      /\ src.pc = "load" /\ ring' = ring /\ in' = in /\ served' = served /\ probe' = probe
  BY DEF SourceLoad
<1>3. TypeOK'
  BY <1>1, <1>2 DEF IInv, TypeOK
<1>4. RingSafe' /\ BufferAligned' /\ TrimNeverStarves'
  BY <1>1, <1>2 DEF IInv, TypeOK, RingSafe, BufferAligned, TrimNeverStarves
<1>5. WholeInv' /\ ServeInv'
  BY <1>1, <1>2 DEF IInv, TypeOK, WholeInv, ServeInv
<1> QED  BY <1>3, <1>4, <1>5 DEF IInv

LEMMA SourcePopInv ==
  ASSUME IInv, SourcePop
  PROVE  IInv'
<1>0. /\ src.pc = "pop" /\ src.take =< Len(ring) /\ Len(ring) \in Nat
      /\ src.take \in Nat /\ src.take % 2 = 0 /\ src.want \in Nat /\ src.had \in Nat
      /\ in.n \in Nat /\ Capacity \in Nat /\ Len(ring) + in.n =< Capacity
  BY Amounts DEF IInv, RingSafe, SourcePop
<1>1. /\ ring' = Rest(ring, src.take) /\ probe' = Shifted(src.take)
      /\ in' = in /\ src' = NotCalled
      /\ served'.got = Front(ring, src.take)
      /\ served'.want = src.want /\ served'.had = src.had
  BY DEF SourcePop
<1>2. /\ ring' \in Seq(Lane) /\ Len(ring') = Len(ring) - src.take
      /\ Len(ring') % 2 = 0 /\ Phased(ring', 2)
      /\ served'.got \in Seq(Lane) /\ Len(served'.got) = src.take /\ Phased(served'.got, 2)
  BY <1>0, <1>1, TakenFrom
<1>3. served' \in [want : Nat, had : Nat, got : Seq(Lane), lag : Nat, lost : BOOLEAN]
  <2>1. Front(ring, src.take) \in Seq(Lane) /\ src.lag \in Nat /\ probe.lost \in BOOLEAN
    BY <1>1, <1>2, Amounts DEF IInv, TypeOK
  <2> QED  BY <1>0, <2>1 DEF SourcePop
<1>4. TypeOK'
  BY <1>0, <1>1, <1>2, <1>3, ShiftedType DEF IInv, TypeOK, NotCalled
<1>5. RingSafe'
  <2>1. Len(ring') + in.n =< Capacity
    <3>1. Len(ring) - src.take + in.n =< Capacity
      BY <1>0
    <3> QED  BY <1>2, <3>1
  <2> QED  BY <1>1, <2>1 DEF RingSafe, NotCalled
<1>6. BufferAligned'
  BY <1>2 DEF BufferAligned, Phased
<1>7. TrimNeverStarves'
  BY <1>0, <1>1, <1>2 DEF IInv, ServeInv, TrimNeverStarves
<1>8. WholeInv' /\ ServeInv'
  <2>1. 0 % 2 = 0
    OBVIOUS
  <2> QED  BY <1>1, <1>2, <2>1 DEF IInv, WholeInv, ServeInv, NotCalled
<1> QED  BY <1>4, <1>5, <1>6, <1>7, <1>8 DEF IInv

LEMMA StepInv == IInv /\ [Next]_vars => IInv'
<1> SUFFICES ASSUME IInv, [Next]_vars
             PROVE  IInv'
  OBVIOUS
<1>1. CASE \E n \in InSizes : InPacket(n)
  BY <1>1, InPacketInv
<1>2. CASE InCommit
  BY <1>2, InCommitInv
<1>3. CASE Source
  BY <1>3, SourceTrimInv, SourceSkipInv, SourceLoadInv, SourcePopInv DEF Source
<1>4. CASE UNCHANGED vars
  BY <1>4 DEF vars, IInv, TypeOK, RingSafe, BufferAligned, WholeInv, ServeInv,
              TrimNeverStarves
<1> QED  BY <1>1, <1>2, <1>3, <1>4 DEF Next

LEMMA Invariance == Spec => []IInv
BY InitInv, StepInv, PTL DEF Spec

\* Type correctness of the capture path.
THEOREM TypeCorrect == Spec => []TypeOK
<1>1. IInv => TypeOK  BY DEF IInv
<1> QED  BY Invariance, <1>1, PTL

\* Neither callback pushes more than there is room for or takes more than
\* there is, on whatever stale view of the ring it decided.
THEOREM RingIsSafe == Spec => []RingSafe
<1>1. IInv => RingSafe  BY DEF IInv
<1> QED  BY Invariance, <1>1, PTL

\* Every buffer a recorder gets starts on a sample.
THEOREM BuffersAreAligned == Spec => []BufferAligned
<1>1. IInv => BufferAligned  BY DEF IInv
<1> QED  BY Invariance, <1>1, PTL

\* The latency trim never turns a read that could be served into silence.
THEOREM TrimDoesNotStarve == Spec => []TrimNeverStarves
<1>1. IInv => TrimNeverStarves  BY DEF IInv
<1> QED  BY Invariance, <1>1, PTL

---------------------------------------------------------------------------
(* The age of a byte.  As long as nothing that arrived after the watched   *)
(* byte was dropped, its age is at most its distance from the ring's end,  *)
(* which is what the trim bounds.                                          *)

ProbeInv ==
  /\ probe.at =< Len(ring)
  /\ probe.at = 0 => probe = NoProbe /\ src.lag = 0
  /\ probe.at > 0 /\ ~probe.lost => probe.lag =< Len(ring) - probe.at

SourceAgeInv ==
  ~probe.lost =>
    /\ src.pc = "skip" /\ probe.at > src.take => src.lag =< High(src.want)
    /\ src.pc \in {"load", "pop"} => src.lag =< High(src.want)

AgeInv == ProbeInv /\ SourceAgeInv /\ ServedFreshUnlessLost

LEMMA Probed ==
  ASSUME IInv
  PROVE  probe.at \in Nat /\ probe.lag \in Nat /\ probe.lost \in BOOLEAN
BY DEF IInv, TypeOK

LEMMA InitAge == Init => AgeInv
<1>1. High(0) \in Nat
  BY MarkFacts
<1> QED
  BY <1>1 DEF Init, AgeInv, ProbeInv, SourceAgeInv, ServedFreshUnlessLost,
              ServedLagBounded, NotCalled, NoBuffer, NoProbe

LEMMA InCommitAge ==
  ASSUME IInv, AgeInv, InCommit
  PROVE  AgeInv'
<1>1. /\ Len(ring) \in Nat /\ in.n \in Nat /\ in.size \in Nat /\ in.n =< in.size
      /\ Capacity \in Nat /\ probe.at \in Nat /\ probe.lag \in Nat
      /\ src.want \in Nat /\ High(src.want) \in Nat
  BY Amounts, Probed, MarkFacts DEF IInv, WholeInv
<1>2. src' = src /\ served' = served
  BY DEF InCommit
<1>3. Len(ring') = Len(ring) + in.n
  <2>1. ring \in Seq(Lane) /\ Pcm(in.n) \in Seq(Lane) /\ Len(Pcm(in.n)) = in.n
    BY <1>1, Amounts, PcmFacts
  <2>2. ring' = ring \o Pcm(in.n)
    BY DEF InCommit, Pushed
  <2>3. \A t \in Seq(Lane) : Len(ring \o t) = Len(ring) + Len(t)
    BY <2>1
  <2> QED  BY <2>1, <2>2, <2>3
<1>4. CASE probe.at > 0
  <2>1. /\ probe'.at = probe.at
        /\ probe'.lag = Smaller(probe.lag + in.size, 2 * Capacity)
        /\ probe'.lost = (probe.lost \/ in.n < in.size)
    BY <1>4 DEF InCommit, Behind, LagCap, IInv, TypeOK
  <2>2. ~probe'.lost => ~probe.lost /\ in.n = in.size
    <3>1. ~(in.n < in.size) => in.n = in.size
      BY <1>1
    <3> QED  BY <2>1, <3>1, Zenon
  <2>3. probe'.lag =< probe.lag + in.size
    BY <1>1, <2>1 DEF Smaller
  <2>4. ProbeInv'
    <3>1. probe'.at =< Len(ring') /\ ~(probe'.at = 0)
      BY <1>1, <1>3, <1>4, <2>1 DEF AgeInv, ProbeInv
    <3>2. ASSUME ~probe'.lost
          PROVE  probe'.lag =< Len(ring') - probe'.at
      <4>1. probe.lag =< Len(ring) - probe.at
        BY <1>4, <2>2, <3>2 DEF AgeInv, ProbeInv
      <4>2. probe'.lag \in Nat
        BY <1>1, <2>1 DEF Smaller
      <4> QED  BY <1>1, <1>3, <2>1, <2>2, <2>3, <3>2, <4>1, <4>2
    <3> QED  BY <3>1, <3>2 DEF ProbeInv
  <2>5. SourceAgeInv'
    BY <1>2, <2>1, <2>2 DEF AgeInv, SourceAgeInv
  <2> QED  BY <1>2, <2>4, <2>5 DEF AgeInv, ServedFreshUnlessLost, ServedLagBounded
<1>5. CASE ~(probe.at > 0)
  <2>1. probe = NoProbe /\ src.lag = 0 /\ probe.at = 0
    BY <1>1, <1>5 DEF AgeInv, ProbeInv
  <2>2. \/ probe' = probe
        \/ /\ in.n > 0
           /\ probe' = [at |-> Len(ring'), lag |-> in.size - in.n, lost |-> in.n < in.size]
    BY <1>5 DEF InCommit
  <2>3. ProbeInv'
    <3>1. CASE probe' = probe
      BY <1>1, <1>2, <1>3, <2>1, <3>1 DEF ProbeInv
    <3>2. CASE /\ in.n > 0
               /\ probe' = [at |-> Len(ring'), lag |-> in.size - in.n,
                            lost |-> in.n < in.size]
      <4>1. probe'.at = Len(ring') /\ probe'.lag = in.size - in.n
        BY <3>2
      <4>2. probe'.lost = (in.n < in.size)
        BY <3>2, Zenon
      <4>3. ~(in.n < in.size) => in.size - in.n = 0
        BY <1>1
      <4>4. ~probe'.lost => probe'.lag = 0
        BY <4>1, <4>2, <4>3, Zenon
      <4> QED  BY <1>1, <1>3, <3>2, <4>1, <4>4 DEF ProbeInv
    <3> QED  BY <2>2, <3>1, <3>2
  <2>4. SourceAgeInv'
    BY <1>1, <1>2, <2>1 DEF SourceAgeInv
  <2> QED  BY <1>2, <2>3, <2>4 DEF AgeInv, ServedFreshUnlessLost, ServedLagBounded
<1> QED  BY <1>4, <1>5

LEMMA SourceTrimAge ==
  ASSUME IInv, AgeInv, NEW r \in Requests, SourceTrim(r)
  PROVE  AgeInv'
<1> DEFINE want == Want(r)
           excess == Len(ring) - Low(want)
<1>0. /\ want \in Nat /\ Low(want) \in Nat /\ High(want) = 2 * Low(want) /\ Low(want) >= 2
      /\ Avail(ring) = Len(ring) /\ Len(ring) \in Nat
      /\ probe.lag \in Nat /\ probe.at \in Nat
  BY WantFacts, MarkFacts, Amounts, Probed DEF Avail
<1>1. ring' = ring /\ probe' = probe /\ served' = NoBuffer
  BY DEF SourceTrim
<1>2. src'.lag = probe.lag /\ src'.want = want
  BY DEF SourceTrim
<1>3. ProbeInv'
  BY <1>1, <1>2 DEF AgeInv, ProbeInv, NoProbe
<1>4. ServedFreshUnlessLost'
  <2>1. High(0) \in Nat
    BY MarkFacts
  <2> QED  BY <1>1, <2>1 DEF ServedFreshUnlessLost, ServedLagBounded, NoBuffer
<1>5. SourceAgeInv'
  <2> HIDE DEF want
  <2> SUFFICES ASSUME ~probe.lost
               PROVE  /\ src'.pc = "skip" /\ probe.at > src'.take => src'.lag =< High(want)
                      /\ src'.pc \in {"load", "pop"} => src'.lag =< High(want)
    BY <1>1, <1>2 DEF SourceAgeInv
  <2>1. CASE probe.at = 0
    BY <1>0, <1>2, <2>1 DEF AgeInv, ProbeInv, NoProbe
  <2>2. CASE probe.at > 0
    <3>1. probe.lag =< Len(ring) - probe.at
      BY <2>2 DEF AgeInv, ProbeInv
    <3>2. CASE Len(ring) > High(want)
      <4>1. src'.pc = "skip" /\ src'.take = excess - (excess % 2)
        BY <1>0, <3>2 DEF SourceTrim, want
      <4>2. excess \in Nat /\ Len(ring) - excess = Low(want)
        BY <1>0, <3>2
      <4>3. excess - (excess % 2) \in Nat /\ excess - (excess % 2) >= excess - 1
        <5> HIDE DEF excess
        <5> QED  BY <4>2
      <4>4. src'.take \in Nat /\ src'.take >= excess - 1
        BY <4>1, <4>3
      <4>5. ASSUME probe.at > src'.take
            PROVE  probe.lag =< High(want)
        <5> HIDE DEF excess
        <5> QED  BY <1>0, <3>1, <4>2, <4>4, <4>5
      <4> QED  BY <1>2, <4>1, <4>5
    <3>3. CASE ~(Len(ring) > High(want))
      BY <1>0, <1>2, <2>2, <3>1, <3>3 DEF SourceTrim, want
    <3> QED  BY <3>2, <3>3
  <2> QED  BY <1>0, <2>1, <2>2
<1> QED  BY <1>3, <1>4, <1>5 DEF AgeInv

\* The watched byte after n older ones went.
LEMMA ShiftedFacts ==
  ASSUME IInv, NEW n \in Nat
  PROVE  /\ probe.at > n => /\ Shifted(n).at = probe.at - n
                            /\ Shifted(n).lag = probe.lag
                            /\ Shifted(n).lost = probe.lost
         /\ ~(probe.at > n) => Shifted(n) = NoProbe
BY DEF Shifted, IInv, TypeOK

LEMMA SourceSkipAge ==
  ASSUME IInv, AgeInv, SourceSkip
  PROVE  AgeInv'
<1>0. /\ src.pc = "skip" /\ Len(ring) - src.take >= Low(src.want)
      /\ Low(src.want) \in Nat /\ High(src.want) \in Nat
      /\ src.take \in Nat /\ src.want \in Nat /\ src.lag \in Nat /\ Len(ring) \in Nat
      /\ probe.at \in Nat /\ probe.lag \in Nat /\ src.take % 2 = 0
  BY Amounts, MarkFacts, Probed DEF IInv, ServeInv, SourceSkip
<1>1. Takes(ring, src.take) = src.take /\ src.take =< Len(ring)
  BY <1>0 DEF Takes, Smaller
<1>2. /\ ring' = Rest(ring, src.take) /\ probe' = Shifted(src.take) /\ served' = served
      /\ src'.pc = "load" /\ src'.want = src.want
      /\ src'.lag = IF probe.at > src.take THEN src.lag ELSE 0
  BY <1>1 DEF SourceSkip, IInv, TypeOK
<1>3. Len(ring') = Len(ring) - src.take
  BY <1>0, <1>1, <1>2, TakenFrom
<1>4. ServedFreshUnlessLost'
  BY <1>2 DEF AgeInv, ServedFreshUnlessLost, ServedLagBounded
<1>5. CASE probe.at > src.take
  <2>1. probe'.at = probe.at - src.take /\ probe'.lag = probe.lag /\ probe'.lost = probe.lost
    BY <1>0, <1>2, <1>5, ShiftedFacts
  <2>2. ProbeInv'
    BY <1>0, <1>3, <1>5, <2>1 DEF AgeInv, ProbeInv
  <2>3. SourceAgeInv'
    BY <1>0, <1>2, <1>5, <2>1 DEF AgeInv, SourceAgeInv
  <2> QED  BY <1>4, <2>2, <2>3 DEF AgeInv
<1>6. CASE ~(probe.at > src.take)
  <2>1. probe' = NoProbe /\ src'.lag = 0
    BY <1>0, <1>2, <1>6, ShiftedFacts
  <2>2. ProbeInv'
    BY <1>0, <1>1, <1>3, <2>1 DEF ProbeInv, NoProbe
  <2>3. SourceAgeInv'
    BY <1>0, <1>2, <2>1 DEF SourceAgeInv
  <2> QED  BY <1>4, <2>2, <2>3 DEF AgeInv
<1> QED  BY <1>5, <1>6

LEMMA SourceLoadAge ==
  ASSUME IInv, AgeInv, SourceLoad
  PROVE  AgeInv'
<1>1. /\ src.pc = "load" /\ src'.pc = "pop" /\ src'.want = src.want /\ src'.lag = src.lag
      /\ ring' = ring /\ served' = served /\ probe' = probe
  BY DEF SourceLoad, IInv, TypeOK
<1> QED
  BY <1>1 DEF AgeInv, ProbeInv, SourceAgeInv, ServedFreshUnlessLost, ServedLagBounded

LEMMA SourcePopAge ==
  ASSUME IInv, AgeInv, SourcePop
  PROVE  AgeInv'
<1>0. /\ src.pc = "pop" /\ src.take =< Len(ring) /\ src.take \in Nat /\ src.take % 2 = 0
      /\ Len(ring) \in Nat /\ src.want \in Nat /\ High(src.want) \in Nat
      /\ probe.at \in Nat /\ probe.lag \in Nat
  BY Amounts, MarkFacts, Probed DEF IInv, RingSafe, SourcePop
<1> DEFINE watched == probe.at \in 1 .. src.take
<1>1. /\ ring' = Rest(ring, src.take) /\ probe' = Shifted(src.take) /\ src' = NotCalled
      /\ served'.want = src.want
      /\ served'.lag = IF watched THEN src.lag ELSE 0
      /\ served'.lost = (watched /\ probe.lost)
  BY DEF SourcePop
<1>2. Len(ring') = Len(ring) - src.take
  BY <1>0, <1>1, TakenFrom
<1>3. ServedFreshUnlessLost'
  <2>1. ASSUME ~served'.lost
        PROVE  served'.lag =< High(src.want)
    <3>1. CASE watched
      <4>1. ~probe.lost
        BY <1>1, <2>1, <3>1
      <4> QED  BY <1>0, <1>1, <3>1, <4>1 DEF AgeInv, SourceAgeInv
    <3>2. CASE ~watched
      BY <1>0, <1>1, <3>2
    <3> QED  BY <3>1, <3>2
  <2> QED  BY <1>1, <2>1 DEF ServedFreshUnlessLost, ServedLagBounded
<1>4. SourceAgeInv'
  BY <1>1 DEF SourceAgeInv, NotCalled
<1>5. ProbeInv'
  <2>1. src'.lag = 0
    BY <1>1 DEF NotCalled
  <2>2. CASE probe.at > src.take
    <3>1. probe'.at = probe.at - src.take /\ probe'.lag = probe.lag
          /\ probe'.lost = probe.lost
      BY <1>0, <1>1, <2>2, ShiftedFacts
    <3> QED  BY <1>0, <1>2, <2>2, <3>1 DEF AgeInv, ProbeInv
  <2>3. CASE ~(probe.at > src.take)
    <3>1. probe' = NoProbe
      BY <1>0, <1>1, <2>3, ShiftedFacts
    <3> QED  BY <1>0, <1>2, <2>1, <3>1 DEF ProbeInv, NoProbe
  <2> QED  BY <2>2, <2>3
<1> QED  BY <1>3, <1>4, <1>5 DEF AgeInv

LEMMA StepAge == IInv /\ AgeInv /\ [Next]_vars => AgeInv'
<1> SUFFICES ASSUME IInv, AgeInv, [Next]_vars
             PROVE  AgeInv'
  OBVIOUS
<1>1. CASE \E n \in InSizes : InPacket(n)
  BY <1>1 DEF InPacket, AgeInv, ProbeInv, SourceAgeInv, ServedFreshUnlessLost,
              ServedLagBounded
<1>2. CASE InCommit
  BY <1>2, InCommitAge
<1>3. CASE Source
  BY <1>3, SourceTrimAge, SourceSkipAge, SourceLoadAge, SourcePopAge DEF Source
<1>4. CASE UNCHANGED vars
  BY <1>4 DEF vars, AgeInv, ProbeInv, SourceAgeInv, ServedFreshUnlessLost,
              ServedLagBounded
<1> QED  BY <1>1, <1>2, <1>3, <1>4 DEF Next

\* What a recorder hears is never older than the trim mark, as long as the
\* ring did not overflow behind it (the overflow case is refuted by a run).
THEOREM ServedIsFresh == Spec => []ServedFreshUnlessLost
<1>1. AgeInv => ServedFreshUnlessLost  BY DEF AgeInv
<1> QED  BY InitAge, Invariance, StepAge, <1>1, PTL DEF Spec
===========================================================================
