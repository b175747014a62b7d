---------------------------- MODULE RingProofs ----------------------------
(***************************************************************************)
(* Facts about the operators of Ring, and about rings whose bytes keep     *)
(* their lane (their place in a stereo frame of 4 bytes or a sample of 2). *)
(***************************************************************************)
EXTENDS Ring, Integers, TLAPS

\* Byte j of s is byte (j - 1) % F of its frame: s starts on a frame and
\* runs on without a slip.
Phased(s, F) == \A j \in 1 .. Len(s) : s[j] = (j - 1) % F

LEMMA SmallerFacts ==
  ASSUME NEW a \in Nat, NEW b \in Nat
  PROVE  /\ Smaller(a, b) \in Nat
         /\ Smaller(a, b) =< a /\ Smaller(a, b) =< b
         /\ Smaller(a, b) \in {a, b}
BY DEF Smaller

LEMMA LargerFacts ==
  ASSUME NEW a \in Nat, NEW b \in Nat
  PROVE  /\ Larger(a, b) \in Nat
         /\ Larger(a, b) >= a /\ Larger(a, b) >= b
BY DEF Larger

\* Whole frames stay whole under sum and difference.
LEMMA WholeFrames ==
  ASSUME NEW F \in {2, 4}, NEW a \in Nat, NEW b \in Nat, a % F = 0, b % F = 0
  PROVE  /\ (a + b) % F = 0
         /\ b =< a => (a - b) % F = 0
<1>1. CASE F = 2  BY <1>1
<1>2. CASE F = 4  BY <1>2
<1> QED  BY <1>1, <1>2

\* Shifting a position by whole frames keeps its lane.
LEMMA LaneShift ==
  ASSUME NEW F \in {2, 4}, NEW n \in Nat, n % F = 0, NEW j \in Nat
  PROVE  (j + n) % F = j % F
<1>1. CASE F = 2  BY <1>1
<1>2. CASE F = 4  BY <1>2
<1> QED  BY <1>1, <1>2

\* What ring::write commits, appended to whole frames.
LEMMA PushedPhased ==
  ASSUME NEW S, NEW F \in {2, 4}, NEW s \in Seq(S), NEW t \in Seq(S),
         Len(s) % F = 0, Phased(s, F), Phased(t, F)
  PROVE  /\ Pushed(s, t) \in Seq(S)
         /\ Len(Pushed(s, t)) = Len(s) + Len(t)
         /\ Phased(Pushed(s, t), F)
<1>1. Pushed(s, t) \in Seq(S) /\ Len(Pushed(s, t)) = Len(s) + Len(t)
  BY DEF Pushed
<1>2. ASSUME NEW j \in 1 .. Len(Pushed(s, t))
      PROVE  Pushed(s, t)[j] = (j - 1) % F
  <2>1. CASE j =< Len(s)
    BY <2>1, <1>1 DEF Pushed, Phased
  <2>2. CASE j > Len(s)
    <3>1. j - Len(s) \in 1 .. Len(t) /\ Pushed(s, t)[j] = t[j - Len(s)]
      BY <2>2, <1>1 DEF Pushed
    <3>2. t[j - Len(s)] = (j - Len(s) - 1) % F
      BY <3>1 DEF Phased
    <3>3. /\ j - Len(s) - 1 \in Nat /\ Len(s) \in Nat
          /\ (j - Len(s) - 1) + Len(s) = j - 1
      BY <3>1
    <3>4. ((j - Len(s) - 1) + Len(s)) % F = (j - Len(s) - 1) % F
      BY ONLY <3>3, LaneShift, F \in {2, 4}, Len(s) % F = 0
    <3> QED  BY <3>1, <3>2, <3>3, <3>4
  <2> QED  BY <2>1, <2>2
<1> QED  BY <1>1, <1>2 DEF Phased

\* What a read hands over.
LEMMA FrontPhased ==
  ASSUME NEW S, NEW F \in {2, 4}, NEW s \in Seq(S), NEW n \in Nat, n =< Len(s),
         Phased(s, F)
  PROVE  /\ Front(s, n) \in Seq(S)
         /\ Len(Front(s, n)) = n
         /\ Phased(Front(s, n), F)
BY DEF Front, Phased

\* What a read or a skip of whole frames leaves.
LEMMA RestPhased ==
  ASSUME NEW S, NEW F \in {2, 4}, NEW s \in Seq(S), NEW n \in Nat, n =< Len(s),
         n % F = 0, Phased(s, F)
  PROVE  /\ Rest(s, n) \in Seq(S)
         /\ Len(Rest(s, n)) = Len(s) - n
         /\ Phased(Rest(s, n), F)
<1>1. Rest(s, n) \in Seq(S) /\ Len(Rest(s, n)) = Len(s) - n
  BY DEF Rest
<1>2. ASSUME NEW j \in 1 .. Len(Rest(s, n))
      PROVE  Rest(s, n)[j] = (j - 1) % F
  <2>1. Rest(s, n)[j] = s[j + n] /\ j + n \in 1 .. Len(s)
    BY <1>1 DEF Rest
  <2>2. s[j + n] = (j + n - 1) % F
    BY <2>1 DEF Phased
  <2>3. ((j - 1) + n) % F = (j - 1) % F
    BY LaneShift
  <2> QED  BY <2>1, <2>2, <2>3
<1> QED  BY <1>1, <1>2 DEF Phased
===========================================================================
