--------------------------- MODULE PyDriverProofs ---------------------------
(***************************************************************************)
(* The driver of tools/gip_init.py, for every length of the device's       *)
(* answers, every number of failures and every limit of the sequence       *)
(* numbers: the device reads each header as it was meant; the handshake    *)
(* takes each answer for the answer it is, whole, and reports success only *)
(* when both ends have hashed the same; the gamepad is left alone once     *)
(* main closed it.                                                         *)
(***************************************************************************)
EXTENDS PyDriver, WellFoundedInduction, TLAPS

---------------------------------------------------------------------------
(* Induction, from the well-foundedness of the order of the numbers. *)

\* A set that holds each number whose predecessors it holds is all of Nat.
LEMMA StrongInduction ==
  ASSUME NEW T \in SUBSET Nat, \A n \in Nat : (\A k \in 0 .. n - 1 : k \in T) => n \in T
  PROVE  T = Nat
<1> DEFINE R == OpToRel(<, Nat)
<1> SUFFICES ASSUME Nat \ T # {}
             PROVE  FALSE
  OBVIOUS
<1>1. PICK n \in Nat \ T : \A k \in Nat \ T : <<k, n>> \notin R
  <2>1. IsWellFoundedOn(R, Nat)
    BY NatLessThanWellFounded
  <2> HIDE DEF R
  <2> QED  BY <2>1, WFMin
<1>2. \A k \in Nat \ T : ~(k < n)
  BY <1>1 DEF OpToRel
<1>3. \A k \in 0 .. n - 1 : k \in T
  BY <1>2
<1> QED  BY <1>3

\* The same with one predecessor.
LEMMA SetInduction ==
  ASSUME NEW T \in SUBSET Nat, 0 \in T, \A n \in T : n + 1 \in T
  PROVE  T = Nat
<1>1. ASSUME NEW n \in Nat, \A k \in 0 .. n - 1 : k \in T
      PROVE  n \in T
  <2>1. CASE n = 0
    BY <2>1
  <2>2. CASE n # 0
    <3>1. n - 1 \in T /\ (n - 1) + 1 = n
      BY <1>1, <2>2
    <3> QED  BY <3>1
  <2> QED  BY <2>1, <2>2
<1> QED  BY <1>1, StrongInduction

---------------------------------------------------------------------------
(* encode_varint. *)

Encoded(f, k) == IF k < 128 THEN <<k>> ELSE <<(k % 128) + 128>> \o f[k \div 128]

\* A function that encodes the numbers up to n.
Encodes(n, f) == f = [k \in 0 .. n |-> Encoded(f, k)]

\* The rest of a number is smaller, and the number is made of the rest and its last digit.
LEMMA Quotient ==
  ASSUME NEW k \in Nat, k >= 128
  PROVE  k \div 128 \in 0 .. k - 1 /\ k = 128 * (k \div 128) + (k % 128) /\ k % 128 \in 0 .. 127
<1>1. k \div 128 \in Int /\ k % 128 \in 0 .. 127 /\ k = 128 * (k \div 128) + (k % 128)
  OBVIOUS
<1> QED  BY <1>1

\* The recursive definition of EncodeVarint defines a function on each 0 .. n ...
LEMMA EncodesExists ==
  ASSUME NEW n \in Nat
  PROVE  \E f : Encodes(n, f)
<1> DEFINE T == {k \in Nat : \E f : Encodes(k, f)}
<1>1. 0 \in T
  <2> DEFINE f == [k \in 0 .. 0 |-> <<0>>]
  <2>1. f = [k \in 0 .. 0 |-> Encoded(f, k)]
    BY DEF Encoded
  <2> HIDE DEF f
  <2>2. Encodes(0, f)
    BY <2>1 DEF Encodes
  <2> QED  BY <2>2
<1>2. ASSUME NEW k \in T
      PROVE  k + 1 \in T
  <2>1. PICK f : Encodes(k, f)
    OBVIOUS
  <2> DEFINE g == [j \in 0 .. k + 1 |-> IF j = k + 1 THEN Encoded(f, j) ELSE f[j]]
  <2>2. ASSUME NEW j \in 0 .. k + 1
        PROVE  g[j] = Encoded(g, j)
    <3>1. g[j] = Encoded(f, j)
      <4>1. j # k + 1 => j \in 0 .. k /\ f[j] = Encoded(f, j)
        BY <2>1 DEF Encodes
      <4> QED  BY <4>1
    <3>2. j >= 128 => g[j \div 128] = f[j \div 128]
      <4> SUFFICES ASSUME j >= 128
                   PROVE  g[j \div 128] = f[j \div 128]
        OBVIOUS
      <4>1. j \div 128 \in 0 .. j - 1
        BY Quotient
      <4> QED  BY <4>1
    <3> HIDE DEF g
    <3> QED  BY <3>1, <3>2 DEF Encoded
  <2>3. Encodes(k + 1, g)
    <3>1. g = [j \in 0 .. k + 1 |-> g[j]]
      OBVIOUS
    <3> HIDE DEF g
    <3> QED  BY <2>2, <3>1 DEF Encodes
  <2> HIDE DEF g
  <2> QED  BY <2>3
<1> HIDE DEF T
<1>3. T = Nat
  <2>1. T \in SUBSET Nat
    BY DEF T
  <2> QED  BY <1>1, <1>2, <2>1, SetInduction
<1> QED  BY <1>3 DEF T

\* ... and only one.
LEMMA EncodesUnique ==
  ASSUME NEW n \in Nat, NEW m \in Nat, NEW f, Encodes(n, f), NEW g, Encodes(m, g)
  PROVE  \A k \in Nat : k <= n /\ k <= m => f[k] = g[k]
<1> DEFINE T == {k \in Nat : k <= n /\ k <= m => f[k] = g[k]}
<1>1. ASSUME NEW k \in Nat, \A j \in 0 .. k - 1 : j \in T
      PROVE  k \in T
  <2> SUFFICES ASSUME k <= n, k <= m
               PROVE  f[k] = g[k]
    OBVIOUS
  <2>1. f[k] = Encoded(f, k) /\ g[k] = Encoded(g, k)
    <3>1. k \in 0 .. n /\ k \in 0 .. m
      OBVIOUS
    <3> QED  BY <3>1 DEF Encodes
  <2>2. CASE k < 128
    BY <2>1, <2>2 DEF Encoded
  <2>3. CASE k >= 128
    <3>1. k \div 128 \in 0 .. k - 1
      BY <2>3, Quotient
    <3>2. f[k \div 128] = g[k \div 128]
      BY <1>1, <3>1
    <3> QED  BY <2>1, <2>3, <3>2 DEF Encoded
  <2> QED  BY <2>2, <2>3
<1> HIDE DEF T
<1>2. T = Nat
  <2>1. T \in SUBSET Nat
    BY DEF T
  <2> QED  BY <1>1, <2>1, StrongInduction
<1> QED  BY <1>2 DEF T

\* The recursion of encode_varint, with nothing said of how far it goes.
LEMMA EncodeVarintIs ==
  ASSUME NEW v \in Nat
  PROVE  EncodeVarint(v) = IF v < 128 THEN <<v>>
                           ELSE <<(v % 128) + 128>> \o EncodeVarint(v \div 128)
<1> DEFINE g(n) == CHOOSE f : Encodes(n, f)
<1>1. ASSUME NEW n \in Nat
      PROVE  EncodeVarint(n) = g(n)[n] /\ Encodes(n, g(n))
  <2>1. Encodes(n, g(n))
    BY EncodesExists
  <2>2. EncodeVarint(n) = g(n)[n]
    BY DEF EncodeVarint, Encodes, Encoded
  <2> QED  BY <2>1, <2>2
<1> HIDE DEF g
<1>2. EncodeVarint(v) = IF v < 128 THEN <<v>> ELSE <<(v % 128) + 128>> \o g(v)[v \div 128]
  <2>1. g(v)[v] = Encoded(g(v), v)
    BY <1>1 DEF Encodes
  <2> QED  BY <1>1, <2>1 DEF Encoded
<1>3. CASE v >= 128
  <2>1. v \div 128 \in 0 .. v - 1
    BY <1>3, Quotient
  <2>2. PICK w \in Nat : w = v \div 128 /\ w <= v
    BY <2>1
  <2>3. g(v)[w] = g(w)[w]
    BY <1>1, <2>2, EncodesUnique
  <2> QED  BY <1>1, <1>2, <2>2, <2>3
<1> QED  BY <1>2, <1>3

\* Bytes that end where the continuation bit is missing.
Ends(b) == b \in Seq(Nat) /\ b # <<>> /\ b[Len(b)] < 128

\* A byte before bytes that end a varint.
LEMMA EndsAfter ==
  ASSUME NEW b, Ends(b), NEW n \in Nat
  PROVE  /\ Ends(<<n>> \o b) /\ Len(<<n>> \o b) = Len(b) + 1 /\ Len(b) \in Nat \ {0}
         /\ (<<n>> \o b)[1] = n /\ \A k \in 1 .. Len(b) : (<<n>> \o b)[k + 1] = b[k]
<1> DEFINE c == <<n>> \o b
<1>1. b \in Seq(Nat) /\ b # <<>> /\ b[Len(b)] < 128
  BY DEF Ends
<1>2. Len(b) \in Nat \ {0}
  BY <1>1
<1>3. c \in Seq(Nat) /\ Len(c) = Len(b) + 1 /\ c[1] = n /\ \A k \in 1 .. Len(b) : c[k + 1] = b[k]
  BY <1>1
<1> HIDE DEF c
<1>4. c[Len(c)] < 128 /\ c # <<>>
  <2>1. Len(b) \in 1 .. Len(b) /\ c[Len(b) + 1] = b[Len(b)]
    BY <1>2, <1>3
  <2>2. Len(c) # 0
    BY <1>2, <1>3
  <2> QED  BY <1>1, <1>3, <2>1, <2>2
<1>5. Ends(c)
  BY <1>3, <1>4 DEF Ends
<1> QED  BY <1>2, <1>3, <1>5 DEF c

\* The last byte of an encoded number, and no other, has no continuation bit.
LEMMA EncodedEnds ==
  ASSUME NEW v \in Nat
  PROVE  Ends(EncodeVarint(v))
<1> DEFINE T == {k \in Nat : Ends(EncodeVarint(k))}
<1>1. ASSUME NEW k \in Nat, \A j \in 0 .. k - 1 : j \in T
      PROVE  k \in T
  <2>1. CASE k < 128
    <3>1. EncodeVarint(k) = <<k>>
      BY <2>1, EncodeVarintIs
    <3>2. Ends(<<k>>)
      BY <2>1 DEF Ends
    <3> QED  BY <3>1, <3>2
  <2>2. CASE k >= 128
    <3>1. PICK w \in Nat : w = k \div 128 /\ w \in 0 .. k - 1
      BY <2>2, Quotient
    <3>2. PICK r \in Nat : r = (k % 128) + 128
      BY <2>2, Quotient
    <3>3. EncodeVarint(k) = <<r>> \o EncodeVarint(w)
      BY <2>2, <3>1, <3>2, EncodeVarintIs
    <3>4. Ends(EncodeVarint(w))
      BY <1>1, <3>1
    <3>5. Ends(<<r>> \o EncodeVarint(w))
      BY <3>4, EndsAfter
    <3> QED  BY <3>3, <3>5
  <2> QED  BY <2>1, <2>2
<1> HIDE DEF T
<1>2. T = Nat
  <2>1. T \in SUBSET Nat
    BY DEF T
  <2> QED  BY <1>1, <2>1, StrongInduction
<1> QED  BY <1>2 DEF T

---------------------------------------------------------------------------
(* decode_gip_header's loop. *)

\* What the loop makes of position i, when f is what it makes of the rest.
Stepped(s, f, i) ==
  IF i > Len(s) THEN [v |-> 0, next |-> i]
  ELSE IF s[i] < 128 THEN [v |-> s[i], next |-> i + 1]
  ELSE [v |-> (s[i] % 128) + 128 * f[i + 1].v, next |-> f[i + 1].next]

\* A function that reads from any of the last n positions, the end included.
ReadsFrom(s, n, f) == f = [i \in Len(s) + 1 - n .. Len(s) + 1 |-> Stepped(s, f, i)]

\* The recursive definition of ReadVarint has a solution on the end of s, of any length.
LEMMA ReadsExists ==
  ASSUME NEW s, Len(s) \in Nat, NEW n \in Nat
  PROVE  \E f : ReadsFrom(s, n, f)
<1> DEFINE T == {k \in Nat : \E f : ReadsFrom(s, k, f)}
           m == Len(s) + 1
<1>1. 0 \in T
  <2> DEFINE f == [i \in m .. m |-> [v |-> 0, next |-> i]]
  <2>1. f = [i \in m .. m |-> Stepped(s, f, i)]
    BY DEF Stepped
  <2>2. m = m - 0
    OBVIOUS
  <2> HIDE DEF f
  <2>3. ReadsFrom(s, 0, f)
    BY <2>1, <2>2 DEF ReadsFrom
  <2> QED  BY <2>3
<1>2. ASSUME NEW k \in T
      PROVE  k + 1 \in T
  <2>1. PICK f : ReadsFrom(s, k, f)
    OBVIOUS
  <2> DEFINE a == m - k
             g == [i \in a - 1 .. m |-> IF i = a - 1 THEN Stepped(s, f, i) ELSE f[i]]
  <2>2. ASSUME NEW i \in a - 1 .. m
        PROVE  g[i] = Stepped(s, g, i)
    <3>1. g[i] = Stepped(s, f, i)
      <4>1. i # a - 1 => i \in a .. m
        OBVIOUS
      <4>2. i # a - 1 => f[i] = Stepped(s, f, i)
        BY <2>1, <4>1 DEF ReadsFrom
      <4> QED  BY <4>2
    <3>2. i <= Len(s) => g[i + 1] = f[i + 1]
      OBVIOUS
    <3> HIDE DEF g
    <3> QED  BY <3>1, <3>2 DEF Stepped
  <2>3. ReadsFrom(s, k + 1, g)
    <3>1. g = [i \in a - 1 .. m |-> g[i]] /\ a - 1 = m - (k + 1)
      OBVIOUS
    <3> HIDE DEF g
    <3> QED  BY <2>2, <3>1 DEF ReadsFrom
  <2> HIDE DEF g
  <2> QED  BY <2>3
<1> HIDE DEF T
<1>3. T = Nat
  <2>1. T \in SUBSET Nat
    BY DEF T
  <2> QED  BY <1>1, <1>2, <2>1, SetInduction
<1> QED  BY <1>3 DEF T

\* What ReadVarint returns, as the recursion of the loop in decode_gip_header.
LEMMA ReadVarintIs ==
  ASSUME NEW s, Len(s) \in Nat, NEW i \in 1 .. Len(s)
  PROVE  ReadVarint(s, i) =
           IF s[i] < 128 THEN [v |-> s[i], next |-> i + 1]
           ELSE [v |-> (s[i] % 128) + 128 * ReadVarint(s, i + 1).v,
                 next |-> ReadVarint(s, i + 1).next]
<1> DEFINE g == CHOOSE f : f = [j \in 1 .. Len(s) + 1 |-> Stepped(s, f, j)]
<1>1. g = [j \in 1 .. Len(s) + 1 |-> Stepped(s, g, j)]
  <2>1. \E f : ReadsFrom(s, Len(s), f)
    BY ReadsExists
  <2>2. Len(s) + 1 - Len(s) = 1
    OBVIOUS
  <2> QED  BY <2>1, <2>2 DEF ReadsFrom
<1>2. \A j : ReadVarint(s, j) = g[j]
  BY DEF ReadVarint, Stepped
<1> HIDE DEF g
<1>3. g[i] = Stepped(s, g, i)
  BY <1>1
<1> QED  BY <1>2, <1>3 DEF Stepped

---------------------------------------------------------------------------
(* What is written is read back. *)

\* b stands in s from position i on.
Stands(s, i, b) == \A k \in 1 .. Len(b) : s[(i - 1) + k] = b[k]

\* The reader finds the number that was encoded, and stops behind it.
LEMMA ReadEncoded ==
  ASSUME NEW s, Len(s) \in Nat, NEW v \in Nat, NEW i \in Nat \ {0},
         Stands(s, i, EncodeVarint(v)), i + Len(EncodeVarint(v)) <= Len(s) + 1
  PROVE  ReadVarint(s, i) = [v |-> v, next |-> i + Len(EncodeVarint(v))]
<1> DEFINE Fits(k, j) == Stands(s, j, EncodeVarint(k)) /\ j + Len(EncodeVarint(k)) <= Len(s) + 1
           Read(k, j) == ReadVarint(s, j) = [v |-> k, next |-> j + Len(EncodeVarint(k))]
           T == {k \in Nat : \A j \in Nat \ {0} : Fits(k, j) => Read(k, j)}
<1>1. ASSUME NEW k \in Nat, \A n \in 0 .. k - 1 : n \in T
      PROVE  k \in T
  <2> SUFFICES ASSUME NEW j \in Nat \ {0}, Fits(k, j)
               PROVE  Read(k, j)
    OBVIOUS
  <2>1. CASE k < 128
    <3>1. EncodeVarint(k) = <<k>>
      BY <2>1, EncodeVarintIs
    <3>2. Len(<<k>>) = 1 /\ <<k>>[1] = k
      OBVIOUS
    <3>3. j \in 1 .. Len(s) /\ s[(j - 1) + 1] = k /\ (j - 1) + 1 = j
      BY <3>1, <3>2 DEF Stands
    <3> QED  BY <2>1, <3>1, <3>2, <3>3, ReadVarintIs
  <2>2. CASE k >= 128
    <3>1. PICK w \in Nat : w = k \div 128 /\ w \in 0 .. k - 1 /\ k = 128 * w + (k % 128)
      BY <2>2, Quotient
    <3>2. PICK r \in Nat : r = (k % 128) + 128
      BY <2>2, Quotient
    <3>3. r >= 128 /\ (r % 128) + 128 * w = k
      BY <2>2, <3>1, <3>2, Quotient
    <3> DEFINE b == EncodeVarint(w)
               c == <<r>> \o b
    <3>4. EncodeVarint(k) = c
      <4>1. EncodeVarint(k) = <<(k % 128) + 128>> \o EncodeVarint(k \div 128)
        <5>1. ~(k < 128)
          BY <2>2
        <5> QED  BY <5>1, EncodeVarintIs
      <4> QED  BY <3>1, <3>2, <4>1
    <3>5. /\ Len(c) = Len(b) + 1 /\ Len(b) \in Nat \ {0} /\ c[1] = r
          /\ \A n \in 1 .. Len(b) : c[n + 1] = b[n]
      <4>1. Ends(b)
        BY EncodedEnds
      <4> HIDE DEF b
      <4> QED  BY <4>1, EndsAfter
    <3>6. Stands(s, j, c) /\ j + Len(c) <= Len(s) + 1
      BY <3>4
    <3>7. w \in T
      BY <1>1, <3>1
    <3> HIDE DEF c
    <3>8. Stands(s, j + 1, b)
      <4> SUFFICES ASSUME NEW n \in 1 .. Len(b)
                   PROVE  s[((j + 1) - 1) + n] = b[n]
        BY DEF Stands
      <4>1. n + 1 \in 1 .. Len(c) /\ (j - 1) + (n + 1) = ((j + 1) - 1) + n
        BY <3>5
      <4>2. s[(j - 1) + (n + 1)] = c[n + 1]
        BY <3>6, <4>1 DEF Stands
      <4> QED  BY <3>5, <4>1, <4>2
    <3>9. Read(w, j + 1)
      BY <3>5, <3>6, <3>7, <3>8
    <3>10. j \in 1 .. Len(s) /\ s[j] = r
      <4>1. 1 \in 1 .. Len(c) /\ (j - 1) + 1 = j
        BY <3>5
      <4> QED  BY <3>5, <3>6, <4>1 DEF Stands
    <3>11. ReadVarint(s, j) = [v |-> (r % 128) + 128 * ReadVarint(s, j + 1).v,
                               next |-> ReadVarint(s, j + 1).next]
      <4>1. ~(s[j] < 128)
        BY <3>3, <3>10
      <4> QED  BY <3>10, <4>1, ReadVarintIs
    <3>12. (j + 1) + Len(b) = j + Len(c)
      BY <3>5
    <3>14. ReadVarint(s, j + 1).v = w /\ ReadVarint(s, j + 1).next = (j + 1) + Len(b)
      BY <3>9
    <3>15. ReadVarint(s, j) = [v |-> k, next |-> j + Len(c)]
      BY <3>11, <3>12, <3>3, <3>14
    <3> QED  BY <3>4, <3>15
  <2> QED  BY <2>1, <2>2
<1> HIDE DEF T
<1>2. T = Nat
  <2>1. T \in SUBSET Nat
    BY DEF T
  <2> QED  BY <1>1, <2>1, StrongInduction
<1> QED  BY <1>2 DEF T

\* b stands in s with the continuation bit on its last byte, and a zero after it.
StandsPadded(s, i, b) ==
  /\ \A k \in 1 .. Len(b) - 1 : s[(i - 1) + k] = b[k]
  /\ s[(i - 1) + Len(b)] = b[Len(b)] + 128
  /\ s[i + Len(b)] = 0

\* So it does when the last byte is given a continuation bit and a zero follows.
LEMMA ReadPadded ==
  ASSUME NEW s, Len(s) \in Nat, NEW v \in Nat, NEW i \in Nat \ {0},
         StandsPadded(s, i, EncodeVarint(v)), i + Len(EncodeVarint(v)) <= Len(s)
  PROVE  ReadVarint(s, i) = [v |-> v, next |-> i + Len(EncodeVarint(v)) + 1]
<1> DEFINE Fits(k, j) == StandsPadded(s, j, EncodeVarint(k)) /\ j + Len(EncodeVarint(k)) <= Len(s)
           Read(k, j) == ReadVarint(s, j) = [v |-> k, next |-> j + Len(EncodeVarint(k)) + 1]
           T == {k \in Nat : \A j \in Nat \ {0} : Fits(k, j) => Read(k, j)}
<1>1. ASSUME NEW k \in Nat, \A n \in 0 .. k - 1 : n \in T
      PROVE  k \in T
  <2> SUFFICES ASSUME NEW j \in Nat \ {0}, Fits(k, j)
               PROVE  Read(k, j)
    OBVIOUS
  <2>1. CASE k < 128
    <3>1. EncodeVarint(k) = <<k>>
      BY <2>1, EncodeVarintIs
    <3>2. Len(<<k>>) = 1 /\ <<k>>[1] = k
      OBVIOUS
    <3>3. j \in 1 .. Len(s) /\ j + 1 \in 1 .. Len(s) /\ s[j] = k + 128 /\ s[j + 1] = 0
      <4>1. (j - 1) + 1 = j
        OBVIOUS
      <4> QED  BY <3>1, <3>2, <4>1 DEF StandsPadded
    <3>4. ReadVarint(s, j + 1) = [v |-> 0, next |-> (j + 1) + 1]
      BY <3>3, ReadVarintIs
    <3>5. ReadVarint(s, j) = [v |-> ((k + 128) % 128) + 128 * 0, next |-> (j + 1) + 1]
      <4>1. ~(s[j] < 128)
        BY <3>3
      <4> QED  BY <3>3, <3>4, <4>1, ReadVarintIs
    <3>6. ((k + 128) % 128) + 128 * 0 = k
      BY <2>1
    <3> QED  BY <3>1, <3>2, <3>5, <3>6
  <2>2. CASE k >= 128
    <3>1. PICK w \in Nat : w = k \div 128 /\ w \in 0 .. k - 1 /\ k = 128 * w + (k % 128)
      BY <2>2, Quotient
    <3>2. PICK r \in Nat : r = (k % 128) + 128
      BY <2>2, Quotient
    <3>3. r >= 128 /\ (r % 128) + 128 * w = k
      BY <2>2, <3>1, <3>2, Quotient
    <3> DEFINE b == EncodeVarint(w)
               c == <<r>> \o b
    <3>4. EncodeVarint(k) = c
      <4>1. EncodeVarint(k) = <<(k % 128) + 128>> \o EncodeVarint(k \div 128)
        <5>1. ~(k < 128)
          BY <2>2
        <5> QED  BY <5>1, EncodeVarintIs
      <4> QED  BY <3>1, <3>2, <4>1
    <3>5. /\ Len(c) = Len(b) + 1 /\ Len(b) \in Nat \ {0} /\ c[1] = r
          /\ \A n \in 1 .. Len(b) : c[n + 1] = b[n]
      <4>1. Ends(b)
        BY EncodedEnds
      <4> HIDE DEF b
      <4> QED  BY <4>1, EndsAfter
    <3>6. StandsPadded(s, j, c) /\ j + Len(c) <= Len(s)
      BY <3>4
    <3>7. w \in T
      BY <1>1, <3>1
    <3> HIDE DEF c
    <3>8. StandsPadded(s, j + 1, b)
      <4>1. ASSUME NEW n \in 1 .. Len(b) - 1
            PROVE  s[((j + 1) - 1) + n] = b[n]
        <5>1. n + 1 \in 1 .. Len(c) - 1 /\ (j - 1) + (n + 1) = ((j + 1) - 1) + n
              /\ n \in 1 .. Len(b)
          BY <3>5
        <5>2. s[(j - 1) + (n + 1)] = c[n + 1]
          BY <3>6, <5>1 DEF StandsPadded
        <5> QED  BY <3>5, <5>1, <5>2
      <4>2. (j - 1) + Len(c) = ((j + 1) - 1) + Len(b) /\ j + Len(c) = (j + 1) + Len(b)
            /\ Len(b) \in 1 .. Len(b) /\ Len(b) + 1 = Len(c)
        BY <3>5
      <4>3. c[Len(c)] = b[Len(b)]
        BY <3>5, <4>2
      <4> QED  BY <3>6, <4>1, <4>2, <4>3 DEF StandsPadded
    <3>9. Read(w, j + 1)
      BY <3>5, <3>6, <3>7, <3>8
    <3>10. j \in 1 .. Len(s) /\ s[j] = r
      <4>1. 1 \in 1 .. Len(c) - 1 /\ (j - 1) + 1 = j
        BY <3>5
      <4>2. s[(j - 1) + 1] = c[1]
        BY <3>6, <4>1 DEF StandsPadded
      <4>3. j \in 1 .. Len(s)
        BY <3>5, <3>6
      <4> QED  BY <3>5, <4>1, <4>2, <4>3
    <3>11. ReadVarint(s, j) = [v |-> (r % 128) + 128 * ReadVarint(s, j + 1).v,
                               next |-> ReadVarint(s, j + 1).next]
      <4>1. ~(s[j] < 128)
        BY <3>3, <3>10
      <4> QED  BY <3>10, <4>1, ReadVarintIs
    <3>12. (j + 1) + Len(b) + 1 = j + Len(c) + 1
      BY <3>5
    <3>13. ReadVarint(s, j + 1).v = w /\ ReadVarint(s, j + 1).next = (j + 1) + Len(b) + 1
      BY <3>9
    <3>14. ReadVarint(s, j) = [v |-> k, next |-> j + Len(c) + 1]
      BY <3>3, <3>11, <3>12, <3>13
    <3> QED  BY <3>4, <3>14
  <2> QED  BY <2>1, <2>2
<1> HIDE DEF T
<1>2. T = Nat
  <2>1. T \in SUBSET Nat
    BY DEF T
  <2> QED  BY <1>1, <2>1, StrongInduction
<1> QED  BY <1>2 DEF T

\* Where the elements of two sequences are when they are joined.
LEMMA Joined ==
  ASSUME NEW a \in Seq(Nat), NEW b \in Seq(Nat)
  PROVE  /\ a \o b \in Seq(Nat) /\ Len(a \o b) = Len(a) + Len(b)
         /\ \A k \in 1 .. Len(a) : (a \o b)[k] = a[k]
         /\ \A k \in 1 .. Len(b) : (a \o b)[Len(a) + k] = b[k]
OBVIOUS

\* The padding: a byte more when the header would have an odd number of them.
LEMMA PaddedIs ==
  ASSUME NEW b, Ends(b), NEW o \in Seq(Nat)
  PROVE  /\ Padded(b, o) \in Seq(Nat)
         /\ (3 + Len(Padded(b, o)) + Len(o)) % 2 = 0
         /\ \/ Padded(b, o) = b
            \/ /\ Len(Padded(b, o)) = Len(b) + 1
               /\ \A k \in 1 .. Len(b) - 1 : Padded(b, o)[k] = b[k]
               /\ Padded(b, o)[Len(b)] = b[Len(b)] + 128
               /\ Padded(b, o)[Len(b) + 1] = 0
<1>1. b \in Seq(Nat) /\ b # <<>>
  BY DEF Ends
<1>2. PICK n \in Nat \ {0} : n = Len(b)
  BY <1>1
<1>3. PICK m \in Nat : m = Len(o)
  OBVIOUS
<1>4. CASE (3 + n + m) % 2 = 0
  <2>1. Padded(b, o) = b
    BY <1>2, <1>3, <1>4 DEF Padded
  <2> QED  BY <1>1, <1>2, <1>3, <1>4, <2>1
<1>5. CASE (3 + n + m) % 2 # 0
  <2> DEFINE d == [b EXCEPT ![Len(b)] = @ + 128]
             p == Append(d, 0)
  <2>1. /\ d \in Seq(Nat) /\ Len(d) = n /\ d[n] = b[n] + 128
        /\ \A k \in 1 .. n - 1 : d[k] = b[k]
    BY <1>1, <1>2
  <2>2. Padded(b, o) = p
    BY <1>2, <1>3, <1>5 DEF Padded
  <2> HIDE DEF d
  <2>3. /\ p \in Seq(Nat) /\ Len(p) = n + 1 /\ p[n + 1] = 0
        /\ \A k \in 1 .. n : p[k] = d[k]
    BY <2>1
  <2>4. (3 + (n + 1) + m) % 2 = 0
    BY <1>5
  <2> HIDE DEF p
  <2>5. n \in 1 .. n /\ \A k \in 1 .. n - 1 : k \in 1 .. n
    OBVIOUS
  <2>6. p[n] = b[n] + 128 /\ \A k \in 1 .. n - 1 : p[k] = b[k]
    BY <2>1, <2>3, <2>5
  <2> QED  BY <1>2, <1>3, <2>2, <2>3, <2>4, <2>6
<1> QED  BY <1>4, <1>5

\* Every header is read back as it was meant, for every length and offset: the
\* padding byte makes the length one byte longer and changes its value by
\* nothing, and the offset is found where it starts.
LEMMA HeaderReadBack ==
  ASSUME NEW cmd \in Nat, NEW opts \in Nat, NEW seq \in Nat, NEW len \in Nat,
         NEW off \in Nat \cup {NoOffset}, IsChunk(opts) <=> off # NoOffset
  PROVE  ReadBack([cmd |-> cmd, opts |-> opts, seq |-> seq, len |-> len, off |-> off])
<1> DEFINE h == [cmd |-> cmd, opts |-> opts, seq |-> seq, len |-> len, off |-> off]
           e == EncodeVarint(len)
           o == IF off = NoOffset THEN <<>> ELSE EncodeVarint(off)
           p == Padded(e, o)
           s == BuildHeader(h)
           t == s \o <<0, 0>>
<1>1. Ends(e) /\ e \in Seq(Nat)
  BY EncodedEnds DEF Ends
<1>2. o \in Seq(Nat)
  <2>1. CASE off = NoOffset
    BY <2>1
  <2>2. CASE off # NoOffset
    <3>1. Ends(EncodeVarint(off))
      BY <2>2, EncodedEnds
    <3> QED  BY <2>2, <3>1 DEF Ends
  <2> QED  BY <2>1, <2>2
<1>3. /\ p \in Seq(Nat)
      /\ (3 + Len(p) + Len(o)) % 2 = 0
      /\ \/ p = e
         \/ /\ Len(p) = Len(e) + 1
            /\ \A k \in 1 .. Len(e) - 1 : p[k] = e[k]
            /\ p[Len(e)] = e[Len(e)] + 128
            /\ p[Len(e) + 1] = 0
  <2> HIDE DEF e, o
  <2> QED  BY <1>1, <1>2, PaddedIs
<1>4. s = <<cmd, opts, seq>> \o p \o o
  BY DEF BuildHeader
<1>5. PICK lo \in Nat : lo = Len(o)
  BY <1>2
<1>6. PICK lp \in Nat : lp = Len(p)
  BY <1>3
<1>7. PICK le \in Nat \ {0} : le = Len(e)
  BY <1>1 DEF Ends
<1>8. off # NoOffset => o = EncodeVarint(off)
  OBVIOUS
<1> HIDE DEF e, o, p, s
<1>9. /\ s \in Seq(Nat) /\ Len(s) = 3 + lp + lo
      /\ s[1] = cmd /\ s[2] = opts /\ s[3] = seq
      /\ \A k \in 1 .. lp : s[3 + k] = p[k]
      /\ \A k \in 1 .. lo : s[(3 + lp) + k] = o[k]
  <2> DEFINE a == <<cmd, opts, seq>>
             b == a \o p
  <2>1. a \in Seq(Nat) /\ Len(a) = 3 /\ a[1] = cmd /\ a[2] = opts /\ a[3] = seq
    OBVIOUS
  <2> HIDE DEF a
  <2>2. /\ b \in Seq(Nat) /\ Len(b) = 3 + lp
        /\ \A k \in 1 .. 3 : b[k] = a[k]
        /\ \A k \in 1 .. lp : b[3 + k] = p[k]
    <3>1. /\ b \in Seq(Nat) /\ Len(b) = Len(a) + Len(p)
          /\ \A k \in 1 .. Len(a) : b[k] = a[k]
          /\ \A k \in 1 .. Len(p) : b[Len(a) + k] = p[k]
      BY <1>3, <2>1, Joined
    <3> HIDE DEF b
    <3> QED  BY <1>6, <2>1, <3>1
  <2>3. s = b \o o
    BY <1>4 DEF a
  <2> HIDE DEF b
  <2>4. /\ s \in Seq(Nat) /\ Len(s) = 3 + lp + lo
        /\ \A k \in 1 .. 3 + lp : s[k] = b[k]
        /\ \A k \in 1 .. lo : s[(3 + lp) + k] = o[k]
    <3>1. /\ s \in Seq(Nat) /\ Len(s) = Len(b) + Len(o)
          /\ \A k \in 1 .. Len(b) : s[k] = b[k]
          /\ \A k \in 1 .. Len(o) : s[Len(b) + k] = o[k]
      BY <1>2, <2>2, <2>3, Joined
    <3> QED  BY <1>5, <2>2, <3>1
  <2>5. \A k \in 1 .. lp : 3 + k \in 1 .. 3 + lp
    OBVIOUS
  <2>6. \A k \in 1 .. lp : s[3 + k] = p[k]
    BY <2>2, <2>4, <2>5
  <2>7. \A k \in 1 .. 3 : k \in 1 .. 3 + lp
    OBVIOUS
  <2>8. s[1] = cmd /\ s[2] = opts /\ s[3] = seq
    BY <2>1, <2>2, <2>4, <2>7
  <2> QED  BY <2>4, <2>6, <2>8
<1>10. /\ Len(t) = 5 + lp + lo
       /\ t[1] = cmd /\ t[2] = opts /\ t[3] = seq
       /\ \A k \in 1 .. lp : t[3 + k] = p[k]
       /\ \A k \in 1 .. lo : t[(3 + lp) + k] = o[k]
  <2> DEFINE z == <<0, 0>>
  <2>1. z \in Seq(Nat) /\ Len(z) = 2 /\ t = s \o z /\ s \in Seq(Nat)
    BY <1>9
  <2> HIDE DEF t, z
  <2>4. Len(t) = Len(s) + Len(z) /\ \A k \in 1 .. Len(s) : t[k] = s[k]
    BY <2>1, Joined
  <2>2. Len(t) = (3 + lp + lo) + 2 /\ \A k \in 1 .. 3 + lp + lo : t[k] = s[k]
    BY <1>9, <2>1, <2>4
  <2>3. /\ \A k \in 1 .. lp : 3 + k \in 1 .. 3 + lp + lo
        /\ \A k \in 1 .. lo : (3 + lp) + k \in 1 .. 3 + lp + lo
        /\ 1 \in 1 .. 3 + lp + lo /\ 2 \in 1 .. 3 + lp + lo /\ 3 \in 1 .. 3 + lp + lo
    OBVIOUS
  <2> QED  BY <1>9, <2>2, <2>3
<1> HIDE DEF t
<1>11. Len(s) % 2 = 0
  BY <1>3, <1>5, <1>6, <1>9
<1>12. Len(t) \in Nat /\ 4 \in Nat \ {0} /\ 4 + lp \in Nat \ {0}
  BY <1>10
<1>13. ReadVarint(t, 4) = [v |-> len, next |-> 4 + lp]
  <2>1. CASE p = e
    <3>1. Stands(t, 4, e) /\ lp = le
      BY <1>6, <1>7, <1>10, <2>1 DEF Stands
    <3>2. 4 + le <= Len(t) + 1
      BY <1>10, <3>1
    <3>3. ReadVarint(t, 4) = [v |-> len, next |-> 4 + le]
      BY <1>7, <1>12, <3>1, <3>2, ReadEncoded DEF e
    <3> QED  BY <3>1, <3>3
  <2>2. CASE /\ Len(p) = le + 1
             /\ \A k \in 1 .. le - 1 : p[k] = e[k]
             /\ p[le] = e[le] + 128
             /\ p[le + 1] = 0
    <3>1. lp = le + 1 /\ le \in 1 .. lp /\ le + 1 \in 1 .. lp /\ \A k \in 1 .. le - 1 : k \in 1 .. lp
      BY <1>6, <2>2
    <3>2. (4 - 1) + le = 3 + le /\ 4 + le = 3 + (le + 1) /\ \A k \in Nat : (4 - 1) + k = 3 + k
      OBVIOUS
    <3>3. StandsPadded(t, 4, e)
      BY <1>7, <1>10, <2>2, <3>1, <3>2 DEF StandsPadded
    <3>4. 4 + le <= Len(t)
      BY <1>10, <3>1
    <3>5. ReadVarint(t, 4) = [v |-> len, next |-> 4 + le + 1]
      BY <1>7, <1>12, <3>3, <3>4, ReadPadded DEF e
    <3>6. 4 + le + 1 = 4 + lp
      BY <3>1
    <3> QED  BY <3>5, <3>6
  <2> QED  BY <1>3, <1>7, <2>1, <2>2
<1>14. ASSUME off # NoOffset
       PROVE  ReadVarint(t, 4 + lp) = [v |-> off, next |-> 4 + lp + lo]
  <2>1. (4 + lp) - 1 = 3 + lp
    OBVIOUS
  <2>2. Stands(t, 4 + lp, o)
    BY <1>5, <1>10, <2>1 DEF Stands
  <2>3. 4 + lp + lo <= Len(t) + 1
    BY <1>10
  <2>4. off \in Nat /\ Stands(t, 4 + lp, EncodeVarint(off)) /\ lo = Len(EncodeVarint(off))
    BY <1>5, <1>8, <1>14, <2>2
  <2> QED  BY <1>12, <2>3, <2>4, ReadEncoded
<1>15. DecodeHeader(t) = [cmd |-> cmd, opts |-> opts, seq |-> seq, len |-> len, off |-> off,
                          size |-> Len(s)]
  <2>1. CASE off # NoOffset
    <3>1. (4 + lp + lo) - 1 = Len(s)
      BY <1>9
    <3>2. ReadVarint(t, 4) = [v |-> len, next |-> 4 + lp]
          /\ ReadVarint(t, 4 + lp) = [v |-> off, next |-> 4 + lp + lo]
      BY <1>13, <1>14, <2>1
    <3>3. t[1] = cmd /\ t[2] = opts /\ t[3] = seq
      BY <1>10
    <3> QED  BY <2>1, <3>1, <3>2, <3>3 DEF DecodeHeader
  <2>2. CASE off = NoOffset
    <3>1. lo = 0
      BY <1>5, <2>2 DEF o
    <3>2. (4 + lp) - 1 = Len(s)
      BY <1>9, <3>1
    <3> QED  BY <1>10, <1>13, <2>2, <3>2 DEF DecodeHeader
  <2> QED  BY <2>1, <2>2
<1> QED  BY <1>11, <1>15 DEF ReadBack, s, t

---------------------------------------------------------------------------
(* What is in flight between the host and the device. *)

Elems(s) == {s[i] : i \in 1 .. Len(s)}

IsAuth(x) == x.type = "auth"
Sent(m)   == m.what \in AuthSteps

\* What is on its way to the host, and with it what the device may send again.
Coming   == Elems(inq) \cup Elems(dev.send)
InFlight == Coming \cup {dev.await}

\* The place of a chunk in its answer.
Pos(x) == IF x.chunk = "end" THEN Units + 1 ELSE x.at

\* x comes before y, or is a chunk of the same answer no later than y.
Before(x, y) ==
  IsAuth(x) /\ IsAuth(y) =>
    \/ Rank(x.to) < Rank(y.to)
    \/ x.to = y.to /\ x.chunk # "no" /\ y.chunk # "no" /\ Pos(x) <= Pos(y)

OutBefore(m, n) ==
  Sent(m) /\ Sent(n) => Rank(m.what) < Rank(n.what) \/ (m.what = n.what /\ m.part = "chunk")

Ordered(s) == \A i \in 1 .. Len(s), j \in 1 .. Len(s) : i < j => Before(s[i], s[j])

OutOrdered(o) == \A i \in 1 .. Len(o), j \in 1 .. Len(o) : i < j => OutBefore(o[i], o[j])

\* What the device sent comes in the order of its answers, chunks twice at most in
\* place; messages wait for the device in order, behind all it has answered.
InOrder ==
  /\ Ordered(inq) /\ Ordered(dev.send)
  /\ \A x \in Elems(inq) : (\A y \in Elems(dev.send) : Before(x, y)) /\ Before(x, dev.await)
  /\ \A y \in Elems(dev.send) : Before(dev.await, y)
  /\ OutOrdered(outq)
  /\ \A x \in InFlight, m \in Elems(outq) : IsAuth(x) /\ Sent(m) => Rank(x.to) < Rank(m.what)

\* Nothing in flight belongs to a later step than the one the host is at, nor to
\* that one before its message is sent.
Below ==
  /\ \A x \in InFlight :
       IsAuth(x) => Rank(x.to) <= Rank(step) /\ (phase # "wait" => Rank(x.to) < Rank(step))
  /\ \A m \in Elems(outq) :
       Sent(m) => /\ Rank(m.what) <= Rank(step)
                  /\ phase # "wait" => Rank(m.what) < Rank(step) \/ m.part = "chunk"

\* A first chunk, or a message that is answered in chunks, is of the step at hand:
\* the host leaves a step with a long answer only with that answer received.
Starts ==
  /\ \A x \in InFlight : x.chunk = "start" => x.to = step
  /\ \A m \in Elems(outq) : m.what \in LongSteps => m.what = step

\* A long answer was received before these steps: no acknowledgement is left.
Floor ==
  step \in {"cert", "pubkey"} =>
    /\ \A x \in InFlight : IsAuth(x) => x.chunk # "no"
    /\ \A m \in Elems(outq) : Sent(m) => m.what \in LongSteps

\* Once the first chunk is received, the rest of that answer is all there is.
Receipt ==
  rx.on =>
    /\ step \in LongSteps /\ phase = "wait" /\ rx.recvd \in 1 .. Units - 1
    /\ \A x \in InFlight : IsAuth(x) => x.to = step /\ x.chunk # "no" /\ Pos(x) >= rx.recvd
    /\ \A m \in Elems(outq) : ~Sent(m)

\* Without a lost packet every chunk in flight has its predecessor before it, in
\* flight or received.
Holes ==
  lost = 0 =>
    /\ rx.on => rx.got = 1 .. rx.recvd
    /\ \A y \in InFlight :
         IsAuth(y) /\ y.to = step /\ y.chunk # "no" /\ Pos(y) >= 2 =>
           \/ \E x \in Coming :
                IsAuth(x) /\ x.to = step /\ x.chunk # "no" /\ Pos(x) = Pos(y) - 1
           \/ rx.on /\ Pos(y) - 1 <= rx.recvd

\* Without an expired wait no whole answer to an earlier step is in flight; chunks
\* that came twice may be.
Pairs ==
  ~late =>
    /\ \A x \in InFlight : IsAuth(x) /\ x.chunk = "no" => x.to = step /\ phase = "wait"
    /\ \A m \in Elems(outq) : Sent(m) => m.what = step /\ phase # "send"

\* Without either, the two transcripts agree but for what is in flight.
Scripts ==
  ~late /\ lost = 0 =>
    /\ phase # "wait" => script = IF step \in {"hello", "hello2"} THEN <<>> ELSE dev.script
    /\ phase = "wait" /\ (\E m \in Elems(outq) : Sent(m) /\ m.part # "chunk") =>
         script = IF step \in {"hello", "hello2"} THEN <<step>>
                  ELSE IF step \in HashedSent THEN Append(dev.script, step) ELSE dev.script
    /\ phase = "wait" /\ (rx.on \/ \E x \in InFlight : IsAuth(x) /\ x.to = step) =>
         dev.script = IF step \in HashedReceived THEN Append(script, step) ELSE script

\* The handshake, from the hello to the last answer.
HandshakeInv ==
  step \in AuthSteps \ {"complete"} =>
    InOrder /\ Below /\ Starts /\ Floor /\ Receipt /\ Holes /\ Pairs /\ Scripts

\* Before the handshake: only what a previous run left, gone if the drain was not
\* too short.
EarlyInv ==
  step \in {"drain", "identify"} =>
    /\ Ordered(inq)
    /\ \A x \in Elems(inq) : IsAuth(x) => x.to = "previous"
    /\ \A x \in Elems(dev.send) \cup {dev.await} : ~IsAuth(x)
    /\ \A m \in Elems(outq) : ~Sent(m)
    /\ ~rx.on /\ script = <<>> /\ result = "none" /\ taken = NothingTaken
    /\ step = "drain" => ~late
    /\ step = "identify" /\ ~late => \A x \in Elems(inq) : ~IsAuth(x)

\* What a previous run has left is the first packet, and is gone after the hello.
Leftover ==
  /\ \A i \in 1 .. Len(inq) :
       inq[i].to = "previous" => i = 1 /\ step \notin AuthSteps \ {"hello"}
  /\ \A i \in 1 .. Len(dev.send) : dev.send[i].to # "previous"
  /\ dev.await.to # "previous"

TypeInv ==
  /\ BringUpTypeOK
  /\ Channels
  /\ Leftover
  /\ wire \in Headers
  /\ step = "complete" => phase = "send"

---------------------------------------------------------------------------
(* Sequences, and what they hold. *)

---------------------------------------------------------------------------
(* Queues. *)

\* What a queue holds when its head is taken ...
LEMMA TailOf ==
  ASSUME NEW S, NEW q \in Seq(S), q # <<>>
  PROVE  /\ Head(q) \in S /\ Tail(q) \in Seq(S)
         /\ Elems(q) = {Head(q)} \cup Elems(Tail(q))
         /\ Elems(q) \subseteq S
<1>1. Head(q) \in S /\ Tail(q) \in Seq(S) /\ Len(q) \in Nat \ {0} /\ Head(q) = q[1]
  OBVIOUS
<1>2. Len(Tail(q)) = Len(q) - 1 /\ \A i \in 1 .. Len(q) - 1 : Tail(q)[i] = q[i + 1]
  OBVIOUS
<1>3. Elems(q) \subseteq {Head(q)} \cup Elems(Tail(q))
  <2> SUFFICES ASSUME NEW i \in 1 .. Len(q), i # 1
               PROVE  q[i] \in Elems(Tail(q))
    BY <1>1 DEF Elems
  <2>1. i - 1 \in 1 .. Len(Tail(q)) /\ Tail(q)[i - 1] = q[i]
    BY <1>1, <1>2
  <2> QED  BY <2>1 DEF Elems
<1>4. {Head(q)} \cup Elems(Tail(q)) \subseteq Elems(q)
  <2>1. \A i \in 1 .. Len(Tail(q)) : i + 1 \in 1 .. Len(q)
    BY <1>1, <1>2
  <2>2. 1 \in 1 .. Len(q)
    BY <1>1
  <2> QED  BY <1>1, <1>2, <2>1, <2>2 DEF Elems
<1>5. Elems(q) \subseteq S
  BY DEF Elems
<1> QED  BY <1>1, <1>3, <1>4, <1>5

\* ... when something is added ...
LEMMA AppendOf ==
  ASSUME NEW S, NEW q \in Seq(S), NEW x \in S
  PROVE  Append(q, x) \in Seq(S) /\ Elems(Append(q, x)) = Elems(q) \cup {x}
<1>1. /\ Append(q, x) \in Seq(S) /\ Len(q) \in Nat /\ Len(Append(q, x)) = Len(q) + 1
      /\ \A i \in 1 .. Len(q) : Append(q, x)[i] = q[i]
      /\ Append(q, x)[Len(q) + 1] = x
  OBVIOUS
<1>2. Elems(Append(q, x)) \subseteq Elems(q) \cup {x}
  <2> SUFFICES ASSUME NEW i \in 1 .. Len(q) + 1
               PROVE  Append(q, x)[i] \in Elems(q) \cup {x}
    BY <1>1 DEF Elems
  <2>1. CASE i \in 1 .. Len(q)
    BY <1>1, <2>1 DEF Elems
  <2>2. CASE i = Len(q) + 1
    BY <1>1, <2>2
  <2> QED  BY <1>1, <2>1, <2>2
<1>3. 1 .. Len(q) \subseteq 1 .. Len(q) + 1 /\ Len(q) + 1 \in 1 .. Len(q) + 1
  BY <1>1
<1>4. Elems(q) \cup {x} \subseteq Elems(Append(q, x))
  BY <1>1, <1>3 DEF Elems
<1> QED  BY <1>1, <1>2, <1>4

\* ... when a sequence is added ...
LEMMA JoinOf ==
  ASSUME NEW S, NEW q \in Seq(S), NEW r \in Seq(S)
  PROVE  q \o r \in Seq(S) /\ Elems(q \o r) = Elems(q) \cup Elems(r)
<1>1. /\ q \o r \in Seq(S) /\ Len(q) \in Nat /\ Len(r) \in Nat /\ Len(q \o r) = Len(q) + Len(r)
      /\ \A i \in 1 .. Len(q) : (q \o r)[i] = q[i]
      /\ \A i \in 1 .. Len(r) : (q \o r)[Len(q) + i] = r[i]
  OBVIOUS
<1>2. Elems(q \o r) \subseteq Elems(q) \cup Elems(r)
  <2> SUFFICES ASSUME NEW i \in 1 .. Len(q) + Len(r)
               PROVE  (q \o r)[i] \in Elems(q) \cup Elems(r)
    BY <1>1 DEF Elems
  <2>1. CASE i \in 1 .. Len(q)
    BY <1>1, <2>1 DEF Elems
  <2>2. CASE i \notin 1 .. Len(q)
    <3>1. i - Len(q) \in 1 .. Len(r) /\ Len(q) + (i - Len(q)) = i
      BY <1>1, <2>2
    <3>2. (q \o r)[i] = r[i - Len(q)]
      BY <1>1, <3>1
    <3> QED  BY <3>1, <3>2 DEF Elems
  <2> QED  BY <2>1, <2>2
<1>3. \A i \in 1 .. Len(q) : i \in 1 .. Len(q) + Len(r)
  BY <1>1
<1>4. \A i \in 1 .. Len(r) : Len(q) + i \in 1 .. Len(q) + Len(r)
  BY <1>1
<1>5. Elems(q) \cup Elems(r) \subseteq Elems(q \o r)
  BY <1>1, <1>3, <1>4 DEF Elems
<1> QED  BY <1>1, <1>2, <1>5

\* ... and when it is empty.
LEMMA EmptyOf == Elems(<<>>) = {}
BY DEF Elems

---------------------------------------------------------------------------
(* What the device says. *)

\* The packets that the model names are packets.
LEMMA KnownPackets ==
  /\ GipAck \in Packets /\ Other \in Packets /\ NoPacket \in Packets
  /\ ~IsAuth(GipAck) /\ ~IsAuth(Other) /\ ~IsAuth(NoPacket)
  /\ GipAck.to # "previous" /\ Other.to # "previous" /\ NoPacket.to # "previous"
  /\ Packet("auth", "ack", "previous") \in Packets
BY UnitsAssumption DEF GipAck, Other, NoPacket, Packet, Packets, OtherPackets, WholeAnswers,
   IsAuth, ShortSteps

\* An answer to a message of the handshake is one packet, or the chunks in
\* their order, with or without the empty one.
Chunked(r, s) ==
  /\ Len(r) \in {Units, Units + 1}
  /\ \A i \in 1 .. Len(r) :
       r[i] \in ChunkAnswers /\ r[i].to = s /\ Pos(r[i]) = i

\* What the device says to a message of the handshake: nothing, a packet, or chunks.
LEMMA ReplyIs ==
  ASSUME NEW s \in AuthSteps, NEW r \in Reply(s)
  PROVE  /\ r \in Seq(Packets)
         /\ \/ r = <<>>
            \/ s \in ShortSteps /\ \E x \in WholeAnswers : x.to = s /\ r = <<x>>
            \/ s \in LongSteps /\ Chunked(r, s)
<1>1. CASE s = "complete"
  BY <1>1 DEF Reply, AuthSteps
<1>2. ASSUME s # "complete", NEW k \in Answers(s), ~Long(k), r = <<Packet("auth", k, s)>>
      PROVE  s \in ShortSteps /\ Packet("auth", k, s) \in WholeAnswers
             /\ Packet("auth", k, s).to = s
  BY <1>2 DEF Answers, Long, Packet, WholeAnswers, ShortSteps, AuthSteps
<1>3. ASSUME NEW k, k \in {"rsacert", "badcert", "data"}, s \in LongSteps, NEW i \in 1 .. Units
      PROVE  /\ ChunkOf("auth", k, s, i) \in ChunkAnswers
             /\ ChunkOf("auth", k, s, i).to = s /\ Pos(ChunkOf("auth", k, s, i)) = i
  <2>1. i \in 0 .. Units /\ (i # 1 => i >= 2)
    BY UnitsAssumption
  <2>2. ChunkOf("auth", k, s, i) \in
          [type : {"auth"}, kind : {"rsacert", "badcert", "data"}, to : LongSteps,
           chunk : {"start", "data", "end"}, at : 0 .. Units, ack : BOOLEAN]
    BY <1>3, <2>1 DEF ChunkOf, Packet
  <2>3. /\ ChunkOf("auth", k, s, i).to = s /\ ChunkOf("auth", k, s, i).at = i
        /\ ChunkOf("auth", k, s, i).chunk = IF i = 1 THEN "start" ELSE "data"
    BY DEF ChunkOf, Packet
  <2> QED  BY <2>1, <2>2, <2>3 DEF ChunkAnswers, Pos
<1>4. ASSUME NEW k, k \in {"rsacert", "badcert", "data"}, s \in LongSteps
      PROVE  /\ EndChunk("auth", k, s) \in ChunkAnswers
             /\ EndChunk("auth", k, s).to = s /\ Pos(EndChunk("auth", k, s)) = Units + 1
  <2>1. EndChunk("auth", k, s) \in
          [type : {"auth"}, kind : {"rsacert", "badcert", "data"}, to : LongSteps,
           chunk : {"start", "data", "end"}, at : 0 .. Units, ack : BOOLEAN]
    <3>1. 0 \in 0 .. Units
      BY UnitsAssumption
    <3> QED  BY <1>4, <3>1 DEF EndChunk, Packet
  <2>2. EndChunk("auth", k, s).to = s /\ EndChunk("auth", k, s).chunk = "end"
    BY DEF EndChunk, Packet
  <2> QED  BY <2>1, <2>2 DEF ChunkAnswers, Pos
<1>5. ASSUME NEW k \in Answers(s), Long(k), s # "complete"
      PROVE  k \in {"rsacert", "badcert", "data"} /\ s \in LongSteps
  BY <1>5 DEF Answers, Long, LongSteps, AuthSteps
<1>6. ASSUME NEW k, k \in {"rsacert", "badcert", "data"}, s \in LongSteps
      PROVE  /\ Chunked(Chunks("auth", k, s), s) /\ Chunks("auth", k, s) \in Seq(Packets)
             /\ Chunked(Chunks("auth", k, s) \o <<EndChunk("auth", k, s)>>, s)
             /\ Chunks("auth", k, s) \o <<EndChunk("auth", k, s)>> \in Seq(Packets)
  <2> DEFINE c == Chunks("auth", k, s)
             e == EndChunk("auth", k, s)
  <2>1. Units \in Nat
    BY UnitsAssumption
  <2>2. \A i \in 1 .. Units : c[i] \in ChunkAnswers /\ c[i].to = s /\ Pos(c[i]) = i
    BY <1>3, <1>6 DEF Chunks
  <2>3. c \in Seq(Packets) /\ Len(c) = Units
    <3>1. c = [i \in 1 .. Units |-> c[i]]
      BY DEF Chunks
    <3>2. \A i \in 1 .. Units : c[i] \in Packets
      BY <2>2 DEF Packets
    <3> HIDE DEF c
    <3> QED  BY <2>1, <3>1, <3>2
  <2>4. e \in ChunkAnswers /\ e.to = s /\ Pos(e) = Units + 1
    BY <1>4, <1>6
  <2> HIDE DEF c, e
  <2>5. <<e>> \in Seq(Packets) /\ Len(<<e>>) = 1 /\ <<e>>[1] = e
    BY <2>4 DEF Packets
  <2>6. /\ c \o <<e>> \in Seq(Packets) /\ Len(c \o <<e>>) = Units + 1
        /\ \A i \in 1 .. Units : (c \o <<e>>)[i] = c[i]
        /\ (c \o <<e>>)[Units + 1] = e
    BY <2>1, <2>3, <2>5
  <2>7. \A i \in 1 .. Units + 1 : i \in 1 .. Units \/ i = Units + 1
    BY <2>1
  <2>8. Chunked(c, s)
    BY <2>2, <2>3 DEF Chunked
  <2>9. Chunked(c \o <<e>>, s)
    BY <2>2, <2>4, <2>6, <2>7 DEF Chunked
  <2> QED  BY <2>3, <2>6, <2>8, <2>9 DEF c, e
<1>7. CASE s # "complete"
  <2>1. CASE \E k \in Answers(s) : ~Long(k) /\ r = <<Packet("auth", k, s)>>
    <3>1. PICK k \in Answers(s) : ~Long(k) /\ r = <<Packet("auth", k, s)>>
      BY <2>1
    <3>2. s \in ShortSteps /\ Packet("auth", k, s) \in WholeAnswers /\ Packet("auth", k, s).to = s
      BY <1>2, <1>7, <3>1
    <3> QED  BY <3>1, <3>2 DEF Packets
  <2>2. CASE \E k \in Answers(s) : Long(k) /\ r = Chunks("auth", k, s)
    BY <1>5, <1>6, <1>7, <2>2
  <2>3. CASE \E k \in Answers(s) : Long(k) /\ r = Chunks("auth", k, s) \o <<EndChunk("auth", k, s)>>
    BY <1>5, <1>6, <1>7, <2>3
  <2> QED  BY <1>7, <2>1, <2>2, <2>3 DEF Reply
<1> QED  BY <1>1, <1>7

\* Everything else the device says is no answer of the handshake.
LEMMA OtherReplies ==
  ASSUME NEW s \in {"identify", "format", "power"}, NEW r \in Reply(s)
  PROVE  r \in Seq(Packets) /\ \A i \in 1 .. Len(r) : ~IsAuth(r[i]) /\ r[i].to # "previous"
<1>1. Units \in Nat /\ Units >= 1
  BY UnitsAssumption
<1> DEFINE Fine(x) == x \in Packets /\ ~IsAuth(x) /\ x.to # "previous"
<1>2. ASSUME NEW i \in 1 .. Units
      PROVE  /\ Fine(ChunkOf("identify", "data", "identify", i))
             /\ Fine([ChunkOf("identify", "data", "identify", i) EXCEPT !.ack = TRUE])
  <2>1. i \in 0 .. Units
    BY <1>1
  <2>2. ChunkOf("identify", "data", "identify", i) \in
          [type : {"identify"}, kind : {"data"}, to : {"identify"}, chunk : {"data"},
           at : 0 .. Units, ack : BOOLEAN]
    BY <2>1 DEF ChunkOf, Packet
  <2> HIDE DEF Fine
  <2>3. ASSUME NEW x, x \in [type : {"identify"}, kind : {"data"}, to : {"identify"},
                              chunk : {"data"}, at : 0 .. Units, ack : BOOLEAN]
        PROVE  Fine(x) /\ Fine([x EXCEPT !.ack = TRUE])
    BY <2>3 DEF Packets, OtherPackets, IsAuth, Fine
  <2> QED  BY <2>2, <2>3
<1>3. Fine(EndChunk("identify", "data", "identify")) /\ Fine(Packet("identify", "data", "identify"))
  <2>1. EndChunk("identify", "data", "identify") \in OtherPackets
        /\ Packet("identify", "data", "identify") \in OtherPackets
    <3>1. 0 \in 0 .. Units
      BY <1>1
    <3> QED  BY <3>1 DEF EndChunk, Packet, OtherPackets
  <2>2. EndChunk("identify", "data", "identify").type = "identify"
        /\ EndChunk("identify", "data", "identify").to = "identify"
        /\ Packet("identify", "data", "identify").type = "identify"
        /\ Packet("identify", "data", "identify").to = "identify"
    BY DEF EndChunk, Packet
  <2> QED  BY <2>1, <2>2 DEF Packets, IsAuth
<1>4. Fine(Other)
  BY KnownPackets
<1>5. s \notin AuthSteps
  BY DEF AuthSteps
<1>6. CASE r = <<Other>> \/ r = <<Packet("identify", "data", "identify")>>
           \/ r = <<[ChunkOf("identify", "data", "identify", 1) EXCEPT !.ack = TRUE]>>
  <2>1. Fine([ChunkOf("identify", "data", "identify", 1) EXCEPT !.ack = TRUE])
    <3>1. 1 \in 1 .. Units
      BY <1>1
    <3> HIDE DEF Fine
    <3> QED  BY <3>1, <1>2
  <2>2. \E x : Fine(x) /\ r = <<x>>
    <3> HIDE DEF Fine
    <3> QED  BY <2>1, <1>3, <1>4, <1>6
  <2>3. PICK x : Fine(x) /\ r = <<x>>
    BY <2>2
  <2> QED  BY <2>3
<1>7. CASE r = Chunks("identify", "data", "identify") \o <<EndChunk("identify", "data", "identify")>>
  <2> DEFINE c == Chunks("identify", "data", "identify")
             e == EndChunk("identify", "data", "identify")
  <2>1. c \in Seq(Packets) /\ Len(c) = Units /\ \A i \in 1 .. Units : Fine(c[i])
    <3>1. c = [i \in 1 .. Units |-> c[i]] /\ \A i \in 1 .. Units : Fine(c[i])
      BY <1>2 DEF Chunks
    <3> HIDE DEF c
    <3> QED  BY <1>1, <3>1
  <2>2. Fine(e)
    BY <1>3
  <2> HIDE DEF c, e
  <2>3. r \in Seq(Packets) /\ Len(r) = Units + 1 /\ r[Units + 1] = e
        /\ \A i \in 1 .. Units : r[i] = c[i]
    BY <1>1, <1>7, <2>1, <2>2 DEF c, e
  <2>4. \A i \in 1 .. Units + 1 : i \in 1 .. Units \/ i = Units + 1
    BY <1>1
  <2> QED  BY <2>1, <2>2, <2>3, <2>4
<1> QED  BY <1>5, <1>6, <1>7 DEF Reply

---------------------------------------------------------------------------
(* Types. *)

\* What the host writes is a message whose header is well formed.
LEMMA Writes ==
  ASSUME NEW h \in Headers, NEW s \in AuthSteps \cup {"identify", "format", "power", "gipack"},
         NEW part \in {"all", "chunk", "end"}, part # "all" => s = "secret",
         Write(h, s, part)
  PROVE  /\ wire' \in Headers
         /\ \E m \in Messages : outq' = Append(outq, m) /\ m.what = s /\ m.part = part
<1> DEFINE m == [what |-> s, part |-> part, ack |-> (h.opts \div OptAck) % 2 = 1]
<1>1. m \in Messages /\ m.what = s /\ m.part = part
  BY DEF Messages
<1>2. wire' = h /\ outq' = Append(outq, m)
  BY DEF Write
<1> HIDE DEF m
<1> QED  BY <1>1, <1>2

Sending == AuthSteps \cup {"identify", "format", "power"}

\* The header of a message sent whole is well formed ...
LEMMA WholeHeader ==
  ASSUME step \in Sending, seqRef \in Nat,
         NEW opts \in {Client + Internal, Client + Internal + OptAck}
  PROVE  Header(opts, PayloadLen[step], NoOffset) \in Headers
<1>1. Cmd(step) \in Nat
  BY DEF Cmd, Sending, AuthSteps
<1>2. PayloadLen[step] \in Nat
  BY DEF PayloadLen, Sending, AuthSteps, SecretLen
<1>3. opts \in Nat /\ ~IsChunk(opts)
  BY DEF Client, Internal, OptAck, IsChunk, Chunk
<1> QED  BY <1>1, <1>2, <1>3 DEF Header, Headers

\* ... so is that of a chunk ...
LEMMA ChunkedHeader ==
  ASSUME step = "secret", seqRef \in Nat, NEW ack \in {0, OptAck}, NEW start \in {0, ChunkStart},
         NEW len \in Nat, NEW off \in Nat
  PROVE  ChunkHeader(ack, start, len, off) \in Headers
<1>1. Cmd(step) \in Nat
  BY DEF Cmd, AuthSteps
<1>2. Client + Internal + Chunk + ack + start \in Nat
      /\ IsChunk(Client + Internal + Chunk + ack + start)
  BY DEF Client, Internal, OptAck, IsChunk, Chunk, ChunkStart
<1>3. off # NoOffset
  BY DEF NoOffset
<1> QED  BY <1>1, <1>2, <1>3 DEF Header, Headers, ChunkHeader

\* ... and that of an acknowledgement.
LEMMA AckHeader ==
  [cmd |-> 1, opts |-> Client + Internal, seq |-> 1, len |-> 9, off |-> NoOffset] \in Headers
BY DEF Headers, IsChunk, Client, Internal, Chunk

\* An acknowledgement is written, or nothing is.
LEMMA Acknowledges ==
  ASSUME NEW p, Acknowledge(p), wire \in Headers
  PROVE  /\ wire' \in Headers
         /\ outq' = outq \/ \E m \in Messages : outq' = Append(outq, m) /\ m.what = "gipack"
<1>1. CASE p.ack
  BY <1>1, AckHeader, Writes DEF Acknowledge
<1>2. CASE ~p.ack
  BY <1>2 DEF Acknowledge
<1> QED  BY <1>1, <1>2

\* A step of the host takes the first packet or none, and writes one or none.
TakesOrNot == inq' = inq \/ (inq # <<>> /\ inq' = Tail(inq))
WritesOrNot == outq' = outq \/ \E m \in Messages : outq' = Append(outq, m)

\* A step of the host takes at most one packet and writes at most one message.
LEMMA HostQueues ==
  ASSUME TypeInv, seqRef \in Nat, Host
  PROVE  TakesOrNot /\ WritesOrNot /\ UNCHANGED devVars /\ wire' \in Headers
<1> USE DEF TakesOrNot, WritesOrNot, TypeInv
<1>1. CASE DrainTakes \/ AckIgnores \/ RecvIgnores \/ ReadFails
  BY <1>1 DEF DrainTakes, AckIgnores, RecvIgnores, ReadFails, Receiving, hostVars
<1>2. CASE DrainEnds \/ RecvExpires \/ ChunkAckExpires \/ AuthWriteFails \/ IdentifyGivesUp
  BY <1>2 DEF DrainEnds, RecvExpires, ChunkAckExpires, AuthWriteFails, IdentifyGivesUp
<1>3. CASE IdentifyTakes \/ IdentifyAckRaises \/ IdentifyEnds \/ GipRecv
  BY <1>3 DEF IdentifyTakes, IdentifyAckRaises, IdentifyEnds, GipRecv, Identifying
<1>4. CASE GipSend
  <2>1. CASE UNCHANGED <<wire, outq>>
    BY <1>4, <2>1 DEF GipSend
  <2>2. CASE Write(Header(Client + Internal, PayloadLen[step], NoOffset), step, "all")
    BY <1>4, <2>2, WholeHeader, Writes DEF GipSend, Sending
  <2> QED  BY <1>4, <2>1, <2>2 DEF GipSend
<1>5. CASE SendSimple
  BY <1>5, WholeHeader, Writes DEF SendSimple, Sending
<1>6. CASE SendComplete
  BY <1>6, WholeHeader, Writes DEF SendComplete, Sending, AuthSteps
<1>7. CASE SendFirstChunk
  <2>1. MaxPkt \in Nat /\ SecretLen \in Nat
    BY DEF MaxPkt, SecretLen
  <2> QED  BY <1>7, <2>1, ChunkedHeader, Writes DEF SendFirstChunk, AuthSteps
<1>8. CASE SendNextChunk
  <2> DEFINE remaining == SecretLen - offset
             size == IF remaining < MaxPkt THEN remaining ELSE MaxPkt
             h == ChunkHeader(IF size = remaining THEN OptAck ELSE 0, 0, size, offset)
  <2>1. offset \in Nat /\ size \in Nat
    BY DEF BringUpTypeOK, SecretLen, MaxPkt
  <2> HIDE DEF size
  <2>2. h \in Headers
    BY <1>8, <2>1, ChunkedHeader DEF SendNextChunk
  <2> HIDE DEF h
  <2>3. Write(h, step, "chunk")
    BY <1>8 DEF SendNextChunk, h, size
  <2>4. inq # <<>> /\ inq' = Tail(inq) /\ UNCHANGED devVars /\ step = "secret"
    BY <1>8 DEF SendNextChunk
  <2> QED  BY <2>2, <2>3, <2>4, Writes DEF AuthSteps
<1>9. CASE SendEndChunk
  <2>1. SecretLen \in Nat
    BY DEF SecretLen
  <2>2. ChunkHeader(0, 0, 0, SecretLen) \in Headers
    BY <1>9, <2>1, ChunkedHeader DEF SendEndChunk
  <2> QED  BY <1>9, <2>2, Writes DEF SendEndChunk, AuthSteps
<1>10. CASE RecvWhole \/ RecvEnd
  BY <1>10 DEF RecvWhole, RecvEnd, Receiving
<1>11. CASE RecvStart \/ RecvChunk
  <2>1. Acknowledge(Head(inq)) /\ inq # <<>> /\ inq' = Tail(inq) /\ UNCHANGED devVars
    BY <1>11 DEF RecvStart, RecvChunk, Receiving
  <2> QED  BY <2>1, Acknowledges
<1> QED
  BY <1>1, <1>2, <1>3, <1>4, <1>5, <1>6, <1>7, <1>8, <1>9, <1>10, <1>11 DEF Host

\* What a previous run left was the head of the queue.
LEMMA LeftoverTail ==
  ASSUME NEW q \in Seq(Packets), q # <<>>,
         \A i \in 1 .. Len(q) : q[i].to = "previous" => i = 1
  PROVE  \A i \in 1 .. Len(Tail(q)) : Tail(q)[i].to # "previous"
<1> SUFFICES ASSUME NEW i \in 1 .. Len(Tail(q)) PROVE Tail(q)[i].to # "previous"
  OBVIOUS
<1>1. i + 1 \in 1 .. Len(q) /\ Tail(q)[i] = q[i + 1] /\ i + 1 # 1
  OBVIOUS
<1> QED  BY <1>1

\* The host keeps the types of the queues ...
LEMMA HostChannels ==
  ASSUME TypeInv, seqRef \in Nat, Host
  PROVE  Channels'
<1>1. inq \in Seq(Packets) /\ outq \in Seq(Messages)
  BY DEF TypeInv, Channels
<1>2. TakesOrNot /\ WritesOrNot /\ UNCHANGED dev
  BY HostQueues DEF devVars
<1>3. inq' \in Seq(Packets)
  BY <1>1, <1>2, TailOf DEF TakesOrNot
<1>4. outq' \in Seq(Messages)
  BY <1>1, <1>2, AppendOf DEF WritesOrNot
<1> QED  BY <1>2, <1>3, <1>4 DEF TypeInv, Channels

\* What DevTake does with the message it takes.
LEMMA DevTakes ==
  ASSUME Channels, DevTake
  PROVE  /\ outq # <<>> /\ Head(outq) \in Messages /\ outq' = Tail(outq)
         /\ inq' = inq \/ inq' = Append(inq, GipAck)
         /\ UNCHANGED <<hostVars, resent, taken, late, lost>>
         /\ \/ dev' = [dev EXCEPT !.await = NoPacket]
            \/ \E g \in Nat : dev' = [dev EXCEPT !.got = g]
            \/ UNCHANGED dev
            \/ /\ Head(outq).part # "chunk" /\ Head(outq).what # "gipack"
               /\ \E r \in Reply(Head(outq).what) :
                    dev' = [dev EXCEPT !.script = DevHashed(Head(outq).what), !.send = @ \o r]
<1> DEFINE m == Head(outq)
<1>1. outq # <<>> /\ m \in Messages
  BY TailOf DEF Channels, DevTake
<1>2. outq' = Tail(outq) /\ (inq' = inq \/ inq' = Append(inq, GipAck))
      /\ UNCHANGED <<hostVars, resent, taken, late, lost>>
  BY DEF DevTake
<1>3. m.part # "all" => m.what = "secret"
  BY <1>1 DEF Messages
<1>4. dev.got \in Nat
  BY DEF Channels
<1>5. CASE m.what = "gipack" /\ dev' = [dev EXCEPT !.await = NoPacket]
  BY <1>1, <1>2, <1>5
<1>6. CASE m.what # "gipack" /\ m.part = "all" /\ DevHandles(m.what)
  BY <1>1, <1>2, <1>6 DEF DevHandles
<1>7. CASE m.part = "chunk"
           /\ dev' = [dev EXCEPT !.got = IF @ + MaxPkt > SecretLen THEN SecretLen ELSE @ + MaxPkt]
  <2>1. (IF dev.got + MaxPkt > SecretLen THEN SecretLen ELSE dev.got + MaxPkt) \in Nat
    BY <1>4 DEF MaxPkt, SecretLen
  <2> QED  BY <1>1, <1>2, <1>7, <2>1
<1>8. CASE m.part = "end" /\ IF dev.got = SecretLen THEN DevHandles(m.what) ELSE UNCHANGED dev
  BY <1>1, <1>2, <1>3, <1>8 DEF DevHandles
<1> QED  BY <1>5, <1>6, <1>7, <1>8 DEF DevTake

\* The device's transcript holds messages of the handshake.
LEMMA DevHashedType ==
  ASSUME Channels, NEW s \in AuthSteps \cup {"identify", "format", "power"}
  PROVE  DevHashed(s) \in Seq(AuthSteps)
<1>1. dev.script \in Seq(AuthSteps)
  BY DEF Channels
<1>2. CASE s \in {"hello", "hello2"}
  BY <1>2 DEF DevHashed, AuthSteps
<1>3. CASE s \notin {"hello", "hello2"} /\ s \in HashedSent \cup HashedReceived
  <2>1. s \in AuthSteps
    BY <1>3 DEF HashedSent, HashedReceived, AuthSteps
  <2> QED  BY <1>1, <1>3, <2>1 DEF DevHashed
<1>4. CASE s \notin {"hello", "hello2"} /\ s \notin HashedSent \cup HashedReceived
  BY <1>1, <1>4 DEF DevHashed
<1> QED  BY <1>2, <1>3, <1>4

\* The packets of a reply are not those of a previous run.
LEMMA ReplyTo ==
  ASSUME NEW s \in AuthSteps \cup {"identify", "format", "power"}, NEW r \in Reply(s)
  PROVE  r \in Seq(Packets) /\ \A i \in 1 .. Len(r) : r[i].to # "previous"
<1>1. CASE s \in AuthSteps
  <2>1. r \in Seq(Packets) /\ "previous" \notin ShortSteps \cup LongSteps
    BY <1>1, ReplyIs DEF ShortSteps, LongSteps
  <2>2. CASE r = <<>>
    BY <2>1, <2>2
  <2>3. CASE s \in ShortSteps /\ \E x \in WholeAnswers : x.to = s /\ r = <<x>>
    <3>1. PICK x \in WholeAnswers : x.to = s /\ r = <<x>>
      BY <2>3
    <3> QED  BY <2>1, <2>3, <3>1
  <2>4. CASE s \in LongSteps /\ Chunked(r, s)
    BY <2>1, <2>4 DEF Chunked
  <2> QED  BY <1>1, <2>2, <2>3, <2>4, ReplyIs
<1>2. CASE s \in {"identify", "format", "power"}
  BY <1>2, OtherReplies
<1> QED  BY <1>1, <1>2

\* ... and so does the device, which adds nothing of a previous run.
LEMMA DeviceTypes ==
  ASSUME Channels, Leftover, Device
  PROVE  Channels' /\ Leftover' /\ UNCHANGED <<hostVars, taken, late, lost>>
<1>1. /\ inq \in Seq(Packets) /\ outq \in Seq(Messages) /\ dev.send \in Seq(Packets)
      /\ dev \in [script : Seq(AuthSteps), got : Nat, send : Seq(Packets), await : Packets]
      /\ dev.await = NoPacket \/ dev.await.ack
  BY DEF Channels
<1>2. ASSUME NEW x \in Packets, x.to # "previous", UNCHANGED step
      PROVE  /\ Append(inq, x) \in Seq(Packets)
             /\ \A i \in 1 .. Len(Append(inq, x)) :
                  Append(inq, x)[i].to = "previous" => i = 1 /\ step' \notin AuthSteps \ {"hello"}
  <2>1. \A i \in 1 .. Len(inq) + 1 : i \in 1 .. Len(inq) \/ i = Len(inq) + 1
    BY <1>1
  <2>2. Append(inq, x)[Len(inq) + 1] = x /\ Len(Append(inq, x)) = Len(inq) + 1
        /\ \A i \in 1 .. Len(inq) : Append(inq, x)[i] = inq[i]
    BY <1>1
  <2> QED  BY <1>1, <1>2, <2>1, <2>2 DEF Leftover
<1>3. CASE DevTake
  <2> DEFINE m == Head(outq)
  <2>1. /\ outq # <<>> /\ m \in Messages /\ outq' = Tail(outq)
        /\ inq' = inq \/ inq' = Append(inq, GipAck)
        /\ UNCHANGED <<hostVars, resent, taken, late, lost>>
    BY <1>3, DevTakes
  <2>2. outq' \in Seq(Messages)
    BY <1>1, <2>1, TailOf
  <2>3. UNCHANGED step
    BY <2>1 DEF hostVars
  <2>4. inq' \in Seq(Packets) /\ \A i \in 1 .. Len(inq') :
            inq'[i].to = "previous" => i = 1 /\ step' \notin AuthSteps \ {"hello"}
    BY <1>1, <1>2, <2>1, <2>3, KnownPackets DEF Leftover
  <2>5. NoPacket \in Packets /\ NoPacket.to # "previous"
    BY KnownPackets
  <2>6. CASE dev' = [dev EXCEPT !.await = NoPacket] \/ UNCHANGED dev
             \/ \E g \in Nat : dev' = [dev EXCEPT !.got = g]
    <3>1. dev' \in [script : Seq(AuthSteps), got : Nat, send : Seq(Packets), await : Packets]
          /\ dev'.send = dev.send /\ dev'.await \in {dev.await, NoPacket}
      BY <1>1, <2>5, <2>6
    <3> QED  BY <1>1, <2>1, <2>2, <2>4, <2>5, <3>1 DEF Channels, Leftover
  <2>7. CASE /\ m.part # "chunk" /\ m.what # "gipack"
             /\ \E r \in Reply(m.what) :
                  dev' = [dev EXCEPT !.script = DevHashed(m.what), !.send = @ \o r]
    <3>1. PICK r \in Reply(m.what) :
                  dev' = [dev EXCEPT !.script = DevHashed(m.what), !.send = @ \o r]
      BY <2>7
    <3>2. m.what \in AuthSteps \cup {"identify", "format", "power"}
      BY <2>1, <2>7 DEF Messages
    <3>3. r \in Seq(Packets) /\ \A i \in 1 .. Len(r) : r[i].to # "previous"
      BY <3>2, ReplyTo
    <3>4. DevHashed(m.what) \in Seq(AuthSteps)
      BY <3>2, DevHashedType
    <3>5. dev.send \o r \in Seq(Packets)
      BY <1>1, <3>3
    <3>6. dev' \in [script : Seq(AuthSteps), got : Nat, send : Seq(Packets), await : Packets]
          /\ dev'.send = dev.send \o r /\ dev'.await = dev.await
      BY <1>1, <3>1, <3>4, <3>5
    <3>7. \A i \in 1 .. Len(dev.send \o r) : (dev.send \o r)[i].to # "previous"
      <4> SUFFICES ASSUME NEW i \in 1 .. Len(dev.send) + Len(r)
                   PROVE  (dev.send \o r)[i].to # "previous"
        BY <1>1, <3>3
      <4>1. CASE i \in 1 .. Len(dev.send)
        BY <1>1, <3>3, <4>1 DEF Leftover
      <4>2. CASE i \notin 1 .. Len(dev.send)
        <5>1. i - Len(dev.send) \in 1 .. Len(r) /\ (dev.send \o r)[i] = r[i - Len(dev.send)]
          BY <1>1, <3>3, <4>2
        <5> QED  BY <3>3, <5>1
      <4> QED  BY <4>1, <4>2
    <3>8. Channels'
      BY <1>1, <2>2, <2>4, <3>6 DEF Channels
    <3>9. \A i \in 1 .. Len(dev'.send) : dev'.send[i].to # "previous"
      BY <3>6, <3>7
    <3>10. dev'.await.to # "previous"
      BY <3>6 DEF Leftover
    <3>11. Leftover'
      BY <2>4, <3>9, <3>10 DEF Leftover
    <3> QED  BY <2>1, <3>8, <3>11
  <2> QED  BY <2>1, <2>6, <2>7, <1>3, DevTakes
<1>4. CASE DevSend
  <2> DEFINE x == Head(dev.send)
             a == IF x.ack THEN x ELSE NoPacket
  <2>1. /\ dev.send # <<>> /\ inq' = Append(inq, x)
        /\ UNCHANGED <<hostVars, outq, taken, late, lost>>
        /\ dev' = [dev EXCEPT !.send = Tail(@), !.await = a]
    BY <1>4 DEF DevSend
  <2>2. x \in Packets /\ Tail(dev.send) \in Seq(Packets) /\ x = dev.send[1]
        /\ 1 \in 1 .. Len(dev.send)
    BY <1>1, <2>1
  <2>3. x.to # "previous" /\ \A i \in 1 .. Len(Tail(dev.send)) : Tail(dev.send)[i].to # "previous"
    BY <1>1, <2>1, <2>2, LeftoverTail DEF Leftover
  <2>4. a \in Packets /\ a.to # "previous" /\ (a = NoPacket \/ a.ack)
    BY <2>2, <2>3, KnownPackets
  <2> HIDE DEF x, a
  <2>5. dev' \in [script : Seq(AuthSteps), got : Nat, send : Seq(Packets), await : Packets]
        /\ dev'.send = Tail(dev.send) /\ dev'.await = a
    BY <1>1, <2>1, <2>2, <2>4
  <2>6. UNCHANGED step
    BY <2>1 DEF hostVars
  <2> QED  BY <1>1, <1>2, <2>1, <2>2, <2>3, <2>4, <2>5, <2>6 DEF Channels, Leftover
<1>5. CASE DevResend
  <2>1. inq' = Append(inq, dev.await) /\ UNCHANGED <<hostVars, outq, dev, taken, late, lost>>
    BY <1>5 DEF DevResend
  <2>2. UNCHANGED step
    BY <2>1 DEF hostVars
  <2>3. dev.await \in Packets /\ dev.await.to # "previous"
    BY <1>1 DEF Leftover
  <2> QED  BY <1>1, <1>2, <2>1, <2>2, <2>3 DEF Channels, Leftover
<1> QED  BY <1>3, <1>4, <1>5 DEF Device

\* The handshake only moves on, and an answer does not move it past the end.
LEMMA Ranks ==
  /\ \A s \in AuthSteps : Rank(s) \in 1 .. 10
  /\ \A s \in AuthSteps \ {"complete"}, t \in AuthSteps : Rank(s) = Rank(t) => s = t
  /\ \A s \in AuthSteps \ {"complete"} :
       /\ Following(s) \in AuthSteps \ {"hello", "hello2"}
       /\ Rank(s) < Rank(Following(s))
  /\ Rank("previous") = 0
<1>1. /\ Rank("previous") = 0 /\ Rank("hello") = 1 /\ Rank("hello2") = 2 /\ Rank("ch") = 3
      /\ Rank("cert") = 4 /\ Rank("pubkey") = 5 /\ Rank("hostkey") = 6 /\ Rank("secret") = 7
      /\ Rank("finish") = 8 /\ Rank("cf") = 9 /\ Rank("complete") = 10
  BY DEF Rank
<1>2. \A s \in AuthSteps \ {"complete"} :
        /\ Following(s) \in AuthSteps \ {"hello", "hello2"}
        /\ Rank(s) < Rank(Following(s))
  BY <1>1 DEF Following, AuthSteps
<1> QED  BY <1>1, <1>2 DEF AuthSteps

\* Where an answer takes the handshake.
LEMMA AnswerMoves ==
  ASSUME TypeInv, Receiving, NEW p \in Packets, p.type = "auth", NEW got \in SUBSET (1 .. Units),
         step = "hello" \/ p.to # "previous", Answered(p, got)
  PROVE  /\ step \in AuthSteps \ {"complete"} /\ phase = "wait"
         /\ \/ step' = "dead" /\ UNCHANGED <<phase, rx>>
            \/ phase' = "send" /\ rx' = NoRx /\ step' \in {"format", Following(step)}
            \/ phase' = "send" /\ rx' = NoRx /\ step = "hello" /\ step' = "hello2"
         /\ v2' \in BOOLEAN /\ script' \in Seq(AuthSteps \cup {"torn"})
         /\ result' \in {"none", "verified", "mismatch", "failed"}
<1>1. step \in AuthSteps \ {"complete"} /\ phase = "wait"
  BY DEF TypeInv, Receiving
<1>2. /\ v2 \in BOOLEAN /\ script \in Seq(AuthSteps \cup {"torn"})
      /\ result \in {"none", "verified", "mismatch", "failed"}
  BY DEF TypeInv, BringUpTypeOK
<1>3. p.to \in AuthSteps \/ step = "hello"
  BY DEF Packets, WholeAnswers, ChunkAnswers, OtherPackets, ShortSteps, LongSteps, AuthSteps
<1> DEFINE whole == p.chunk = "no" \/ got = 1 .. Units
<1>4. CASE step = "hello" /\ HelloAnswered(p)
  <2>0. CASE p.kind = "short"
    BY <1>1, <1>2, <1>4, <2>0 DEF HelloAnswered, Fail, GoTo
  <2>1. CASE p.kind = "upgrade"
    <3>1. v2' = TRUE
      BY <1>4, <2>1 DEF HelloAnswered
    <3>2. GoTo("hello2") /\ script' = <<>> /\ UNCHANGED result
      BY <1>4, <2>1, <3>1 DEF HelloAnswered
    <3> QED  BY <1>1, <1>2, <1>4, <3>1, <3>2 DEF GoTo
  <2>2. CASE p.kind \notin {"upgrade", "short"}
    BY <1>1, <1>2, <1>4, <2>2 DEF HelloAnswered, GoTo, Following
  <2> QED  BY <2>0, <2>1, <2>2
<1>5. CASE step \in HashedReceived /\ DataAnswered(p, whole)
  <2>1. CASE Fail
    BY <1>1, <1>2, <2>1 DEF Fail, GoTo
  <2>2. CASE step' = "dead" /\ UNCHANGED <<phase, v2, script, rx, result>>
    BY <1>1, <1>2, <2>2
  <2>3. CASE script' = Hashed(p, whole) /\ GoTo(Following(step)) /\ UNCHANGED <<v2, result>>
    <3>1. p.to \in AuthSteps
      BY <1>3, <1>5 DEF HashedReceived
    <3>2. script' \in Seq(AuthSteps \cup {"torn"})
      BY <1>2, <2>3, <3>1 DEF Hashed
    <3> QED  BY <1>1, <1>2, <2>3, <3>2 DEF GoTo
  <2> HIDE DEF whole
  <2> QED  BY <1>5, <2>1, <2>2, <2>3 DEF DataAnswered
<1>6. CASE step = "cf" /\ FinishAnswered(p, whole)
  BY <1>1, <1>2, <1>6 DEF FinishAnswered, GoTo
<1>7. CASE step \in {"hello2", "hostkey", "secret", "finish"} /\ Acknowledged(p)
  BY <1>1, <1>2, <1>7 DEF Acknowledged, GoTo
<1> HIDE DEF whole
<1> QED  BY <1>4, <1>5, <1>6, <1>7 DEF Answered, whole

\* The scalars of the host, and where its next step may lead.
StepTypes ==
  /\ BringUpTypeOK'
  /\ step' = "complete" => phase' = "send"
  /\ step' \in AuthSteps \ {"hello"} =>
       step \in AuthSteps /\ (step = "hello" => inq # <<>> /\ inq' = Tail(inq))

NoRxType == NoRx \in [on : BOOLEAN, got : SUBSET (1 .. Units), recvd : 0 .. Units]

\* The locals of a receiving loop that has not received anything.
LEMMA NoRxTyped == NoRxType
BY UnitsAssumption DEF NoRx, NoRxType

\* After the hello nothing at the head is of a previous run.
LEMMA LeftoverHead ==
  ASSUME TypeInv, inq # <<>>
  PROVE  /\ Head(inq) \in Packets /\ Tail(inq) \in Seq(Packets)
         /\ Head(inq).to = "previous" => step \notin AuthSteps \ {"hello"}
         /\ \A i \in 1 .. Len(Tail(inq)) : Tail(inq)[i].to # "previous"
<1>1. inq \in Seq(Packets) /\ Head(inq) = inq[1] /\ 1 \in 1 .. Len(inq)
  BY DEF TypeInv, Channels
<1> QED  BY <1>1, TailOf, LeftoverTail DEF TypeInv, Leftover

\* The types after an answer was handed to the handshake ...
LEMMA AnsweredTypes ==
  ASSUME TypeInv, Receiving, Head(inq).type = "auth", NEW got \in SUBSET (1 .. Units),
         Answered(Head(inq), got), inq' = Tail(inq), UNCHANGED <<offset, late, lost, resent>>
  PROVE  StepTypes
<1>1. Head(inq) \in Packets /\ (step = "hello" \/ Head(inq).to # "previous") /\ inq # <<>>
  BY LeftoverHead DEF Receiving
<1>2. step' \in Steps /\ (step' = "complete" => phase' = "send")
      /\ phase' \in {"send", "wait", "chunk", "last"}
      /\ rx' \in [on : BOOLEAN, got : SUBSET (1 .. Units), recvd : 0 .. Units]
  BY <1>1, AnswerMoves, NoRxTyped, Ranks DEF Steps, TypeInv, BringUpTypeOK, NoRxType, AuthSteps
<1> QED
  BY <1>1, <1>2, AnswerMoves DEF TypeInv, BringUpTypeOK, StepTypes, Receiving

\* ... and after any step of the host.
LEMMA HostTypes ==
  ASSUME TypeInv, Host
  PROVE  StepTypes
<1>1. /\ step \in Steps /\ phase \in {"send", "wait", "chunk", "last"}
      /\ script \in Seq(AuthSteps \cup {"torn"}) /\ v2 \in BOOLEAN
      /\ rx \in [on : BOOLEAN, got : SUBSET (1 .. Units), recvd : 0 .. Units]
      /\ offset \in 0 .. SecretLen /\ result \in {"none", "verified", "mismatch", "failed"}
      /\ late \in BOOLEAN /\ {lost, resent} \subseteq 0 .. MaxFaults
      /\ step = "complete" => phase = "send"
  BY DEF TypeInv, BringUpTypeOK
<1>2. NoRxType /\ AuthSteps \subseteq Steps /\ SecretLen = 274 /\ MaxPkt = 58
  BY NoRxTyped DEF Steps, SecretLen, MaxPkt
<1>3. CASE DrainTakes \/ AckIgnores \/ RecvIgnores
  BY <1>1, <1>3 DEF DrainTakes, AckIgnores, RecvIgnores, Receiving, hostVars, devVars,
     StepTypes, BringUpTypeOK, AuthSteps
<1>4. CASE ReadFails
  <2>1. lost' \in 0 .. MaxFaults
    BY <1>1, <1>4, FaultsAssumption DEF ReadFails
  <2> QED  BY <1>1, <1>4, <2>1 DEF ReadFails, hostVars, devVars, StepTypes, BringUpTypeOK
<1>5. CASE DrainEnds
  BY <1>1, <1>2, <1>5 DEF DrainEnds, GoTo, devVars, StepTypes, BringUpTypeOK, NoRxType, Steps,
     AuthSteps
<1>6. CASE RecvExpires
  <2>1. CASE step \in {"hostkey", "secret", "finish"}
    <3>1. Following(step) \in AuthSteps \ {"hello"}
      BY <2>1, Ranks DEF AuthSteps
    <3> QED
      BY <1>1, <1>2, <1>6, <2>1, <3>1
      DEF RecvExpires, GoTo, devVars, StepTypes, BringUpTypeOK, NoRxType
  <2>2. CASE step \notin {"hostkey", "secret", "finish"}
    BY <1>1, <1>2, <1>6, <2>2 DEF RecvExpires, GoTo, Fail, devVars, StepTypes, BringUpTypeOK,
       NoRxType, Steps, AuthSteps
  <2> QED  BY <2>1, <2>2
<1>7. CASE ChunkAckExpires \/ SendFirstChunk
  <2>1. CASE ChunkAckExpires
    BY <1>1, <2>1 DEF ChunkAckExpires, devVars, StepTypes, BringUpTypeOK, AuthSteps
  <2>2. CASE SendFirstChunk
    <3>1. offset' \in 0 .. SecretLen
      BY <2>2 DEF SendFirstChunk, SecretLen, MaxPkt
    <3> QED  BY <1>1, <2>2, <3>1 DEF SendFirstChunk, devVars, StepTypes, BringUpTypeOK, AuthSteps
  <2> QED  BY <1>7, <2>1, <2>2
<1>8. CASE AuthWriteFails
  BY <1>1, <1>8 DEF AuthWriteFails, devVars, StepTypes, BringUpTypeOK, Steps, AuthSteps
<1>9. CASE IdentifyGivesUp \/ IdentifyEnds
  BY <1>1, <1>2, <1>9 DEF IdentifyGivesUp, IdentifyEnds, Identifying, Authenticate, GoTo,
     devVars, StepTypes, BringUpTypeOK, NoRxType, Steps, AuthSteps
<1>10. CASE IdentifyTakes
  <2>1. rx' \in [on : BOOLEAN, got : SUBSET (1 .. Units), recvd : 0 .. Units]
    <3>1. Head(inq).at \in 0 .. Units
      <4>1. Head(inq) \in Packets
        BY <1>10, LeftoverHead DEF IdentifyTakes
      <4>2. 0 \in 0 .. Units
        BY UnitsAssumption
      <4> QED  BY <4>1, <4>2 DEF Packets, WholeAnswers, ChunkAnswers, OtherPackets
    <3> QED  BY <1>1, <1>10, <3>1 DEF IdentifyTakes
  <2> QED
    BY <1>1, <1>10, <2>1
    DEF IdentifyTakes, Identifying, devVars, StepTypes, BringUpTypeOK, AuthSteps
<1>11. CASE IdentifyAckRaises
  BY <1>1, <1>11 DEF IdentifyAckRaises, devVars, StepTypes, BringUpTypeOK, Steps, AuthSteps
<1>12. CASE GipRecv
  BY <1>1, <1>2, <1>12 DEF GipRecv, GoTo, Following, devVars, StepTypes, BringUpTypeOK,
     NoRxType, Steps, AuthSteps
<1>13. CASE GipSend
  BY <1>1, <1>13 DEF GipSend, devVars, StepTypes, BringUpTypeOK, AuthSteps
<1>14. CASE SendSimple
  <2>1. script' \in Seq(AuthSteps \cup {"torn"})
    BY <1>1, <1>14 DEF SendSimple
  <2> QED  BY <1>1, <1>14, <2>1 DEF SendSimple, devVars, StepTypes, BringUpTypeOK
<1>15. CASE SendComplete
  BY <1>1, <1>2, <1>15 DEF SendComplete, GoTo, devVars, StepTypes, BringUpTypeOK, NoRxType,
     Steps, AuthSteps
<1>16. CASE SendNextChunk
  BY <1>1, <1>2, <1>16 DEF SendNextChunk, devVars, StepTypes, BringUpTypeOK, AuthSteps
<1>17. CASE SendEndChunk
  <2>1. script' \in Seq(AuthSteps \cup {"torn"})
    BY <1>1, <1>17 DEF SendEndChunk, AuthSteps
  <2> QED  BY <1>1, <1>17, <2>1 DEF SendEndChunk, devVars, StepTypes, BringUpTypeOK, AuthSteps
<1>18. CASE RecvWhole
  BY <1>18, AnsweredTypes DEF RecvWhole, devVars
<1>19. ASSUME Receiving, Head(inq).type = "auth" \/ Head(inq).chunk = "start",
              Head(inq).chunk \in {"start", "data"}
       PROVE  Head(inq).at \in 1 .. Units /\ (Head(inq).chunk = "start" => Head(inq).at = 1)
  <2>1. Head(inq) \in Packets
    BY <1>19, LeftoverHead DEF Receiving
  <2>2. Head(inq) \in ChunkAnswers
    BY <1>19, <2>1 DEF Packets, WholeAnswers, OtherPackets
  <2> QED  BY <1>19, <2>2, UnitsAssumption DEF ChunkAnswers
<1>20. CASE RecvStart
  <2>1. rx' \in [on : BOOLEAN, got : SUBSET (1 .. Units), recvd : 0 .. Units]
    BY <1>19, <1>20, UnitsAssumption DEF RecvStart
  <2> QED  BY <1>1, <1>20, <2>1 DEF RecvStart, Receiving, devVars, StepTypes, BringUpTypeOK
<1>21. CASE RecvChunk
  <2>1. /\ Receiving /\ Head(inq).type = "auth" /\ Head(inq).chunk = "data"
        /\ inq' = Tail(inq) /\ UNCHANGED <<offset, late, lost, resent>>
    BY <1>21 DEF RecvChunk, devVars
  <2>2. rx.got \cup {Head(inq).at} \in SUBSET (1 .. Units) /\ Head(inq).at \in 0 .. Units
    BY <1>1, <1>19, <2>1
  <2>3. CASE Answered(Head(inq), rx.got \cup {Head(inq).at})
    BY <2>1, <2>2, <2>3, AnsweredTypes
  <2>4. CASE /\ rx' = [on |-> TRUE, got |-> rx.got \cup {Head(inq).at}, recvd |-> Head(inq).at]
             /\ UNCHANGED <<step, phase, v2, script, result, taken>>
    BY <1>1, <2>1, <2>2, <2>4 DEF StepTypes, BringUpTypeOK, Receiving
  <2> QED  BY <1>21, <2>3, <2>4 DEF RecvChunk
<1>22. CASE RecvEnd
  <2>1. rx.got \in SUBSET (1 .. Units)
    BY <1>1
  <2> QED  BY <1>22, <2>1, AnsweredTypes DEF RecvEnd, devVars
<1> QED
  BY <1>3, <1>4, <1>5, <1>6, <1>7, <1>8, <1>9, <1>10, <1>11, <1>12, <1>13, <1>14, <1>15, <1>16,
     <1>17, <1>18, <1>20, <1>21, <1>22 DEF Host

\* The hello has taken what a previous run left, or found nothing.
LEMMA HostLeftover ==
  ASSUME TypeInv, seqRef \in Nat, Host
  PROVE  Leftover'
<1>1. StepTypes /\ TakesOrNot /\ UNCHANGED dev
  BY HostTypes, HostQueues DEF devVars
<1>2. CASE inq # <<>> /\ inq' = Tail(inq)
  BY <1>1, <1>2, LeftoverHead DEF Leftover, TypeInv
<1>3. CASE inq' = inq /\ (step = "hello" => step' \notin AuthSteps \ {"hello"})
  <2>1. step' \in AuthSteps \ {"hello"} => step \in AuthSteps \ {"hello"}
    BY <1>1, <1>3 DEF StepTypes
  <2> QED  BY <1>1, <1>3, <2>1 DEF Leftover, TypeInv
<1> QED  BY <1>1, <1>2, <1>3 DEF StepTypes, TakesOrNot

\* A step of the bring-up keeps the types.
LEMMA BringUpTypes ==
  ASSUME TypeInv, seqRef \in Nat, BringUp
  PROVE  TypeInv'
<1>1. CASE Host
  BY <1>1, HostTypes, HostQueues, HostChannels, HostLeftover DEF StepTypes, TypeInv
<1>2. CASE Device
  <2>1. Channels' /\ Leftover' /\ UNCHANGED <<hostVars, taken, late, lost>>
    BY <1>2, DeviceTypes DEF TypeInv
  <2>2. resent' \in 0 .. MaxFaults
    <3>1. lost \in 0 .. MaxFaults /\ resent \in 0 .. MaxFaults
      BY DEF TypeInv, BringUpTypeOK
    <3> QED  BY <1>2, <3>1, FaultsAssumption DEF Device, DevTake, DevSend, DevResend
  <2> QED  BY <2>1, <2>2 DEF hostVars, TypeInv, BringUpTypeOK
<1> QED  BY <1>1, <1>2 DEF BringUp

\* The numbers of the steps follow their order.
LEMMA NumbersOf ==
  /\ \A s \in AuthSteps : Number(s) = Rank(s) + 1 /\ Number(s) \in 2 .. 11
  /\ \A s \in AuthSteps : /\ NextNumber(s, "wait") = Number(s) + 1
                          /\ \A ph : ph # "wait" => NextNumber(s, ph) = Number(s)
  /\ \A ph : /\ NextNumber("drain", ph) = 1
             /\ NextNumber("done", ph) = 14 /\ NextNumber("dead", ph) = 14
             /\ NextNumber("off", ph) = 14
             /\ ph # "wait" => /\ NextNumber("identify", ph) = 1
                               /\ NextNumber("format", ph) = 12 /\ NextNumber("power", ph) = 13
  /\ NextNumber("identify", "wait") = 2
  /\ NextNumber("format", "wait") = 13 /\ NextNumber("power", "wait") = 14
<1>1. \A s \in AuthSteps : s \notin {"identify", "format", "power", "drain", "done", "dead", "off"}
  BY DEF AuthSteps
<1>2. \A s \in AuthSteps : Number(s) = Rank(s) + 1
  BY <1>1 DEF Number
<1>3. \A s \in AuthSteps : Rank(s) \in 1 .. 10
  BY Ranks
<1>4. Number("identify") = 1 /\ Number("format") = 12 /\ Number("power") = 13
  BY DEF Number
<1>5. \A s \in AuthSteps : Number(s) \in 2 .. 11
  BY <1>2, <1>3
<1>6. \A s \in AuthSteps : /\ NextNumber(s, "wait") = Number(s) + 1
                           /\ \A ph : ph # "wait" => NextNumber(s, ph) = Number(s)
  BY <1>1 DEF NextNumber
<1> QED  BY <1>2, <1>4, <1>5, <1>6 DEF NextNumber

\* A number is taken with a message, and every step sends one at most.
LEMMA HostNumbers ==
  ASSUME TypeInv, seqRef \in 1 .. NextNumber(step, phase), Host
  PROVE  seqRef' \in 1 .. NextNumber(step', phase') /\ NextNumber(step', phase') \in 1 .. 14
<1> DEFINE Within == seqRef' \in 1 .. NextNumber(step', phase')
                     /\ NextNumber(step', phase') \in 1 .. 14
<1> SUFFICES Within
  OBVIOUS
<1>0. step \in Steps /\ (step # "complete" \/ phase = "send")
  BY DEF TypeInv, BringUpTypeOK
<1>1. ASSUME UNCHANGED <<seqRef, step, phase>>,
             step \in {"drain", "identify", "format", "power"} \cup AuthSteps
      PROVE  Within
  BY <1>1, NumbersOf
<1>2. ASSUME UNCHANGED seqRef, step \in AuthSteps,
             \/ step' = "dead"
             \/ phase' = "send" /\ step' \in {"format", Following(step)} /\ step # "complete"
             \/ (phase' = "send" /\ step = "hello" /\ step' = "hello2")
      PROVE  Within
  <2>1. NextNumber(step, phase) <= Rank(step) + 2 /\ Rank(step) \in 1 .. 10
    BY <1>2, NumbersOf, Ranks
  <2>2. CASE step' = "dead"
    BY <1>2, <2>1, <2>2, NumbersOf
  <2>3. CASE phase' = "send" /\ step' = "format" /\ step # "complete"
    <3>1. Rank(step) # Rank("complete") /\ Rank("complete") = 10
      BY <1>2, <2>3, Ranks DEF Rank, AuthSteps
    <3> QED  BY <1>2, <2>1, <2>3, <3>1, NumbersOf
  <2>4. CASE phase' = "send" /\ step' = Following(step) /\ step # "complete"
    <3>1. step' \in AuthSteps /\ Rank(step) < Rank(step') /\ Rank(step') \in 1 .. 10
      BY <1>2, <2>4, Ranks
    <3> QED  BY <1>2, <2>1, <2>4, <3>1, NumbersOf
  <2>5. CASE phase' = "send" /\ step = "hello" /\ step' = "hello2"
    <3>1. step' \in AuthSteps /\ Rank(step) = 1 /\ Rank(step') = 2
      BY <2>5 DEF AuthSteps, Rank
    <3> QED  BY <1>2, <2>1, <2>5, <3>1, NumbersOf
  <2> QED  BY <1>2, <2>2, <2>3, <2>4, <2>5
<1>3. CASE DrainTakes \/ AckIgnores \/ RecvIgnores \/ ReadFails \/ IdentifyTakes
  BY <1>1, <1>3 DEF DrainTakes, AckIgnores, RecvIgnores, ReadFails, IdentifyTakes, Identifying,
     Receiving, hostVars, AuthSteps
<1>4. CASE DrainEnds
  BY <1>4, NumbersOf DEF DrainEnds, GoTo
<1>5. CASE RecvExpires
  BY <1>0, <1>2, <1>5 DEF RecvExpires, GoTo, Fail
<1>6. CASE ChunkAckExpires \/ SendFirstChunk \/ SendNextChunk
  BY <1>6, NumbersOf DEF ChunkAckExpires, SendFirstChunk, SendNextChunk, AuthSteps
<1>7. CASE AuthWriteFails
  BY <1>2, <1>7 DEF AuthWriteFails
<1>8. CASE IdentifyGivesUp \/ IdentifyEnds \/ IdentifyAckRaises
  <2>1. NextNumber("hello", "send") = 2
    BY NumbersOf DEF AuthSteps, Rank
  <2> QED
    BY <1>8, <2>1, NumbersOf
    DEF IdentifyGivesUp, IdentifyEnds, IdentifyAckRaises, Identifying, Authenticate, GoTo
<1>9. CASE GipRecv
  BY <1>9, NumbersOf DEF GipRecv, GoTo, Following
<1>10. CASE GipSend
  BY <1>10, NumbersOf DEF GipSend
<1>11. CASE SendSimple
  BY <1>11, NumbersOf DEF SendSimple
<1>12. CASE SendComplete
  BY <1>12, NumbersOf DEF SendComplete, GoTo, AuthSteps
<1>13. CASE SendEndChunk
  BY <1>13, NumbersOf DEF SendEndChunk, AuthSteps
<1>14. ASSUME Receiving, Head(inq).type = "auth", NEW got \in SUBSET (1 .. Units),
              Answered(Head(inq), got), UNCHANGED seqRef
       PROVE  Within
  <2>1. Head(inq) \in Packets /\ (step = "hello" \/ Head(inq).to # "previous")
    BY <1>14, LeftoverHead DEF Receiving
  <2> QED  BY <1>2, <1>14, <2>1, AnswerMoves
<1>15. CASE RecvWhole
  BY <1>14, <1>15 DEF RecvWhole
<1>16. CASE RecvStart
  BY <1>1, <1>16 DEF RecvStart, Receiving
<1>17. CASE RecvEnd
  BY <1>14, <1>17 DEF RecvEnd, TypeInv, BringUpTypeOK
<1>18. CASE RecvChunk
  <2>1. CASE Answered(Head(inq), rx.got \cup {Head(inq).at})
    <3>1. Head(inq) \in Packets /\ Head(inq).type = "auth" /\ Head(inq).chunk = "data"
          /\ UNCHANGED seqRef /\ Receiving
      BY <1>18, LeftoverHead DEF RecvChunk, Receiving
    <3>2. Head(inq) \in ChunkAnswers
      BY <3>1 DEF Packets, WholeAnswers, OtherPackets
    <3>3. rx.got \cup {Head(inq).at} \in SUBSET (1 .. Units)
      BY <3>1, <3>2, UnitsAssumption DEF ChunkAnswers, TypeInv, BringUpTypeOK
    <3> QED  BY <1>14, <2>1, <3>1, <3>3
  <2>2. CASE UNCHANGED <<step, phase>>
    BY <1>1, <1>18, <2>2 DEF RecvChunk, Receiving
  <2> QED  BY <1>18, <2>1, <2>2 DEF RecvChunk
<1> QED
  BY <1>3, <1>4, <1>5, <1>6, <1>7, <1>8, <1>9, <1>10, <1>11, <1>12, <1>13, <1>15, <1>16, <1>17,
     <1>18 DEF Host

---------------------------------------------------------------------------
(* The shutdown. *)

\* The joins are limited, so main goes on past a monitor_gip that is still in
\* its last report.  The invariant says what that leaves: the thread is done, in
\* the part of a report that writes to no gamepad, or back at the loop's
\* test of stop, which main has set before.
BeforeThreads == {"uinput", "bring_up", "bridge", "audio", "threads"}
AfterInterrupt == {"iso_stop", "join", "stop_bridge", "close", "done"}
AfterJoin == {"stop_bridge", "close", "done"}

ShutdownInv ==
  /\ ui \in {"none", "open", "closed"}
  /\ main \in BeforeThreads => gip = "off"
  /\ main \in AfterInterrupt => stop
  /\ main \in AfterJoin => gip \in {"exited", "dead", "top", "media", "chat", "ack"}
  /\ ui = "closed" => main = "done"
  /\ gip = "input" => ui = "open"

\* The driver starts before its threads do.
LEMMA ShutdownInit == Init => ShutdownInv
BY DEF Init, ShutdownInv, BeforeThreads, AfterInterrupt, AfterJoin

\* No step of main or of a thread breaks the invariant of the shutdown.
LEMMA ShutdownStep == ShutdownInv /\ [Next]_vars => ShutdownInv'
<1> SUFFICES ASSUME ShutdownInv, [Next]_vars PROVE ShutdownInv'
  OBVIOUS
<1> USE SlowAssumption DEF BeforeThreads, AfterInterrupt, AfterJoin
<1>1. CASE CreateUinput
  BY <1>1 DEF CreateUinput, ShutdownInv, gipVars
<1>2. CASE InBringUp
  BY <1>2 DEF InBringUp, ShutdownInv, mainVars, gipVars
<1>3. CASE BringUpReturns \/ BringUpRaises
  BY <1>3 DEF BringUpReturns, BringUpRaises, ShutdownInv, gipVars
<1>4. CASE StartBridge \/ StartAudio
  BY <1>4 DEF StartBridge, StartAudio, ShutdownInv, gipVars
<1>5. CASE StartThreads
  BY <1>5 DEF StartThreads, ShutdownInv
<1>6. CASE Interrupt
  BY <1>6 DEF Interrupt, ShutdownInv, gipVars
<1>7. CASE StopIso
  BY <1>7 DEF StopIso, ShutdownInv, gipVars
<1>8. CASE JoinThreads
  BY <1>8 DEF JoinThreads, ShutdownInv, gipVars
<1>9. CASE StopBridge
  BY <1>9 DEF StopBridge, ShutdownInv, gipVars
<1>10. CASE CloseAll
  BY <1>10 DEF CloseAll, ShutdownInv, gipVars
<1>11. CASE MonitorTop
  BY <1>11 DEF MonitorTop, ShutdownInv, mainVars
<1>12. CASE MonitorReads
  BY <1>12 DEF MonitorReads, Handling, ShutdownInv, mainVars
<1>13. CASE MonitorReadsNothing \/ ForwardInput
  BY <1>13 DEF MonitorReadsNothing, ForwardInput, ShutdownInv, mainVars
<1>14. CASE ForwardMedia \/ AnswerAck
  BY <1>14 DEF ForwardMedia, AnswerAck, ShutdownInv, mainVars
<1>15. CASE AnswerStatus \/ AnswerKnobs
  BY <1>15 DEF AnswerStatus, AnswerKnobs, Answer, ShutdownInv, mainVars
<1>16. CASE MonitorCtrl
  BY <1>16 DEF MonitorCtrl, ShutdownInv, mainVars, gipVars
<1>17. CASE UNCHANGED vars
  BY <1>17 DEF vars, ShutdownInv, mainVars, gipVars
<1> QED
  BY <1>1, <1>2, <1>3, <1>4, <1>5, <1>6, <1>7, <1>8, <1>9, <1>10, <1>11, <1>12, <1>13, <1>14,
     <1>15, <1>16, <1>17 DEF Next, Main, Threads

\* main closes the gamepad next to a thread it has not waited for to the end
\* (the one-second joins of gip_init.py), and that thread never writes to it
\* afterwards.
THEOREM GamepadIsQuiet == Spec => []QuietAfterClose
<1>1. ShutdownInv => QuietAfterClose
  BY DEF ShutdownInv, QuietAfterClose
<1> QED
  BY ShutdownInit, ShutdownStep, <1>1, PTL DEF Spec

---------------------------------------------------------------------------
(* Types and sequence numbers, as a whole. *)

MainTypes ==
  /\ main \in {"uinput", "bring_up", "bridge", "audio", "threads", "run", "iso_stop", "join",
               "stop_bridge", "close", "done", "dead"}
  /\ ui \in {"none", "open", "closed"}
  /\ {bridge, stop} \subseteq BOOLEAN
  /\ audio \in {"none", "iso", "sync"}
  /\ gip \in {"off", "top", "read", "input", "status", "media", "chat", "ack", "exited", "dead"}
  /\ report \in Reports \cup {NoReport}
  /\ ctrl \in {"off", "running", "exited"}

\* Nothing written yet is read back as a header of zeros.
LEMMA NoHeaderFits == NoHeader \in Headers
BY DEF NoHeader, Headers, NoOffset, IsChunk, Chunk

\* The types and numbers at the start.
LEMMA TypesInit == Init => TypeInv /\ Numbers /\ MainTypes
<1> SUFFICES ASSUME Init PROVE TypeInv /\ Numbers /\ MainTypes
  OBVIOUS
<1>1. BringUpTypeOK
  <2>1. 0 \in 0 .. MaxFaults /\ 0 \in 0 .. SecretLen /\ <<>> \in Seq(AuthSteps \cup {"torn"})
    BY FaultsAssumption DEF SecretLen
  <2> QED  BY <2>1, NoRxTyped DEF Init, BringUpInit, BringUpTypeOK, NoRxType, Steps
<1>2. Channels
  <2>1. inq \in Seq(Packets) /\ outq \in Seq(Messages)
    <3>1. \A x \in Packets : <<x>> \in Seq(Packets)
      OBVIOUS
    <3>2. <<>> \in Seq(Packets) /\ <<>> \in Seq(Messages)
      OBVIOUS
    <3> QED  BY <3>1, <3>2, KnownPackets DEF Init, BringUpInit
  <2>2. dev \in [script : Seq(AuthSteps), got : Nat, send : Seq(Packets), await : Packets]
        /\ dev.await = NoPacket
    BY KnownPackets DEF Init, BringUpInit, SilentDevice
  <2> QED  BY <2>1, <2>2 DEF Channels
<1>3. Leftover
  <2>1. Len(inq) \in {0, 1}
    BY DEF Init, BringUpInit
  <2>2. dev.send = <<>> /\ dev.await = NoPacket /\ step = "drain"
    BY DEF Init, BringUpInit, SilentDevice
  <2> QED  BY <2>1, <2>2, KnownPackets DEF Leftover, AuthSteps
<1>4. wire \in Headers /\ step # "complete"
  BY NoHeaderFits DEF Init, BringUpInit
<1>5. Numbers
  <2>1. NextNumber(step, phase) = 1
    BY NumbersOf DEF Init, BringUpInit
  <2> QED  BY <2>1, SeqAssumption DEF Init, BringUpInit, Numbers
<1>6. MainTypes
  BY DEF Init, MainTypes
<1> QED  BY <1>1, <1>2, <1>3, <1>4, <1>5, <1>6 DEF TypeInv

\* Nothing of the bring-up is looked at once it has returned.
LEMMA ForgetTypes == Forget => TypeInv' /\ step' = "off"
<1> SUFFICES ASSUME Forget PROVE TypeInv'
  BY DEF Forget
<1>1. BringUpTypeOK'
  <2>1. 0 \in 0 .. MaxFaults /\ 0 \in 0 .. SecretLen /\ <<>> \in Seq(AuthSteps \cup {"torn"})
    BY FaultsAssumption DEF SecretLen
  <2> QED  BY <2>1, NoRxTyped DEF Forget, BringUpTypeOK, NoRxType, Steps
<1>2. Channels' /\ Leftover'
  BY KnownPackets DEF Forget, SilentDevice, Channels, Leftover, AuthSteps
<1>3. wire' \in Headers /\ step' # "complete"
  BY NoHeaderFits DEF Forget
<1> QED  BY <1>1, <1>2, <1>3 DEF TypeInv

\* What the threads change of the bring-up is the header last written.
LEMMA ReadVarsTypes ==
  ASSUME TypeInv, UNCHANGED readVars, wire' \in Headers
  PROVE  TypeInv'
BY DEF TypeInv, BringUpTypeOK, Channels, Leftover, readVars, devVars

\* An answer of the monitor takes a number, and the first that is no byte ends it.
LEMMA AnswerNumbers ==
  ASSUME TypeInv, Numbers, MainTypes, NEW cmd \in Nat, NEW len \in Nat, NEW next \in {"top", "ack"},
         gip \in {"status", "chat"}, Answer(cmd, Client + Internal, len, next)
  PROVE  TypeInv' /\ Numbers' /\ MainTypes'
<1>1. seqRef \in 1 .. SeqLimit + 1 /\ seqRef' = seqRef + 1 /\ gip # "off"
  BY SeqAssumption DEF Numbers, Answer
<1>2. gip' \in {"dead", next} /\ (gip' = next => seqRef <= SeqLimit)
  BY <1>1, SeqAssumption DEF Answer
<1>3. Numbers'
  BY <1>1, <1>2, SeqAssumption DEF Numbers
<1>4. wire' \in Headers
  <2>1. [cmd |-> cmd, opts |-> Client + Internal, seq |-> seqRef, len |-> len, off |-> NoOffset]
        \in Headers
    BY <1>1, SeqAssumption DEF Headers, IsChunk, Client, Internal, Chunk
  <2> QED  BY <2>1 DEF Answer, TypeInv
<1>5. TypeInv'
  BY <1>4, ReadVarsTypes DEF Answer
<1>6. MainTypes'
  BY <1>2 DEF Answer, MainTypes, mainVars
<1> QED  BY <1>3, <1>5, <1>6

\* No step breaks the types or exceeds the numbers.
LEMMA TypesStep ==
  TypeInv /\ Numbers /\ MainTypes /\ ShutdownInv /\ [Next]_vars
    => TypeInv' /\ Numbers' /\ MainTypes'
<1> SUFFICES ASSUME TypeInv, Numbers, MainTypes, ShutdownInv, [Next]_vars
             PROVE  TypeInv' /\ Numbers' /\ MainTypes'
  OBVIOUS
<1>1. ASSUME UNCHANGED bringUpVars
      PROVE  TypeInv' /\ UNCHANGED <<seqRef, step, phase>>
  BY <1>1 DEF bringUpVars, hostVars, devVars, TypeInv, BringUpTypeOK, Channels, Leftover
<1>2. seqRef \in Nat
  BY SeqAssumption DEF Numbers
<1>3. CASE InBringUp
  <2>1. gip = "off" /\ UNCHANGED <<mainVars, gipVars, ctrl>> /\ BringUp
    BY <1>3 DEF InBringUp, ShutdownInv, BeforeThreads
  <2>2. TypeInv'
    BY <1>2, <2>1, BringUpTypes
  <2>3. MainTypes'
    BY <2>1 DEF MainTypes, mainVars, gipVars
  <2>4. CASE Host
    <3>1. seqRef' \in 1 .. NextNumber(step', phase') /\ NextNumber(step', phase') \in 1 .. 14
      BY <2>1, <2>4, HostNumbers DEF Numbers
    <3> QED  BY <2>1, <2>2, <2>3, <3>1, SeqAssumption DEF Numbers, gipVars
  <2>5. CASE Device
    <3>1. UNCHANGED <<seqRef, step, phase>>
      BY <2>5, DeviceTypes DEF hostVars, TypeInv
    <3> QED  BY <2>1, <2>2, <2>3, <3>1 DEF Numbers, gipVars
  <2> QED  BY <2>1, <2>4, <2>5 DEF BringUp
<1>4. CASE BringUpReturns \/ BringUpRaises
  <2>1. seqRef <= 14 /\ gip = "off"
    BY <1>4, NumbersOf DEF BringUpReturns, BringUpRaises, Numbers, ShutdownInv, BeforeThreads
  <2>2. TypeInv' /\ step' = "off"
        /\ UNCHANGED <<seqRef, gip, report, ctrl, ui, bridge, audio, stop>>
    BY <1>4, ForgetTypes DEF BringUpReturns, BringUpRaises, gipVars
  <2>3. main' \in {"bridge", "dead"}
    BY <1>4 DEF BringUpReturns, BringUpRaises
  <2> QED  BY <2>1, <2>2, <2>3, NumbersOf DEF Numbers, MainTypes
<1>5. CASE CreateUinput
  BY <1>1, <1>5 DEF CreateUinput, gipVars, Numbers, MainTypes
<1>6. CASE StartBridge \/ StartAudio
  BY <1>1, <1>6 DEF StartBridge, StartAudio, gipVars, Numbers, MainTypes
<1>7. CASE StartThreads
  <2>1. seqRef <= NextNumber(step, phase)
    BY <1>7 DEF StartThreads, Numbers, ShutdownInv, BeforeThreads
  <2>3. NextNumber(step, phase) \in 1 .. 14
    BY NumbersOf, Ranks DEF TypeInv, BringUpTypeOK, Steps
  <2>4. seqRef <= SeqLimit + 1
    BY <2>1, <2>3, SeqAssumption DEF Numbers
  <2> QED  BY <1>1, <1>7, <2>4 DEF StartThreads, Numbers, MainTypes
<1>8. CASE Interrupt
  <2>1. CASE /\ main' = "iso_stop" /\ stop' = TRUE
             /\ UNCHANGED <<bringUpVars, ui, bridge, audio, gipVars, ctrl>>
    BY <1>1, <2>1 DEF gipVars, Numbers, MainTypes
  <2>2. CASE Forget /\ main' = "dead" /\ UNCHANGED <<seqRef, ui, bridge, audio, stop, gipVars, ctrl>>
    <3>1. NextNumber(step, phase) \in 1 .. 14
      BY NumbersOf, Ranks DEF TypeInv, BringUpTypeOK, Steps
    <3>2. TypeInv' /\ step' = "off"
      BY <2>2, ForgetTypes
    <3>3. Numbers'
      <4>1. gip = "off" => seqRef <= 14
        BY <3>1, SeqAssumption DEF Numbers
      <4> QED  BY <2>2, <3>2, <4>1, NumbersOf DEF gipVars, Numbers
    <3>4. MainTypes'
      BY <2>2 DEF gipVars, MainTypes
    <3> QED  BY <3>2, <3>3, <3>4
  <2> QED  BY <1>8, <2>1, <2>2 DEF Interrupt
<1>9. CASE StopIso \/ JoinThreads \/ StopBridge \/ CloseAll
  BY <1>1, <1>9 DEF StopIso, JoinThreads, StopBridge, CloseAll, gipVars, Numbers, MainTypes
<1>10. CASE MonitorTop
  <2>1. TypeInv'
    BY <1>10, ReadVarsTypes, NoHeaderFits DEF MonitorTop
  <2> QED  BY <1>10, <2>1 DEF MonitorTop, Numbers, MainTypes, mainVars
<1>11. CASE MonitorReads
  <2>1. gip = "read" /\ UNCHANGED <<bringUpVars, mainVars, ctrl>>
    BY <1>11 DEF MonitorReads
  <2>2. gip' \in {"top", "input", "status", "media", "ack"} /\ report' \in Reports \cup {NoReport}
    BY <1>11 DEF MonitorReads, Handling
  <2> QED  BY <1>1, <2>1, <2>2 DEF Numbers, MainTypes, mainVars
<1>12. CASE MonitorReadsNothing \/ ForwardInput \/ ForwardMedia
  BY <1>1, <1>12 DEF MonitorReadsNothing, ForwardInput, ForwardMedia, Numbers, MainTypes,
     mainVars
<1>13. CASE AnswerStatus
  BY <1>13, AnswerNumbers DEF AnswerStatus
<1>14. CASE AnswerKnobs
  BY <1>14, AnswerNumbers DEF AnswerKnobs
<1>15. CASE AnswerAck
  <2>1. wire' \in Headers
    <3>1. ASSUME NEW n \in Nat
          PROVE  [cmd |-> 1, opts |-> Internal, seq |-> n, len |-> 9, off |-> NoOffset] \in Headers
      BY DEF Headers, IsChunk, Internal, Chunk
    <3> QED  BY <1>15, <3>1, SeqAssumption DEF AnswerAck, TypeInv
  <2>2. TypeInv'
    BY <1>15, <2>1, ReadVarsTypes DEF AnswerAck
  <2> QED  BY <1>15, <2>2 DEF AnswerAck, Numbers, MainTypes, mainVars
<1>16. CASE MonitorCtrl
  BY <1>1, <1>16 DEF MonitorCtrl, Numbers, MainTypes, mainVars, gipVars
<1>17. CASE UNCHANGED vars
  BY <1>1, <1>17 DEF vars, Numbers, MainTypes, mainVars, gipVars
<1> QED
  BY <1>3, <1>4, <1>5, <1>6, <1>7, <1>8, <1>9, <1>10, <1>11, <1>12, <1>13, <1>14, <1>15, <1>16,
     <1>17 DEF Next, Main, Threads

(***************************************************************************)
(* Type correctness of the driver.  In the queues of the endpoints are     *)
(* packets and messages of their kinds, the header last written has an     *)
(* offset exactly when it is a chunk's, and the numbers stay within        *)
(* bounds: the bring-up takes at most 13 before the monitor thread starts, *)
(* and that thread ends at the first it cannot write as a byte             *)
(* (bytes([cmd, opts, seq]) in build_gip_header).                          *)
(***************************************************************************)
THEOREM TypeCorrect == Spec => []TypeOK
<1>1. TypeInv /\ Numbers /\ MainTypes => TypeOK
  BY DEF TypeInv, Numbers, MainTypes, TypeOK
<1> QED
  BY TypesInit, TypesStep, ShutdownInit, ShutdownStep, <1>1, PTL DEF Spec

(***************************************************************************)
(* The device reads every header as it was meant, padding and all          *)
(* (build_gip_header against decode_gip_header), in every message that     *)
(* gip_init, the handshake and the monitor thread write.                   *)
(***************************************************************************)
THEOREM HeadersReadBack == Spec => []PacketReadBack
<1>1. TypeInv => PacketReadBack
  <2> SUFFICES ASSUME TypeInv PROVE ReadBack(wire)
    BY DEF PacketReadBack
  <2>1. wire \in Headers
    BY DEF TypeInv
  <2>2. wire = [cmd |-> wire.cmd, opts |-> wire.opts, seq |-> wire.seq, len |-> wire.len,
                off |-> wire.off]
    BY <2>1 DEF Headers
  <2>3. ReadBack([cmd |-> wire.cmd, opts |-> wire.opts, seq |-> wire.seq, len |-> wire.len,
                  off |-> wire.off])
    BY <2>1, HeaderReadBack DEF Headers
  <2> QED  BY <2>2, <2>3
<1> QED
  BY TypesInit, TypesStep, ShutdownInit, ShutdownStep, <1>1, PTL DEF Spec

\* What the bring-up writes has a number of its own, or the 1 of an acknowledgement.
LEMMA HostWritesByte ==
  ASSUME TypeInv, seqRef \in 1 .. NextNumber(step, phase), Host
  PROVE  wire' = wire \/ wire'.seq \in 1 .. 13
<1>1. ASSUME step \in Sending, phase # "wait"
      PROVE  seqRef \in 1 .. 13
  <2>1. NextNumber(step, phase) \in 1 .. 13
    BY <1>1, NumbersOf DEF Sending
  <2> QED  BY <2>1
<1>2. ASSUME seqRef \in 1 .. 13, NEW opts, NEW len, NEW off, NEW s, NEW part,
             Write(Header(opts, len, off), s, part)
      PROVE  wire'.seq \in 1 .. 13
  BY <1>2 DEF Write, Header
<1>3. CASE DrainTakes \/ AckIgnores \/ RecvIgnores \/ ReadFails
  BY <1>3 DEF DrainTakes, AckIgnores, RecvIgnores, ReadFails, hostVars
<1>4. CASE DrainEnds \/ RecvExpires \/ ChunkAckExpires \/ AuthWriteFails \/ IdentifyGivesUp
  BY <1>4 DEF DrainEnds, RecvExpires, ChunkAckExpires, AuthWriteFails, IdentifyGivesUp
<1>5. CASE IdentifyTakes \/ IdentifyAckRaises \/ IdentifyEnds \/ GipRecv \/ RecvWhole \/ RecvEnd
  BY <1>5 DEF IdentifyTakes, IdentifyAckRaises, IdentifyEnds, GipRecv, RecvWhole, RecvEnd
<1>6. CASE GipSend
  <2>1. seqRef \in 1 .. 13
    BY <1>1, <1>6 DEF GipSend, Sending
  <2> QED  BY <1>2, <1>6, <2>1 DEF GipSend
<1>7. CASE SendSimple
  <2>1. seqRef \in 1 .. 13
    BY <1>1, <1>7 DEF SendSimple, Sending
  <2> QED  BY <1>2, <1>7, <2>1 DEF SendSimple
<1>8. CASE SendComplete
  <2>1. seqRef \in 1 .. 13
    BY <1>1, <1>8 DEF SendComplete, Sending, AuthSteps
  <2> QED  BY <1>2, <1>8, <2>1 DEF SendComplete
<1>9. CASE SendFirstChunk \/ SendNextChunk \/ SendEndChunk
  <2>1. step = "secret" /\ phase # "wait"
    BY <1>9 DEF SendFirstChunk, SendNextChunk, SendEndChunk
  <2>2. seqRef \in 1 .. 13
    BY <1>1, <2>1 DEF Sending, AuthSteps
  <2>3. \E opts, len, off, part : Write(Header(opts, len, off), step, part)
    BY <1>9 DEF SendFirstChunk, SendNextChunk, SendEndChunk, ChunkHeader
  <2> QED  BY <1>2, <2>2, <2>3
<1>10. CASE RecvStart \/ RecvChunk
  <2>1. Acknowledge(Head(inq))
    BY <1>10 DEF RecvStart, RecvChunk
  <2> QED  BY <2>1 DEF Acknowledge, Write
<1> QED
  BY <1>3, <1>4, <1>5, <1>6, <1>7, <1>8, <1>9, <1>10 DEF Host

\* Every number on the wire is a byte, and the monitor thread ends only for
\* want of one.
NumbersRunOut ==
  /\ wire.seq \in 0 .. SeqLimit
  /\ gip = "dead" => seqRef > SeqLimit

LEMMA RunOutStep ==
  TypeInv /\ Numbers /\ ShutdownInv /\ NumbersRunOut /\ [Next]_vars => NumbersRunOut'
<1> SUFFICES ASSUME TypeInv, Numbers, ShutdownInv, NumbersRunOut, [Next]_vars
             PROVE  NumbersRunOut'
  OBVIOUS
<1>1. ASSUME UNCHANGED <<wire, seqRef>>, gip' = "dead" => gip = "dead"
      PROVE  NumbersRunOut'
  BY <1>1 DEF NumbersRunOut
<1>2. NoHeader.seq \in 0 .. SeqLimit /\ seqRef \in Nat
  BY SeqAssumption DEF NoHeader, Numbers
<1>3. CASE InBringUp
  <2>1. gip = "off" /\ gip' = "off" /\ BringUp
    BY <1>3 DEF InBringUp, ShutdownInv, BeforeThreads, gipVars
  <2>2. CASE Host
    BY <2>1, <2>2, HostWritesByte, SeqAssumption DEF Numbers, NumbersRunOut
  <2>3. CASE Device
    BY <1>1, <2>1, <2>3, DeviceTypes DEF TypeInv, hostVars
  <2> QED  BY <2>1, <2>2, <2>3 DEF BringUp
<1>4. ASSUME Forget, UNCHANGED <<seqRef, gip>>
      PROVE  NumbersRunOut'
  BY <1>2, <1>4 DEF Forget, NumbersRunOut
<1>5. CASE BringUpReturns \/ BringUpRaises
  BY <1>4, <1>5 DEF BringUpReturns, BringUpRaises, gipVars
<1>6. CASE CreateUinput \/ StartBridge \/ StartAudio \/ StartThreads
  BY <1>1, <1>6 DEF CreateUinput, StartBridge, StartAudio, StartThreads, bringUpVars, hostVars,
     gipVars
<1>7. CASE Interrupt
  BY <1>1, <1>4, <1>7 DEF Interrupt, bringUpVars, hostVars, gipVars
<1>8. CASE StopIso \/ JoinThreads \/ StopBridge \/ CloseAll
  BY <1>1, <1>8 DEF StopIso, JoinThreads, StopBridge, CloseAll, bringUpVars, hostVars, gipVars
<1>9. CASE MonitorTop
  BY <1>2, <1>9 DEF MonitorTop, NumbersRunOut
<1>10. CASE MonitorReads \/ MonitorReadsNothing \/ ForwardInput \/ ForwardMedia \/ MonitorCtrl
  BY <1>1, <1>10
  DEF MonitorReads, Handling, MonitorReadsNothing, ForwardInput, ForwardMedia, MonitorCtrl,
      bringUpVars, hostVars, gipVars
<1>11. ASSUME NEW cmd, NEW opts, NEW len, NEW next \in {"top", "ack"}, gip # "dead",
              Answer(cmd, opts, len, next)
       PROVE  NumbersRunOut'
  <2>1. seqRef' = seqRef + 1
    BY <1>11 DEF Answer
  <2>2. CASE seqRef > SeqLimit
    BY <1>2, <1>11, <2>1, <2>2, SeqAssumption DEF Answer, NumbersRunOut
  <2>3. CASE ~(seqRef > SeqLimit)
    <3>1. gip' = next /\ (wire' = wire \/ wire'.seq = seqRef)
      BY <1>11, <2>3 DEF Answer
    <3>2. seqRef \in 0 .. SeqLimit
      BY <1>2, <2>3, SeqAssumption
    <3> QED  BY <1>11, <3>1, <3>2 DEF NumbersRunOut
  <2> QED  BY <2>2, <2>3
<1>12. CASE AnswerStatus \/ AnswerKnobs
  BY <1>11, <1>12 DEF AnswerStatus, AnswerKnobs
<1>13. CASE AnswerAck
  <2>1. 1 \in 0 .. SeqLimit /\ SeqLimit \in 0 .. SeqLimit
    BY SeqAssumption
  <2> QED  BY <1>13, <2>1 DEF AnswerAck, NumbersRunOut
<1>14. CASE UNCHANGED vars
  BY <1>1, <1>14 DEF vars, bringUpVars, hostVars, gipVars
<1> QED
  BY <1>3, <1>5, <1>6, <1>7, <1>8, <1>9, <1>10, <1>12, <1>13, <1>14 DEF Next, Main, Threads

(***************************************************************************)
(* Neither the bring-up nor the monitor thread ever writes a number that   *)
(* does not fit the header's byte, and the only thing that ends the        *)
(* monitor thread while main waits for Ctrl+C is that its numbers have run *)
(* out.  So bytes([cmd, opts, seq]) of build_gip_header cannot raise in    *)
(* gip_init, where the model has no such step.                             *)
(***************************************************************************)
THEOREM NumbersAreBytes == Spec => []NumbersRunOut
<1>1. Init => NumbersRunOut
  BY SeqAssumption DEF Init, BringUpInit, NoHeader, NumbersRunOut
<1> QED
  BY TypesInit, TypesStep, ShutdownInit, ShutdownStep, RunOutStep, <1>1, PTL DEF Spec

---------------------------------------------------------------------------
(* The order of what is in flight. *)

\* Taking the head keeps the order: the head was before everything.
LEMMA OrderedTail ==
  ASSUME NEW q \in Seq(Packets), q # <<>>, Ordered(q)
  PROVE  Ordered(Tail(q)) /\ \A x \in Elems(Tail(q)) : Before(Head(q), x)
<1>1. /\ Len(q) \in Nat \ {0} /\ Len(Tail(q)) = Len(q) - 1 /\ Head(q) = q[1]
      /\ \A i \in 1 .. Len(q) - 1 : Tail(q)[i] = q[i + 1]
  OBVIOUS
<1>2. ASSUME NEW i \in 1 .. Len(Tail(q))
      PROVE  Tail(q)[i] = q[i + 1] /\ i + 1 \in 1 .. Len(q) /\ 1 < i + 1 /\ 1 \in 1 .. Len(q)
  BY <1>1
<1>3. Ordered(Tail(q))
  <2> SUFFICES ASSUME NEW i \in 1 .. Len(Tail(q)), NEW j \in 1 .. Len(Tail(q)), i < j
               PROVE  Before(Tail(q)[i], Tail(q)[j])
    BY DEF Ordered
  <2>1. i + 1 < j + 1
    OBVIOUS
  <2> QED  BY <1>2, <2>1 DEF Ordered
<1>4. \A x \in Elems(Tail(q)) : Before(Head(q), x)
  BY <1>1, <1>2 DEF Ordered, Elems
<1> QED  BY <1>3, <1>4

\* Adding what comes after everything keeps the order ...
LEMMA OrderedAppend ==
  ASSUME NEW q \in Seq(Packets), NEW x \in Packets, Ordered(q), \A y \in Elems(q) : Before(y, x)
  PROVE  Ordered(Append(q, x))
<1>1. /\ Len(q) \in Nat /\ Len(Append(q, x)) = Len(q) + 1
      /\ \A i \in 1 .. Len(q) : Append(q, x)[i] = q[i]
      /\ Append(q, x)[Len(q) + 1] = x
  OBVIOUS
<1> SUFFICES ASSUME NEW i \in 1 .. Len(q) + 1, NEW j \in 1 .. Len(q) + 1, i < j
             PROVE  Before(Append(q, x)[i], Append(q, x)[j])
  BY <1>1 DEF Ordered
<1>2. i \in 1 .. Len(q)
  BY <1>1
<1>3. CASE j \in 1 .. Len(q)
  BY <1>1, <1>2, <1>3 DEF Ordered
<1>4. CASE j = Len(q) + 1
  <2>1. Append(q, x)[i] \in Elems(q) /\ Append(q, x)[j] = x
    BY <1>1, <1>2, <1>4 DEF Elems
  <2> QED  BY <2>1
<1> QED  BY <1>1, <1>3, <1>4

\* ... and so does adding an ordered sequence that comes after everything.
LEMMA OrderedJoin ==
  ASSUME NEW q \in Seq(Packets), NEW r \in Seq(Packets), Ordered(q), Ordered(r),
         \A x \in Elems(q), y \in Elems(r) : Before(x, y)
  PROVE  Ordered(q \o r)
<1>1. /\ Len(q) \in Nat /\ Len(r) \in Nat /\ Len(q \o r) = Len(q) + Len(r)
      /\ \A i \in 1 .. Len(q) : (q \o r)[i] = q[i]
      /\ \A i \in 1 .. Len(r) : (q \o r)[Len(q) + i] = r[i]
  OBVIOUS
<1>2. ASSUME NEW i \in 1 .. Len(q) + Len(r), i \notin 1 .. Len(q)
      PROVE  i - Len(q) \in 1 .. Len(r) /\ (q \o r)[i] = r[i - Len(q)]
  <2>1. i - Len(q) \in 1 .. Len(r) /\ Len(q) + (i - Len(q)) = i
    BY <1>1, <1>2
  <2> QED  BY <1>1, <2>1
<1> SUFFICES ASSUME NEW i \in 1 .. Len(q) + Len(r), NEW j \in 1 .. Len(q) + Len(r), i < j
             PROVE  Before((q \o r)[i], (q \o r)[j])
  BY <1>1 DEF Ordered
<1>3. CASE i \in 1 .. Len(q) /\ j \in 1 .. Len(q)
  BY <1>1, <1>3 DEF Ordered
<1>4. CASE i \in 1 .. Len(q) /\ j \notin 1 .. Len(q)
  <2>1. (q \o r)[i] \in Elems(q) /\ (q \o r)[j] \in Elems(r)
    BY <1>1, <1>2, <1>4 DEF Elems
  <2> QED  BY <2>1
<1>5. CASE i \notin 1 .. Len(q) /\ j \notin 1 .. Len(q)
  <2>1. i - Len(q) < j - Len(q)
    BY <1>1
  <2> QED  BY <1>2, <1>5, <2>1 DEF Ordered
<1>6. i \notin 1 .. Len(q) => j \notin 1 .. Len(q)
  BY <1>1
<1> QED  BY <1>3, <1>4, <1>5, <1>6

\* The same of the messages that wait for the device ...
LEMMA OutTail ==
  ASSUME NEW o \in Seq(Messages), o # <<>>, OutOrdered(o)
  PROVE  OutOrdered(Tail(o)) /\ \A m \in Elems(Tail(o)) : OutBefore(Head(o), m)
<1>1. /\ Len(o) \in Nat \ {0} /\ Len(Tail(o)) = Len(o) - 1 /\ Head(o) = o[1]
      /\ \A i \in 1 .. Len(o) - 1 : Tail(o)[i] = o[i + 1]
  OBVIOUS
<1>2. ASSUME NEW i \in 1 .. Len(Tail(o))
      PROVE  Tail(o)[i] = o[i + 1] /\ i + 1 \in 1 .. Len(o) /\ 1 < i + 1 /\ 1 \in 1 .. Len(o)
  BY <1>1
<1>3. OutOrdered(Tail(o))
  <2> SUFFICES ASSUME NEW i \in 1 .. Len(Tail(o)), NEW j \in 1 .. Len(Tail(o)), i < j
               PROVE  OutBefore(Tail(o)[i], Tail(o)[j])
    BY DEF OutOrdered
  <2>1. i + 1 < j + 1
    OBVIOUS
  <2> QED  BY <1>2, <2>1 DEF OutOrdered
<1>4. \A m \in Elems(Tail(o)) : OutBefore(Head(o), m)
  BY <1>1, <1>2 DEF OutOrdered, Elems
<1> QED  BY <1>3, <1>4

\* ... when one is taken, and when one is added.
LEMMA OutAppend ==
  ASSUME NEW o \in Seq(Messages), NEW m \in Messages, OutOrdered(o),
         \A n \in Elems(o) : OutBefore(n, m)
  PROVE  OutOrdered(Append(o, m))
<1>1. /\ Len(o) \in Nat /\ Len(Append(o, m)) = Len(o) + 1
      /\ \A i \in 1 .. Len(o) : Append(o, m)[i] = o[i]
      /\ Append(o, m)[Len(o) + 1] = m
  OBVIOUS
<1> SUFFICES ASSUME NEW i \in 1 .. Len(o) + 1, NEW j \in 1 .. Len(o) + 1, i < j
             PROVE  OutBefore(Append(o, m)[i], Append(o, m)[j])
  BY <1>1 DEF OutOrdered
<1>2. i \in 1 .. Len(o)
  BY <1>1
<1>3. CASE j \in 1 .. Len(o)
  BY <1>1, <1>2, <1>3 DEF OutOrdered
<1>4. CASE j = Len(o) + 1
  <2>1. Append(o, m)[i] \in Elems(o) /\ Append(o, m)[j] = m
    BY <1>1, <1>2, <1>4 DEF Elems
  <2> QED  BY <2>1
<1> QED  BY <1>1, <1>3, <1>4

\* A reply is in order, and every chunk but the first has its predecessor there.
LEMMA ReplyOrder ==
  ASSUME NEW s \in AuthSteps, NEW r \in Reply(s)
  PROVE  /\ r \in Seq(Packets) /\ Ordered(r)
         /\ \A x \in Elems(r) :
              /\ IsAuth(x) /\ x.to = s
              /\ s \in ShortSteps => x.chunk = "no"
              /\ x.chunk # "no" => s \in LongSteps
              /\ s \in LongSteps => x.chunk # "no"
              /\ x.chunk # "no" /\ Pos(x) >= 2 =>
                   \E y \in Elems(r) : y.chunk # "no" /\ Pos(y) = Pos(x) - 1
<1>0. r \in Seq(Packets) /\ ShortSteps \cap LongSteps = {}
  BY ReplyIs DEF ShortSteps, LongSteps
<1>1. CASE r = <<>>
  BY <1>0, <1>1, EmptyOf DEF Ordered
<1>2. CASE s \in ShortSteps /\ \E x \in WholeAnswers : x.to = s /\ r = <<x>>
  <2>1. PICK x \in WholeAnswers : x.to = s /\ r = <<x>>
    BY <1>2
  <2>2. Len(r) = 1 /\ Elems(r) = {x}
    BY <2>1 DEF Elems
  <2>3. Ordered(r)
    BY <2>2 DEF Ordered
  <2>4. IsAuth(x) /\ x.chunk = "no"
    BY <2>1 DEF WholeAnswers, IsAuth
  <2> QED  BY <1>0, <1>2, <2>1, <2>2, <2>3, <2>4
<1>3. CASE s \in LongSteps /\ Chunked(r, s)
  <2>1. /\ Len(r) \in {Units, Units + 1} /\ Units \in Nat
        /\ \A i \in 1 .. Len(r) : r[i] \in ChunkAnswers /\ r[i].to = s /\ Pos(r[i]) = i
    BY <1>3, UnitsAssumption DEF Chunked
  <2>2. \A i \in 1 .. Len(r) : IsAuth(r[i]) /\ r[i].chunk # "no"
    BY <2>1 DEF ChunkAnswers, IsAuth
  <2>3. Ordered(r)
    BY <2>1, <2>2 DEF Ordered, Before
  <2>4. ASSUME NEW i \in 1 .. Len(r), Pos(r[i]) >= 2
        PROVE  \E y \in Elems(r) : y.chunk # "no" /\ Pos(y) = Pos(r[i]) - 1
    <3>1. i - 1 \in 1 .. Len(r)
      BY <2>1, <2>4
    <3> QED  BY <2>1, <2>2, <3>1 DEF Elems
  <2> QED  BY <1>0, <1>3, <2>1, <2>2, <2>3, <2>4 DEF Elems
<1> QED  BY <1>1, <1>2, <1>3, ReplyIs

\* Facts of types.
LEMMA AuthPacket ==
  ASSUME NEW x \in Packets, IsAuth(x)
  PROVE  /\ x.to \in (AuthSteps \ {"complete"}) \cup {"previous"} /\ Rank(x.to) \in 0 .. 9
         /\ x.to = "previous" => x.chunk = "no"
         /\ x.chunk \in {"no", "start", "data", "end"}
         /\ x.chunk = "no" => x.to \in ShortSteps \cup {"previous"}
         /\ x.chunk = "no" => x.ack = FALSE
         /\ x.chunk # "no" => /\ x.to \in LongSteps /\ Pos(x) \in 1 .. Units + 1
                              /\ x.chunk = "start" => Pos(x) = 1 /\ x.at = 1
                              /\ x.chunk = "data" => Pos(x) = x.at /\ x.at \in 2 .. Units
                              /\ x.chunk = "end" => Pos(x) = Units + 1
<1>1. x \in WholeAnswers \/ x \in ChunkAnswers
  BY DEF Packets, IsAuth, OtherPackets
<1>2. Rank("previous") = 0 /\ Rank("complete") = 10
  BY DEF Rank
<1>3. CASE x \in WholeAnswers
  <2>1. x.chunk = "no" /\ x.ack = FALSE /\ x.to \in ShortSteps \cup {"previous"}
    BY <1>3 DEF WholeAnswers
  <2>2. x.to \in (AuthSteps \ {"complete"}) \cup {"previous"}
    BY <2>1 DEF ShortSteps, AuthSteps
  <2>3. Rank(x.to) \in 0 .. 9
    BY <2>1 DEF ShortSteps, Rank
  <2> QED  BY <2>1, <2>2, <2>3
<1>4. CASE x \in ChunkAnswers
  <2>1. x.chunk \in {"start", "data", "end"} /\ x.to \in LongSteps /\ x.at \in 0 .. Units
        /\ (x.chunk = "start" => x.at = 1) /\ (x.chunk = "data" => x.at >= 2)
    BY <1>4 DEF ChunkAnswers
  <2>2. x.to \in AuthSteps \ {"complete"} /\ x.to # "previous"
    BY <2>1 DEF LongSteps, AuthSteps
  <2>3. Rank(x.to) \in 0 .. 9
    BY <2>1 DEF LongSteps, Rank
  <2> QED  BY <2>1, <2>2, <2>3, UnitsAssumption DEF Pos
<1> QED  BY <1>1, <1>3, <1>4

\* Only the answers of the handshake have a first chunk.
LEMMA StartIsAuth ==
  ASSUME NEW x \in Packets, x.chunk = "start"
  PROVE  IsAuth(x)
BY DEF Packets, WholeAnswers, ChunkAnswers, OtherPackets, IsAuth

\* The sets of what is in flight are sets of packets and messages.
LEMMA Typed ==
  ASSUME Channels
  PROVE  /\ inq \in Seq(Packets) /\ dev.send \in Seq(Packets) /\ dev.await \in Packets
         /\ InFlight \subseteq Packets /\ Elems(outq) \subseteq Messages
<1>1. inq \in Seq(Packets) /\ dev.send \in Seq(Packets) /\ dev.await \in Packets
      /\ outq \in Seq(Messages)
  BY DEF Channels
<1> QED  BY <1>1 DEF InFlight, Coming, Elems

\* The steps that packets answer have a place in the order ...
LEMMA RankOf ==
  ASSUME NEW x \in Packets, IsAuth(x)
  PROVE  Rank(x.to) \in Nat
<1>1. Rank(x.to) \in 0 .. 9
  BY AuthPacket
<1> QED  BY <1>1

\* ... chunks have a place in their answer ...
LEMMA PosOf ==
  ASSUME NEW x \in Packets, IsAuth(x), x.chunk # "no"
  PROVE  Pos(x) \in Nat /\ Pos(x) >= 1
<1>1. Pos(x) \in 1 .. Units + 1
  BY AuthPacket
<1> QED  BY <1>1, UnitsAssumption

\* ... and the first chunk is the first.
LEMMA StartPos ==
  ASSUME NEW x \in Packets, IsAuth(x), x.chunk = "start"
  PROVE  Pos(x) = 1 /\ x.at = 1 /\ x.to \in LongSteps
<1>1. x.chunk # "no"
  OBVIOUS
<1> QED  BY <1>1, AuthPacket

---------------------------------------------------------------------------
(* The handshake: what the host takes, and what it sends. *)

Parts == InOrder /\ Below /\ Starts /\ Floor /\ Receipt /\ Holes /\ Pairs /\ Scripts

Waiting == AuthSteps \ {"complete"}

\* The first packet is taken: it comes before all the others.
LEMMA HeadTaken ==
  ASSUME Channels, InOrder, inq # <<>>, inq' = Tail(inq), UNCHANGED dev
  PROVE  /\ Head(inq) \in Packets /\ Head(inq) \in InFlight
         /\ Coming = Coming' \cup {Head(inq)} /\ InFlight = InFlight' \cup {Head(inq)}
         /\ \A x \in InFlight' : Before(Head(inq), x)
         /\ UNCHANGED outq => InOrder'
<1>1. inq \in Seq(Packets)
  BY DEF Channels
<1>2. Head(inq) \in Packets /\ Elems(inq) = {Head(inq)} \cup Elems(inq')
  BY <1>1, TailOf
<1>3. Coming = Coming' \cup {Head(inq)} /\ InFlight = InFlight' \cup {Head(inq)}
  BY <1>2 DEF Coming, InFlight
<1>4. Ordered(inq') /\ \A x \in Elems(inq') : Before(Head(inq), x)
  BY <1>1, OrderedTail DEF InOrder
<1>5. \A x \in InFlight' : Before(Head(inq), x)
  BY <1>2, <1>4 DEF InOrder, InFlight, Coming
<1>6. ASSUME UNCHANGED outq PROVE InOrder'
  BY <1>2, <1>3, <1>4, <1>6 DEF InOrder
<1> QED  BY <1>2, <1>3, <1>5, <1>6

\* An acknowledgement of the host's is no message of the handshake.
LEMMA AckWritten ==
  ASSUME Channels, InOrder,
         outq' = outq \/ \E m \in Messages : outq' = Append(outq, m) /\ m.what = "gipack"
  PROVE  /\ OutOrdered(outq')
         /\ \A m \in Elems(outq') : Sent(m) \/ m.what \in LongSteps => m \in Elems(outq)
<1>1. outq \in Seq(Messages) /\ OutOrdered(outq)
  BY DEF Channels, InOrder
<1>2. ASSUME NEW m \in Messages, outq' = Append(outq, m), m.what = "gipack"
      PROVE  /\ OutOrdered(outq')
             /\ \A n \in Elems(outq') : Sent(n) \/ n.what \in LongSteps => n \in Elems(outq)
  <2>1. ~Sent(m) /\ m.what \notin LongSteps
    BY <1>2 DEF Sent, AuthSteps, LongSteps
  <2>2. OutOrdered(outq')
    BY <1>1, <1>2, <2>1, OutAppend DEF OutBefore
  <2>3. Elems(outq') = Elems(outq) \cup {m}
    BY <1>1, <1>2, AppendOf
  <2> QED  BY <2>1, <2>2, <2>3
<1> QED  BY <1>1, <1>2

\* The packet is dropped, or lost.
LEMMA Drops ==
  ASSUME TypeInv, Parts, step \in Waiting, inq # <<>>, inq' = Tail(inq),
         UNCHANGED <<step, phase, script, rx, dev, outq, late>>,
         \/ lost' # 0
         \/ /\ UNCHANGED lost
            /\ \/ step \notin LongSteps \/ ~IsAuth(Head(inq))
               \/ Head(inq).chunk \in {"data", "end"} /\ ~rx.on
  PROVE  Parts'
<1> DEFINE p == Head(inq)
<1>0. Channels /\ InOrder
  BY DEF TypeInv, Parts
<1>1. /\ p \in Packets /\ Coming = Coming' \cup {p} /\ InFlight = InFlight' \cup {p}
      /\ \A x \in InFlight' : Before(p, x)
      /\ InOrder'
  BY <1>0, HeadTaken
<1>2. InFlight \subseteq Packets
  BY <1>0, Typed
<1>3. Below' /\ Starts' /\ Floor' /\ Receipt' /\ Pairs'
  BY <1>1 DEF Parts, Below, Starts, Floor, Receipt, Pairs
<1>4. Holes'
  <2> SUFFICES ASSUME lost' = 0 PROVE Holes'
    BY DEF Holes
  <2>1. lost = 0 /\ (step \notin LongSteps \/ ~IsAuth(p) \/ (p.chunk \in {"data", "end"} /\ ~rx.on))
    OBVIOUS
  <2>2. rx.on => rx.got = 1 .. rx.recvd
    BY <2>1 DEF Parts, Holes
  <2>3. ASSUME NEW y \in InFlight', IsAuth(y), y.to = step, y.chunk # "no", Pos(y) >= 2
        PROVE  \/ \E x \in Coming' : IsAuth(x) /\ x.to = step /\ x.chunk # "no" /\ Pos(x) = Pos(y) - 1
               \/ rx.on /\ Pos(y) - 1 <= rx.recvd
    <3>1. \/ \E x \in Coming : IsAuth(x) /\ x.to = step /\ x.chunk # "no" /\ Pos(x) = Pos(y) - 1
          \/ rx.on /\ Pos(y) - 1 <= rx.recvd
      BY <1>1, <2>1, <2>3 DEF Parts, Holes
    <3>2. step \in LongSteps
      BY <1>1, <1>2, <2>3, AuthPacket
    <3>3. ASSUME IsAuth(p), p.to = step, p.chunk # "no" PROVE FALSE
      <4>1. p.chunk \in {"data", "end"} /\ ~rx.on
        BY <2>1, <3>2, <3>3
      <4>2. Pos(p) \in 2 .. Units + 1
        <5>1. p \in Packets /\ (p.chunk = "data" => Pos(p) = p.at /\ p.at \in 2 .. Units)
              /\ (p.chunk = "end" => Pos(p) = Units + 1)
          BY <1>1, <3>3, AuthPacket
        <5> HIDE DEF p
        <5> QED  BY <4>1, <5>1, UnitsAssumption
      <4>3. \E x \in Coming : IsAuth(x) /\ x.to = step /\ x.chunk # "no" /\ Pos(x) = Pos(p) - 1
        BY <1>1, <2>1, <3>3, <4>1, <4>2 DEF Parts, Holes
      <4>4. PICK x \in Coming : IsAuth(x) /\ x.to = step /\ x.chunk # "no" /\ Pos(x) = Pos(p) - 1
        BY <4>3
      <4>5. x \in InFlight'
        <5>1. x # p
          BY <4>2, <4>4
        <5> QED  BY <1>1, <4>4, <5>1 DEF InFlight
      <4>6. Pos(p) <= Pos(x)
        BY <1>1, <3>3, <4>4, <4>5, Ranks DEF Before, Waiting
      <4> QED  BY <4>2, <4>4, <4>6
    <3> QED  BY <1>1, <3>1, <3>3
  <2> QED  BY <2>1, <2>2, <2>3 DEF Holes
<1>5. Scripts'
  BY <1>1 DEF Parts, Scripts
<1> QED  BY <1>1, <1>3, <1>4, <1>5 DEF Parts

\* A message is sent, or a chunk of one, and an acknowledgement may be taken.
LEMMA Sends ==
  ASSUME TypeInv, Parts, step \in Waiting, phase # "wait",
         inq' = inq \/ (inq # <<>> /\ inq' = Tail(inq) /\ ~IsAuth(Head(inq))),
         UNCHANGED <<step, rx, dev, late, lost>>,
         NEW m \in Messages, outq' = Append(outq, m), m.what = step,
         IF m.part = "chunk"
         THEN phase' \notin {"send", "wait"} /\ UNCHANGED script
         ELSE phase' = "wait" /\ script' = IF step \in HashedSent THEN Append(script, step) ELSE script
  PROVE  Parts'
<1>0. Channels /\ InOrder
  BY DEF TypeInv, Parts
<1>1. /\ InFlight' \subseteq InFlight /\ Coming' \subseteq Coming
      /\ \A x \in Coming : IsAuth(x) => x \in Coming'
      /\ Ordered(inq') /\ Elems(inq') \subseteq Elems(inq)
  <2>1. CASE inq' = inq
    BY <1>0, <2>1 DEF InFlight, Coming, InOrder
  <2>2. CASE inq # <<>> /\ inq' = Tail(inq) /\ ~IsAuth(Head(inq))
    <3>1. Coming = Coming' \cup {Head(inq)} /\ InFlight = InFlight' \cup {Head(inq)}
      BY <1>0, <2>2, HeadTaken
    <3>2. Ordered(inq') /\ Elems(inq') \subseteq Elems(inq)
      BY <1>0, <2>2, OrderedTail, TailOf DEF InOrder, Channels
    <3> QED  BY <2>2, <3>1, <3>2
  <2> QED  BY <2>1, <2>2
<1>2. Sent(m) /\ m.what = step /\ step \in AuthSteps
  BY DEF Sent, Waiting
<1>3. Elems(outq') = Elems(outq) \cup {m}
  BY <1>0, AppendOf DEF Channels
<1>4. \A x \in InFlight : IsAuth(x) => Rank(x.to) < Rank(step)
  BY DEF Parts, Below
<1>5. \A n \in Elems(outq) : OutBefore(n, m)
  <2> SUFFICES ASSUME NEW n \in Elems(outq), Sent(n), ~(Rank(n.what) < Rank(step))
               PROVE  n.what = step /\ n.part = "chunk"
    BY <1>2 DEF OutBefore
  <2>1. Rank(n.what) <= Rank(step) /\ n.part = "chunk"
    BY DEF Parts, Below
  <2>2. n.what \in AuthSteps
    BY DEF Sent
  <2> QED  BY <1>2, <2>1, <2>2, Ranks DEF Waiting
<1>6. OutOrdered(outq')
  BY <1>0, <1>5, OutAppend DEF Channels, InOrder
<1>7. InOrder'
  <2>1. \A x \in InFlight', n \in Elems(outq') : IsAuth(x) /\ Sent(n) => Rank(x.to) < Rank(n.what)
    BY <1>0, <1>1, <1>2, <1>3, <1>4 DEF InOrder
  <2> QED  BY <1>0, <1>1, <1>6, <2>1 DEF InOrder
<1>8. Rank(step) \in Nat
  BY <1>2, Ranks
<1>9. Below'
  BY <1>1, <1>2, <1>3, <1>4, <1>8 DEF Parts, Below
<1>10. Starts' /\ Floor'
  BY <1>1, <1>2, <1>3 DEF Parts, Starts, Floor, LongSteps
<1>11. ~rx.on
  BY DEF Parts, Receipt
<1>12. Receipt'
  BY <1>11 DEF Receipt
<1>13. Holes'
  BY <1>1, <1>11 DEF Parts, Holes
<1>14. Pairs'
  BY <1>1, <1>2, <1>3 DEF Parts, Pairs
<1>15. Scripts'
  <2> SUFFICES ASSUME ~late, lost = 0 PROVE Scripts'
    BY DEF Scripts
  <2>1. script = IF step \in {"hello", "hello2"} THEN <<>> ELSE dev.script
    BY DEF Parts, Scripts
  <2>2. ~ \E x \in InFlight' : IsAuth(x) /\ x.to = step
    BY <1>1, <1>4, <1>8
  <2>3. phase' # "wait" => script' = IF step \in {"hello", "hello2"} THEN <<>> ELSE dev.script
    BY <2>1
  <2>4. phase' = "wait" => script' = IF step \in {"hello", "hello2"} THEN <<step>>
                  ELSE IF step \in HashedSent THEN Append(dev.script, step) ELSE dev.script
    <3>1. Append(<<>>, step) = <<step>>
      OBVIOUS
    <3> QED  BY <2>1, <3>1 DEF HashedSent
  <2> QED  BY <1>11, <2>2, <2>3, <2>4 DEF Scripts
<1> QED  BY <1>7, <1>9, <1>10, <1>12, <1>13, <1>14, <1>15 DEF Parts

\* A chunk is kept: the others of its answer are no earlier, and the host has
\* asked for nothing since.
LEMMA KeepsChunk ==
  ASSUME TypeInv, Parts, step \in Waiting, phase = "wait", inq # <<>>, inq' = Tail(inq),
         IsAuth(Head(inq)),
         \/ Head(inq).chunk = "start" /\ rx' = [on |-> TRUE, got |-> {Head(inq).at}, recvd |-> 1]
         \/ /\ Head(inq).chunk = "data" /\ rx.on /\ Head(inq).at < Units
            /\ rx' = [on |-> TRUE, got |-> rx.got \cup {Head(inq).at}, recvd |-> Head(inq).at],
         UNCHANGED <<step, phase, script, dev, late, lost>>,
         outq' = outq \/ \E m \in Messages : outq' = Append(outq, m) /\ m.what = "gipack"
  PROVE  Parts'
<1> DEFINE p == Head(inq)
<1>0. Channels /\ InOrder
  BY DEF TypeInv, Parts
<1>1. /\ p \in Packets /\ Coming = Coming' \cup {p} /\ InFlight = InFlight' \cup {p}
      /\ \A x \in InFlight' : Before(p, x)
      /\ UNCHANGED outq => InOrder'
  BY <1>0, HeadTaken
<1>2. InFlight \subseteq Packets /\ Units \in Nat /\ Units >= 2
  BY <1>0, Typed, UnitsAssumption
<1>3. /\ OutOrdered(outq')
      /\ \A m \in Elems(outq') : Sent(m) \/ m.what \in LongSteps => m \in Elems(outq)
  BY <1>0, AckWritten
<1>4. p.to = step /\ p.chunk # "no" /\ step \in LongSteps
  BY <1>1, <1>2, AuthPacket DEF Parts, Starts, Receipt
<1>5. Pos(p) = rx'.recvd /\ rx'.on /\ Pos(p) \in 1 .. Units - 1
  <2>1. CASE p.chunk = "start" /\ rx' = [on |-> TRUE, got |-> {p.at}, recvd |-> 1]
    BY <1>1, <1>2, <2>1, StartPos
  <2>2. CASE /\ p.chunk = "data" /\ rx.on /\ p.at < Units
             /\ rx' = [on |-> TRUE, got |-> rx.got \cup {p.at}, recvd |-> p.at]
    <3>1. Pos(p) = p.at /\ p.at \in 2 .. Units
      BY <1>1, <2>2, AuthPacket
    <3> QED  BY <1>2, <2>2, <3>1
  <2> QED  BY <2>1, <2>2
<1>6. InOrder'
  <2>1. Ordered(inq') /\ Elems(inq') \subseteq Elems(inq)
    BY <1>0, OrderedTail, TailOf DEF InOrder, Channels
  <2>2. \A x \in InFlight', m \in Elems(outq') : IsAuth(x) /\ Sent(m) => Rank(x.to) < Rank(m.what)
    BY <1>0, <1>1, <1>3 DEF InOrder
  <2> QED  BY <1>0, <1>3, <2>1, <2>2 DEF InOrder
<1>7. Below' /\ Starts' /\ Floor' /\ Pairs'
  BY <1>1, <1>3 DEF Parts, Below, Starts, Floor, Pairs
<1>8. \A m \in Elems(outq') : ~Sent(m)
  <2> SUFFICES ASSUME NEW m \in Elems(outq), Sent(m) PROVE FALSE
    BY <1>3
  <2>1. Rank(step) < Rank(m.what)
    BY <1>0, <1>1, <1>4 DEF InOrder
  <2>2. Rank(m.what) <= Rank(step)
    BY DEF Parts, Below
  <2>3. Rank(step) \in Nat /\ Rank(m.what) \in Nat
    BY Ranks DEF Sent, Waiting
  <2> QED  BY <2>1, <2>2, <2>3
<1>9. \A x \in InFlight' : IsAuth(x) => x.to = step /\ x.chunk # "no" /\ Pos(x) >= Pos(p)
  <2> SUFFICES ASSUME NEW x \in InFlight', IsAuth(x)
               PROVE  x.to = step /\ x.chunk # "no" /\ Pos(x) >= Pos(p)
    OBVIOUS
  <2>1. x \in Packets /\ Rank(x.to) <= Rank(step)
    BY <1>1, <1>2 DEF Parts, Below
  <2>2. Rank(step) \in Nat /\ Rank(x.to) \in Nat
    BY <2>1, RankOf, Ranks DEF Waiting
  <2>3. x.to = step /\ x.chunk # "no" /\ Pos(p) <= Pos(x)
    BY <1>1, <1>4, <2>1, <2>2 DEF Before
  <2>4. Pos(x) \in Nat
    BY <2>1, <2>3, <1>2, PosOf
  <2> QED  BY <1>5, <2>3, <2>4
<1>10. Receipt'
  BY <1>4, <1>5, <1>8, <1>9 DEF Receipt
<1>11. Holes'
  <2> SUFFICES ASSUME lost = 0 PROVE Holes'
    BY DEF Holes
  <2>1. rx'.got = 1 .. rx'.recvd
    <3>1. CASE p.chunk = "start" /\ rx' = [on |-> TRUE, got |-> {p.at}, recvd |-> 1]
      BY <1>1, <1>5, <3>1, StartPos
    <3>2. CASE /\ p.chunk = "data" /\ rx.on /\ p.at < Units
               /\ rx' = [on |-> TRUE, got |-> rx.got \cup {p.at}, recvd |-> p.at]
      <4>1. Pos(p) = p.at /\ p.at \in 2 .. Units
        BY <1>1, <3>2, AuthPacket
      <4>2. rx.recvd \in 1 .. Units - 1 /\ p.at >= rx.recvd /\ rx.got = 1 .. rx.recvd
        BY <1>1, <3>2, <4>1 DEF Parts, Receipt, Holes
      <4>3. p.at - 1 <= rx.recvd
        <5>1. CASE \E x \in Coming : IsAuth(x) /\ x.to = step /\ x.chunk # "no" /\ Pos(x) = Pos(p) - 1
          <6>1. PICK x \in Coming : IsAuth(x) /\ x.to = step /\ x.chunk # "no"
                /\ Pos(x) = Pos(p) - 1
            BY <5>1
          <6>2. x # p
            BY <4>1, <6>1
          <6>3. x \in InFlight'
            BY <1>1, <6>1, <6>2 DEF InFlight
          <6> QED  BY <1>9, <4>1, <6>1, <6>3
        <5>2. CASE rx.on /\ Pos(p) - 1 <= rx.recvd
          BY <4>1, <5>2
        <5> QED  BY <1>1, <1>4, <4>1, <5>1, <5>2 DEF Parts, Holes
      <4> QED  BY <3>2, <4>1, <4>2, <4>3
    <3> QED  BY <3>1, <3>2
  <2>2. ASSUME NEW y \in InFlight', IsAuth(y), y.to = step, y.chunk # "no", Pos(y) >= 2
        PROVE  \/ \E x \in Coming' : IsAuth(x) /\ x.to = step /\ x.chunk # "no" /\ Pos(x) = Pos(y) - 1
               \/ Pos(y) - 1 <= rx'.recvd
    <3>1. \/ \E x \in Coming : IsAuth(x) /\ x.to = step /\ x.chunk # "no" /\ Pos(x) = Pos(y) - 1
          \/ rx.on /\ Pos(y) - 1 <= rx.recvd
      BY <1>1, <2>2 DEF Parts, Holes
    <3>2. Pos(y) \in Nat
      BY <1>1, <1>2, <2>2, PosOf
    <3>3. CASE rx.on /\ Pos(y) - 1 <= rx.recvd
      <4>1. rx.recvd \in Nat /\ Pos(p) >= rx.recvd
        BY <1>1, <3>3 DEF Parts, Receipt
      <4> QED  BY <1>5, <3>2, <3>3, <4>1
    <3> QED  BY <1>1, <1>5, <3>1, <3>2, <3>3
  <2> QED  BY <1>5, <2>1, <2>2 DEF Holes
<1>12. Scripts'
  BY <1>1, <1>3, <1>4 DEF Parts, Scripts
<1> QED  BY <1>6, <1>7, <1>10, <1>11, <1>12 DEF Parts

\* The next step begins.
LEMMA MovesOn ==
  ASSUME TypeInv, Parts, step \in Waiting, step' \in Waiting, Rank(step) < Rank(step'),
         phase' = "send", rx' = NoRx, UNCHANGED <<dev, lost>>,
         inq' = inq \/ (inq # <<>> /\ inq' = Tail(inq)),
         outq' = outq \/ \E m \in Messages : outq' = Append(outq, m) /\ m.what = "gipack",
         \A x \in InFlight' : x.chunk # "start",
         \A m \in Elems(outq') : m.what \notin LongSteps,
         step' \in {"cert", "pubkey"} =>
           /\ \A x \in InFlight' : IsAuth(x) => x.chunk # "no"
           /\ \A m \in Elems(outq') : ~Sent(m),
         ~late' => /\ \A x \in InFlight' : IsAuth(x) => x.chunk # "no"
                   /\ \A m \in Elems(outq') : ~Sent(m),
         ~late' /\ lost = 0 => script' = IF step' = "hello2" THEN <<>> ELSE dev.script,
         step' # "hello"
  PROVE  Parts'
<1>0. Channels /\ InOrder
  BY DEF TypeInv, Parts
<1>1. /\ OutOrdered(outq')
      /\ \A m \in Elems(outq') : Sent(m) \/ m.what \in LongSteps => m \in Elems(outq)
  BY <1>0, AckWritten
<1>2. InFlight' \subseteq InFlight /\ Elems(inq') \subseteq Elems(inq) /\ Ordered(inq')
  <2>1. CASE inq' = inq
    BY <1>0, <2>1 DEF InFlight, Coming, InOrder
  <2>2. CASE inq # <<>> /\ inq' = Tail(inq)
    BY <1>0, <2>2, HeadTaken, OrderedTail, TailOf DEF InOrder, Channels
  <2> QED  BY <2>1, <2>2
<1>3. InFlight \subseteq Packets
  BY <1>0, Typed
<1>4. Rank(step) \in Nat /\ Rank(step') \in Nat /\ (step' \in AuthSteps)
  BY Ranks DEF Waiting
<1>5. \A x \in InFlight : IsAuth(x) => Rank(x.to) \in Nat /\ Rank(x.to) <= Rank(step)
  BY <1>3, RankOf DEF Parts, Below
<1>6. \A m \in Elems(outq) : Sent(m) => Rank(m.what) \in Nat /\ Rank(m.what) <= Rank(step)
  BY Ranks DEF Parts, Below, Sent
<1>7. InOrder'
  <2>1. \A x \in InFlight', m \in Elems(outq') : IsAuth(x) /\ Sent(m) => Rank(x.to) < Rank(m.what)
    BY <1>0, <1>1, <1>2 DEF InOrder
  <2> QED  BY <1>0, <1>1, <1>2, <2>1 DEF InOrder
<1>8. Below'
  BY <1>1, <1>2, <1>4, <1>5, <1>6 DEF Below
<1>9. Starts' /\ Floor'
  BY DEF Starts, Floor
<1>10. ~rx'.on
  BY DEF NoRx
<1>11. Receipt'
  BY <1>10 DEF Receipt
<1>12. Holes'
  <2>1. \A y \in InFlight' : IsAuth(y) => y.to # step'
    BY <1>2, <1>4, <1>5
  <2> QED  BY <1>10, <2>1 DEF Holes
<1>13. Pairs'
  BY DEF Pairs
<1>14. Scripts'
  BY <1>10 DEF Scripts
<1> QED  BY <1>7, <1>8, <1>9, <1>11, <1>12, <1>13, <1>14 DEF Parts

---------------------------------------------------------------------------
(* The handshake: answers. *)

\* What is in flight when the last chunk of an answer, or its end, is taken.
LEMMA LastChunk ==
  ASSUME TypeInv, Parts, step \in Waiting, phase = "wait", inq # <<>>, inq' = Tail(inq),
         UNCHANGED dev,
         IsAuth(Head(inq)), rx.on,
         Head(inq).chunk = "end" \/ (Head(inq).chunk = "data" /\ ~(Head(inq).at < Units))
  PROVE  /\ step \in LongSteps /\ Head(inq).to = step /\ Head(inq).chunk # "no"
         /\ \A x \in InFlight' : x.chunk # "start" /\ (IsAuth(x) => x.chunk # "no")
         /\ \A m \in Elems(outq) : ~Sent(m)
         /\ lost = 0 => rx.got = 1 .. Units - 1 /\ Head(inq).chunk = "data" /\ Head(inq).at = Units
         /\ ~late /\ lost = 0 =>
              dev.script = IF step \in HashedReceived THEN Append(script, step) ELSE script
<1> DEFINE p == Head(inq)
<1>0. Channels /\ InOrder /\ Units \in Nat /\ Units >= 2
  BY UnitsAssumption DEF TypeInv, Parts
<1>1. /\ p \in Packets /\ p \in InFlight /\ Coming = Coming' \cup {p}
      /\ InFlight = InFlight' \cup {p}
      /\ \A x \in InFlight' : Before(p, x)
  BY <1>0, HeadTaken
<1>2. InFlight \subseteq Packets
  BY <1>0, Typed
<1>3. /\ step \in LongSteps /\ rx.recvd \in 1 .. Units - 1
      /\ \A x \in InFlight : IsAuth(x) => x.to = step /\ x.chunk # "no" /\ Pos(x) >= rx.recvd
      /\ \A m \in Elems(outq) : ~Sent(m)
  BY DEF Parts, Receipt
<1>4. p.to = step /\ p.chunk # "no"
  BY <1>1, <1>3
<1>5. /\ p.chunk = "data" => Pos(p) = p.at /\ p.at \in 2 .. Units
      /\ p.chunk = "end" => Pos(p) = Units + 1
  BY <1>1, <1>4, AuthPacket
<1>6. Pos(p) \in Nat /\ Pos(p) >= Units /\ (p.chunk = "data" => p.at = Units)
  BY <1>0, <1>5
<1>7. ASSUME NEW x \in InFlight', IsAuth(x) PROVE x.chunk # "no" /\ Pos(x) >= Pos(p)
  <2>1. x \in Packets /\ x.to = step /\ x.chunk # "no"
    BY <1>1, <1>2, <1>3, <1>7
  <2>2. Pos(x) \in Nat /\ Rank(step) \in Nat
    BY <1>7, <2>1, PosOf, Ranks DEF Waiting
  <2> QED  BY <1>1, <1>4, <1>6, <1>7, <2>1, <2>2 DEF Before
<1>8. \A x \in InFlight' : x.chunk # "start"
  <2> SUFFICES ASSUME NEW x \in InFlight', x.chunk = "start" PROVE FALSE
    OBVIOUS
  <2>1. IsAuth(x) /\ x \in Packets
    BY <1>1, <1>2, StartIsAuth
  <2>2. Pos(x) = 1
    BY <2>1, StartPos
  <2>3. Pos(x) >= Pos(p)
    BY <1>7, <2>1
  <2> QED  BY <1>0, <1>6, <2>2, <2>3
<1>9. ASSUME lost = 0 PROVE rx.got = 1 .. Units - 1 /\ p.chunk = "data" /\ p.at = Units
  <2>1. rx.got = 1 .. rx.recvd
    BY <1>9 DEF Parts, Holes
  <2>2. Pos(p) - 1 <= rx.recvd
    <3>1. CASE \E x \in Coming : IsAuth(x) /\ x.to = step /\ x.chunk # "no" /\ Pos(x) = Pos(p) - 1
      <4>1. PICK x \in Coming : IsAuth(x) /\ x.to = step /\ x.chunk # "no" /\ Pos(x) = Pos(p) - 1
        BY <3>1
      <4>2. x # p /\ x \in InFlight
        BY <1>6, <4>1 DEF InFlight
      <4>3. x \in InFlight'
        BY <1>1, <4>2
      <4> QED  BY <1>6, <1>7, <4>1, <4>3
    <3> QED  BY <1>0, <1>1, <1>4, <1>6, <1>9, <3>1 DEF Parts, Holes
  <2>3. p.chunk # "end" /\ rx.recvd = Units - 1
    BY <1>0, <1>3, <1>5, <1>6, <2>2
  <2> QED  BY <1>6, <2>1, <2>3
<1>10. ~late /\ lost = 0 =>
              dev.script = IF step \in HashedReceived THEN Append(script, step) ELSE script
  BY DEF Parts, Scripts
<1> QED  BY <1>3, <1>4, <1>7, <1>8, <1>9, <1>10

\* What is in flight when an answer in one packet is taken.
LEMMA WholeAnswer ==
  ASSUME TypeInv, Parts, step \in Waiting, phase = "wait", inq # <<>>, inq' = Tail(inq),
         UNCHANGED dev,
         IsAuth(Head(inq)), Head(inq).chunk = "no"
  PROVE  /\ step \notin {"cert", "pubkey"}
         /\ ~Long(Head(inq).kind)
         /\ step \in ShortSteps => /\ \A x \in InFlight' : x.chunk # "start"
                                   /\ \A m \in Elems(outq) : m.what \notin LongSteps
         /\ ~late => /\ Head(inq).to = step /\ step \in ShortSteps
                     /\ \A x \in InFlight' : IsAuth(x) => x.chunk # "no"
                     /\ \A m \in Elems(outq) : ~Sent(m)
                     /\ lost = 0 => dev.script = script
<1> DEFINE p == Head(inq)
<1>0. Channels /\ InOrder
  BY DEF TypeInv, Parts
<1>1. /\ p \in Packets /\ p \in InFlight /\ InFlight = InFlight' \cup {p}
      /\ \A x \in InFlight' : Before(p, x)
  BY <1>0, HeadTaken
<1>2. InFlight \subseteq Packets
  BY <1>0, Typed
<1>3. step \notin {"cert", "pubkey"}
  BY <1>1 DEF Parts, Floor
<1>4. p \in WholeAnswers /\ ~Long(p.kind)
  BY <1>1 DEF Packets, ChunkAnswers, OtherPackets, WholeAnswers, IsAuth, Long
<1>5. ShortSteps \cap LongSteps = {} /\ Waiting = ShortSteps \cup LongSteps
  BY DEF ShortSteps, LongSteps, Waiting, AuthSteps
<1>6. ASSUME step \in ShortSteps
      PROVE  /\ \A x \in InFlight' : x.chunk # "start"
             /\ \A m \in Elems(outq) : m.what \notin LongSteps
  <2>1. \A x \in InFlight' : x.chunk # "start"
    <3> SUFFICES ASSUME NEW x \in InFlight', x.chunk = "start" PROVE FALSE
      OBVIOUS
    <3>1. x \in Packets /\ x.to = step
      BY <1>1, <1>2 DEF Parts, Starts
    <3>2. x.to \in LongSteps
      BY <3>1, StartIsAuth, StartPos
    <3> QED  BY <1>5, <1>6, <3>1, <3>2
  <2>2. \A m \in Elems(outq) : m.what \notin LongSteps
    BY <1>5, <1>6 DEF Parts, Starts
  <2> QED  BY <2>1, <2>2
<1>7. ASSUME ~late
      PROVE  /\ p.to = step /\ step \in ShortSteps
             /\ \A x \in InFlight' : IsAuth(x) => x.chunk # "no"
             /\ \A m \in Elems(outq) : ~Sent(m)
             /\ lost = 0 => dev.script = script
  <2>1. p.to = step
    BY <1>1, <1>7 DEF Parts, Pairs
  <2>2. step \in ShortSteps
    BY <1>4, <2>1 DEF WholeAnswers, Waiting, AuthSteps
  <2>3. Rank(step) \in Nat
    BY Ranks DEF Waiting
  <2>4. \A x \in InFlight' : IsAuth(x) => x.chunk # "no"
    BY <1>1, <1>7, <2>1, <2>3 DEF Parts, Pairs, Before
  <2>5. \A m \in Elems(outq) : ~Sent(m)
    BY <1>0, <1>1, <1>7, <2>1, <2>3 DEF Parts, Pairs, InOrder
  <2>6. lost = 0 => dev.script = script
    <3>1. step \notin HashedReceived
      BY <2>2 DEF HashedReceived, ShortSteps
    <3> QED  BY <1>1, <1>7, <2>1, <3>1 DEF Parts, Scripts
  <2> QED  BY <2>1, <2>2, <2>4, <2>5, <2>6
<1> QED  BY <1>3, <1>4, <1>6, <1>7

\* What the invariant says of a mismatch, and the results that follow from it.
MismatchRight == result = "mismatch" => late \/ lost > 0

Results == AnswersPaired /\ PayloadWhole /\ MismatchRight

\* An answer in one packet goes to the step it is for, unless a wait was given up.
LEMMA WholeAnswered ==
  ASSUME TypeInv, Parts, Results, RecvWhole
  PROVE  HandshakeInv' /\ Results'
<1> DEFINE p == Head(inq)
<1>1. /\ Receiving /\ IsAuth(p) /\ p.chunk = "no" /\ Answered(p, {})
      /\ inq' = Tail(inq) /\ inq # <<>> /\ UNCHANGED <<seqRef, offset, wire, outq, dev, late, lost>>
  BY DEF RecvWhole, Receiving, IsAuth, devVars
<1>2. p \in Packets /\ (step = "hello" \/ p.to # "previous")
  BY <1>1, LeftoverHead DEF Receiving
<1>3. step \in Waiting /\ phase = "wait"
  BY <1>1, <1>2, AnswerMoves DEF IsAuth, Waiting
<1>4. /\ step \notin {"cert", "pubkey"}
      /\ ~Long(p.kind)
      /\ step \in ShortSteps => /\ \A x \in InFlight' : x.chunk # "start"
                                /\ \A m \in Elems(outq) : m.what \notin LongSteps
      /\ ~late => /\ p.to = step /\ step \in ShortSteps
                  /\ \A x \in InFlight' : IsAuth(x) => x.chunk # "no"
                  /\ \A m \in Elems(outq) : ~Sent(m)
                  /\ lost = 0 => dev.script = script
  BY <1>1, <1>3, WholeAnswer
<1>5. taken' = [step |-> step, to |-> p.to, whole |-> TRUE]
  BY <1>1 DEF Answered
<1>6. PayloadWhole' /\ (step \notin HashedReceived \/ result' = "failed" => AnswersPaired')
  BY <1>1, <1>4, <1>5 DEF AnswersPaired, PayloadWhole
<1>7. CASE step = "ch"
  <2>1. step' = "format" /\ result' = "failed"
    BY <1>1, <1>4, <1>7 DEF Answered, DataAnswered, HashedReceived, Fail, GoTo
  <2> QED  BY <1>6, <2>1 DEF HandshakeInv, AuthSteps, Results, MismatchRight
<1>8. CASE step = "cf"
  <2>1. late
    BY <1>4, <1>8 DEF ShortSteps
  <2>2. step' = "complete" /\ step \notin HashedReceived
    BY <1>1, <1>8 DEF Answered, FinishAnswered, GoTo, Following, HashedReceived
  <2> QED  BY <1>1, <1>6, <2>1, <2>2 DEF HandshakeInv, Results, MismatchRight
<1>10. ASSUME step \in ShortSteps, step \notin HashedReceived, phase' = "send", rx' = NoRx,
              result' = result, step' \notin {"hello", "cert", "pubkey"}, step' \in Waiting,
              Rank(step) < Rank(step'), script' = IF step' = "hello2" THEN <<>> ELSE script
       PROVE  HandshakeInv' /\ Results'
  <2>2. ~late' => /\ \A x \in InFlight' : IsAuth(x) => x.chunk # "no"
                  /\ \A m \in Elems(outq') : ~Sent(m)
    BY <1>1, <1>4
  <2>3. ~late' /\ lost = 0 => script' = IF step' = "hello2" THEN <<>> ELSE dev.script
    BY <1>1, <1>4, <1>10
  <2>4. /\ \A x \in InFlight' : x.chunk # "start"
        /\ \A m \in Elems(outq') : m.what \notin LongSteps
    BY <1>1, <1>4, <1>10
  <2>5. Parts'
    BY <1>1, <1>3, <1>10, <2>2, <2>3, <2>4, MovesOn
  <2>6. MismatchRight'
    BY <1>1, <1>10 DEF Results, MismatchRight
  <2> QED  BY <1>6, <1>10, <2>5, <2>6 DEF HandshakeInv, Parts, Results
<1>9. CASE step \in ShortSteps
  <2>0. step \notin HashedReceived /\ step # "cf"
    BY <1>9 DEF ShortSteps, HashedReceived
  <2>1. ASSUME Fail \/ (step' = "dead" /\ UNCHANGED <<phase, v2, script, rx, result>>)
        PROVE  HandshakeInv' /\ Results'
    <3>1. step' \notin Waiting /\ (result' = "failed" \/ result' = result)
      BY <2>1 DEF Fail, GoTo, Waiting, AuthSteps
    <3> QED  BY <1>1, <1>6, <2>0, <3>1 DEF HandshakeInv, Waiting, Results, MismatchRight
  <2>2. CASE step = "hello" /\ p.kind # "short" /\ HelloAnswered(p)
    <3>1. /\ step' \in {"hello2", "ch"} /\ phase' = "send" /\ rx' = NoRx /\ UNCHANGED result
          /\ script' = IF step' = "hello2" THEN <<>> ELSE script
      <4>1. CASE v2' = TRUE
        BY <2>2, <4>1 DEF HelloAnswered, GoTo
      <4>2. CASE v2' = FALSE
        BY <2>2, <4>2 DEF HelloAnswered, GoTo
      <4> QED  BY <2>2, <4>1, <4>2 DEF HelloAnswered
    <3>2. step' \notin {"hello", "cert", "pubkey"} /\ step' \in Waiting /\ Rank(step) < Rank(step')
      BY <2>2, <3>1 DEF Waiting, AuthSteps, Rank
    <3> QED  BY <1>9, <1>10, <2>0, <3>1, <3>2
  <2>3. CASE /\ step \in {"hello2", "hostkey", "secret", "finish"}
             /\ GoTo(Following(step))
             /\ UNCHANGED <<v2, script, result>>
    <3>1. Following(step) \in {"ch", "finish", "cf"} /\ Rank(step) < Rank(Following(step))
      BY <2>3, Ranks DEF Following, AuthSteps
    <3>2. step' \in {"ch", "finish", "cf"} /\ phase' = "send" /\ rx' = NoRx
      BY <2>3, <3>1 DEF GoTo
    <3>3. step' \in Waiting
      BY <3>2 DEF Waiting, AuthSteps
    <3> QED  BY <1>9, <1>10, <2>0, <2>3, <3>1, <3>2, <3>3 DEF GoTo
  <2>4. CASE step = "hello" /\ p.kind = "short" /\ HelloAnswered(p)
    <3>1. Fail
      BY <2>4 DEF HelloAnswered
    <3> QED  BY <2>1, <3>1
  <2>5. CASE step \in {"hello2", "hostkey", "secret", "finish"} /\ Acknowledged(p)
    BY <2>1, <2>3, <2>5 DEF Acknowledged
  <2> QED  BY <1>1, <2>0, <2>2, <2>4, <2>5 DEF Answered
<1> QED  BY <1>3, <1>4, <1>7, <1>8, <1>9 DEF Waiting, AuthSteps, ShortSteps

\* An answer in chunks is whole, and for the step that waits.
LEMMA ChunksAnswered ==
  ASSUME TypeInv, Parts, Results, Receiving, IsAuth(Head(inq)), rx.on,
         Head(inq).chunk = "end" \/ (Head(inq).chunk = "data" /\ ~(Head(inq).at < Units)),
         NEW got \in SUBSET (1 .. Units), Head(inq).chunk = "data" => got = rx.got \cup {Head(inq).at},
         Answered(Head(inq), got), inq' = Tail(inq), UNCHANGED <<dev, late, lost>>,
         outq' = outq \/ \E m \in Messages : outq' = Append(outq, m) /\ m.what = "gipack"
  PROVE  HandshakeInv' /\ Results'
<1> DEFINE p == Head(inq)
           whole == p.chunk = "no" \/ got = 1 .. Units
<1>1. p \in Packets /\ (step = "hello" \/ p.to # "previous") /\ inq # <<>>
  BY LeftoverHead DEF Receiving
<1>2. step \in Waiting /\ phase = "wait"
  BY <1>1, AnswerMoves DEF IsAuth, Waiting
<1>3. /\ step \in LongSteps /\ p.to = step /\ p.chunk # "no"
      /\ \A x \in InFlight' : x.chunk # "start" /\ (IsAuth(x) => x.chunk # "no")
      /\ \A m \in Elems(outq) : ~Sent(m)
      /\ lost = 0 => rx.got = 1 .. Units - 1 /\ p.chunk = "data" /\ p.at = Units
      /\ ~late /\ lost = 0 =>
           dev.script = IF step \in HashedReceived THEN Append(script, step) ELSE script
  BY <1>1, <1>2, LastChunk
<1>4. lost = 0 => whole
  <2>1. (1 .. Units - 1) \cup {Units} = 1 .. Units
    BY UnitsAssumption
  <2>2. lost = 0 => got = rx.got \cup {p.at} /\ rx.got = 1 .. Units - 1 /\ p.at = Units
    BY <1>3
  <2> QED  BY <2>1, <2>2
<1>5. \A m \in Elems(outq') : ~Sent(m) /\ m.what \notin LongSteps
  <2>1. \A m \in Elems(outq') : Sent(m) \/ m.what \in LongSteps => m \in Elems(outq)
    BY AckWritten DEF TypeInv, Parts
  <2>2. \A m : m.what \in LongSteps => Sent(m)
    BY DEF LongSteps, Sent, AuthSteps
  <2> QED  BY <1>3, <2>1, <2>2
<1>6. taken' = [step |-> step, to |-> p.to, whole |-> whole]
  BY DEF Answered
<1> HIDE DEF whole
<1>7. lost \in Nat
  BY DEF TypeInv, BringUpTypeOK
<1>8. AnswersPaired' /\ PayloadWhole'
  BY <1>3, <1>4, <1>6, <1>7 DEF AnswersPaired, PayloadWhole
<1>9. CASE step = "cf"
  <2>1. FinishAnswered(p, whole)
    BY <1>9 DEF Answered, HashedReceived, whole
  <2>2. step' = "complete"
    BY <1>9, <2>1 DEF FinishAnswered, GoTo, Following
  <2>3. ~late /\ lost = 0 => result' = "verified"
    BY <1>3, <1>4, <1>9, <2>1 DEF FinishAnswered, HashedReceived
  <2> QED  BY <1>7, <1>8, <2>2, <2>3 DEF HandshakeInv, Results, MismatchRight
<1>10. CASE step # "cf"
  <2>1. step \in HashedReceived /\ DataAnswered(p, whole)
    BY <1>3, <1>10 DEF Answered, LongSteps, whole
  <2>2. CASE Fail
    BY <1>8, <2>2 DEF Fail, GoTo, HandshakeInv, AuthSteps, Results, MismatchRight
  <2>3. CASE step' = "dead" /\ UNCHANGED <<phase, v2, script, rx, result>>
    BY <1>8, <2>3 DEF HandshakeInv, AuthSteps, Results, MismatchRight
  <2>4. CASE script' = Hashed(p, whole) /\ GoTo(Following(step)) /\ UNCHANGED <<v2, result>>
    <3>1. Following(step) \in {"cert", "pubkey", "secret", "hostkey"}
          /\ Rank(step) < Rank(Following(step))
      BY <1>2, <2>1, Ranks DEF Following, HashedReceived, Waiting
    <3>2. phase' = "send" /\ rx' = NoRx /\ step' = Following(step)
      BY <2>4 DEF GoTo
    <3>3. step' \in Waiting /\ step' \notin {"hello", "hello2"}
      BY <3>1, <3>2 DEF Waiting, AuthSteps
    <3>4. ~late' /\ lost = 0 => script' = dev.script
      BY <1>3, <1>4, <2>1, <2>4 DEF Hashed
    <3>5. Parts'
      BY <1>1, <1>2, <1>3, <1>5, <3>1, <3>2, <3>3, <3>4, MovesOn
    <3> QED  BY <1>8, <2>4, <3>5 DEF HandshakeInv, Parts, Results, MismatchRight
  <2> QED  BY <2>1, <2>2, <2>3, <2>4 DEF DataAnswered
<1> QED  BY <1>9, <1>10

\* A deadline passes.
LEMMA Expires ==
  ASSUME TypeInv, Parts, Results, RecvExpires
  PROVE  HandshakeInv' /\ Results'
<1>1. /\ step \in AuthSteps /\ phase = "wait"
      /\ UNCHANGED <<outq, inq, dev, lost, taken>>
  BY DEF RecvExpires, devVars
<1>2. CASE step \in {"hostkey", "secret", "finish"}
  <2>1. GoTo(Following(step)) /\ late' = TRUE /\ UNCHANGED <<v2, script, result>>
    BY <1>2 DEF RecvExpires
  <2>2. Following(step) \in {"finish", "cf"} /\ Rank(step) < Rank(Following(step))
    BY <1>2, Ranks DEF Following, AuthSteps
  <2>3. phase' = "send" /\ rx' = NoRx /\ step' = Following(step) /\ step' \in Waiting
        /\ step \in Waiting
    BY <1>2, <2>1, <2>2 DEF GoTo, Waiting, AuthSteps
  <2>4. InFlight' = InFlight /\ InFlight \subseteq Packets
    BY <1>1, Typed DEF InFlight, Coming, TypeInv
  <2>5. step \in ShortSteps /\ step \notin LongSteps
    BY <1>2 DEF ShortSteps, LongSteps
  <2>6. \A x \in InFlight' : x.chunk # "start"
    BY <2>4, <2>5, StartIsAuth, StartPos DEF Parts, Starts
  <2>7. \A m \in Elems(outq') : m.what \notin LongSteps
    BY <1>1, <2>5 DEF Parts, Starts
  <2>8. Parts'
    BY <1>1, <2>1, <2>2, <2>3, <2>6, <2>7, MovesOn
  <2> QED
    BY <1>1, <2>1, <2>8 DEF HandshakeInv, Parts, Results, AnswersPaired, PayloadWhole, MismatchRight
<1>3. CASE step \notin {"hostkey", "secret", "finish"}
  BY <1>1, <1>3 DEF RecvExpires, Fail, GoTo, HandshakeInv, AuthSteps, Results, AnswersPaired,
                    PayloadWhole, MismatchRight
<1> QED  BY <1>2, <1>3

---------------------------------------------------------------------------
(* The handshake: the device. *)

\* A step of the device that adds no packet of the handshake.
LEMMA QuietDevice ==
  ASSUME Parts, UNCHANGED <<step, phase, script, rx, late, lost>>,
         Elems(outq') \subseteq Elems(outq), dev'.script = dev.script,
         \A x \in InFlight' : IsAuth(x) \/ x.chunk = "start" => x \in InFlight,
         \A x \in Coming : IsAuth(x) => x \in Coming'
  PROVE  Below' /\ Starts' /\ Floor' /\ Receipt' /\ Holes' /\ Pairs' /\ Scripts'
<1>1. Below' /\ Starts' /\ Floor' /\ Receipt' /\ Pairs'
  BY DEF Parts, Below, Starts, Floor, Receipt, Pairs
<1>2. Holes'
  BY DEF Parts, Holes
<1>3. Scripts'
  BY DEF Parts, Scripts
<1> QED  BY <1>1, <1>2, <1>3

\* The acknowledgement that goes out with a message taken.
LEMMA AckQueued ==
  ASSUME Channels, InOrder, inq' = inq \/ inq' = Append(inq, GipAck)
  PROVE  /\ Ordered(inq') /\ Elems(inq) \subseteq Elems(inq')
         /\ \A x \in Elems(inq') : IsAuth(x) \/ x.chunk = "start" => x \in Elems(inq)
<1>1. GipAck \in Packets /\ ~IsAuth(GipAck) /\ GipAck.chunk # "start"
  BY KnownPackets DEF GipAck, Packet
<1>2. Ordered(Append(inq, GipAck))
  BY <1>1, OrderedAppend DEF Channels, InOrder, Before
<1>3. Elems(Append(inq, GipAck)) = Elems(inq) \cup {GipAck}
  BY <1>1, AppendOf DEF Channels
<1> QED  BY <1>1, <1>2, <1>3 DEF InOrder

\* The device takes a message: it answers the step the host waits at, in order.
LEMMA DeviceTakes ==
  ASSUME TypeInv, Parts, step \in Waiting, DevTake
  PROVE  Parts'
<1> DEFINE m == Head(outq)
<1>0. Channels /\ InOrder /\ outq \in Seq(Messages) /\ dev.send \in Seq(Packets)
      /\ dev \in [script : Seq(AuthSteps), got : Nat, send : Seq(Packets), await : Packets]
  BY DEF TypeInv, Parts, Channels
<1>1. /\ outq # <<>> /\ m \in Messages /\ outq' = Tail(outq)
      /\ inq' = inq \/ inq' = Append(inq, GipAck)
      /\ UNCHANGED <<step, phase, script, rx, late, lost>>
  BY <1>0, DevTakes DEF hostVars
<1>2. /\ Ordered(inq') /\ Elems(inq) \subseteq Elems(inq')
      /\ \A x \in Elems(inq') : IsAuth(x) \/ x.chunk = "start" => x \in Elems(inq)
  BY <1>0, <1>1, AckQueued
<1>3. /\ m \in Elems(outq) /\ Elems(outq') \subseteq Elems(outq) /\ OutOrdered(outq')
      /\ \A n \in Elems(outq') : OutBefore(m, n)
  BY <1>0, <1>1, OutTail, TailOf DEF InOrder
<1>4. ~IsAuth(NoPacket) /\ NoPacket.chunk # "start"
  BY KnownPackets DEF NoPacket, Packet
<1>5. CASE dev' = [dev EXCEPT !.await = NoPacket] \/ UNCHANGED dev
           \/ \E g \in Nat : dev' = [dev EXCEPT !.got = g]
  <2>1. dev'.send = dev.send /\ dev'.script = dev.script /\ dev'.await \in {dev.await, NoPacket}
    BY <1>0, <1>5
  <2>2. \A x \in InFlight' : IsAuth(x) \/ x.chunk = "start" => x \in InFlight
    BY <1>2, <1>4, <2>1 DEF InFlight, Coming
  <2>3. \A x \in Coming : IsAuth(x) => x \in Coming'
    BY <1>2, <2>1 DEF Coming
  <2>4. InOrder'
    <3>1. \A x \in InFlight', n \in Elems(outq') : IsAuth(x) /\ Sent(n) => Rank(x.to) < Rank(n.what)
      BY <1>0, <1>3, <2>2 DEF InOrder
    <3>2. \A x \in Elems(inq') : (\A y \in Elems(dev'.send) : Before(x, y)) /\ Before(x, dev'.await)
      BY <1>0, <1>2, <1>4, <2>1 DEF InOrder, Before
    <3>3. \A y \in Elems(dev'.send) : Before(dev'.await, y)
      BY <1>0, <1>4, <2>1 DEF InOrder, Before
    <3> QED  BY <1>0, <1>2, <1>3, <2>1, <3>1, <3>2, <3>3 DEF InOrder
  <2> QED  BY <1>1, <1>3, <2>1, <2>2, <2>3, <2>4, QuietDevice DEF Parts
<1>6. CASE /\ m.part # "chunk" /\ m.what # "gipack"
           /\ \E r \in Reply(m.what) :
                dev' = [dev EXCEPT !.script = DevHashed(m.what), !.send = @ \o r]
  <2>1. PICK r \in Reply(m.what) :
                dev' = [dev EXCEPT !.script = DevHashed(m.what), !.send = @ \o r]
    BY <1>6
  <2>2. m.what \in AuthSteps \cup {"identify", "format", "power"} /\ m.part # "chunk"
    BY <1>1, <1>6 DEF Messages
  <2>3. r \in Seq(Packets)
    BY <2>2, ReplyTo
  <2>4. /\ dev'.send = dev.send \o r /\ dev'.await = dev.await /\ dev'.script = DevHashed(m.what)
        /\ Elems(dev'.send) = Elems(dev.send) \cup Elems(r)
    BY <1>0, <2>1, <2>3, JoinOf
  <2>5. CASE m.what \notin AuthSteps
    <3>1. \A x \in Elems(r) : ~IsAuth(x) /\ x.chunk # "start"
      <4>1. \A x \in Elems(r) : ~IsAuth(x) /\ x \in Packets
        BY <2>2, <2>3, <2>5, OtherReplies DEF Elems
      <4> QED  BY <4>1, StartIsAuth
    <3>2. dev'.script = dev.script
      BY <2>2, <2>4, <2>5 DEF DevHashed, HashedSent, HashedReceived, AuthSteps
    <3>3. \A x \in InFlight' : IsAuth(x) \/ x.chunk = "start" => x \in InFlight
      BY <1>2, <2>4, <3>1 DEF InFlight, Coming
    <3>4. \A x \in Coming : IsAuth(x) => x \in Coming'
      BY <1>2, <2>4 DEF Coming
    <3>5. Ordered(dev'.send)
      <4>1. Ordered(r) /\ \A x \in Elems(dev.send), y \in Elems(r) : Before(x, y)
        BY <3>1 DEF Ordered, Before, Elems
      <4> QED  BY <1>0, <2>3, <2>4, <4>1, OrderedJoin DEF InOrder
    <3>6. InOrder'
      <4>1. \A x \in InFlight', n \in Elems(outq') : IsAuth(x) /\ Sent(n) => Rank(x.to) < Rank(n.what)
        BY <1>0, <1>3, <3>3 DEF InOrder
      <4>2. \A x \in Elems(inq') : (\A y \in Elems(dev'.send) : Before(x, y)) /\ Before(x, dev'.await)
        BY <1>0, <1>2, <2>4, <3>1 DEF InOrder, Before
      <4>3. \A y \in Elems(dev'.send) : Before(dev'.await, y)
        BY <1>0, <2>4, <3>1 DEF InOrder, Before
      <4> QED  BY <1>2, <1>3, <3>5, <4>1, <4>2, <4>3 DEF InOrder
    <3> QED  BY <1>1, <1>3, <3>2, <3>3, <3>4, <3>6, QuietDevice DEF Parts
  <2>6. CASE m.what \in AuthSteps
    <3> DEFINE w == m.what
    <3>1. /\ Ordered(r)
          /\ \A x \in Elems(r) :
               /\ IsAuth(x) /\ x.to = w
               /\ x.chunk # "no" => w \in LongSteps
               /\ w \in LongSteps => x.chunk # "no"
               /\ x.chunk # "no" /\ Pos(x) >= 2 =>
                    \E y \in Elems(r) : y.chunk # "no" /\ Pos(y) = Pos(x) - 1
      BY <2>6, ReplyOrder
    <3>2. Sent(m)
      BY <2>6 DEF Sent
    <3>3. \A x \in InFlight : IsAuth(x) => Rank(x.to) < Rank(w)
      BY <1>0, <1>3, <3>2 DEF InOrder
    <3>4. \A n \in Elems(outq') : Sent(n) => Rank(w) < Rank(n.what)
      BY <1>3, <2>2, <3>2 DEF OutBefore
    <3>5. Rank(w) <= Rank(step) /\ (phase # "wait" => Rank(w) < Rank(step))
      BY <1>3, <2>2, <3>2 DEF Parts, Below
    <3>6. Rank(w) \in Nat /\ Rank(step) \in Nat /\ (Rank(w) = Rank(step) => w = step)
      BY <2>6, Ranks DEF Waiting
    <3>7. ~rx.on
      BY <1>3, <3>2 DEF Parts, Receipt
    <3>8. \A x \in InFlight' : IsAuth(x) \/ x.chunk = "start" => x \in InFlight \/ x \in Elems(r)
      BY <1>2, <2>4 DEF InFlight, Coming
    <3>9. \A x \in Coming : IsAuth(x) => x \in Coming'
      BY <1>2, <2>4 DEF Coming
    <3>10. Elems(r) \subseteq Coming'
      BY <2>4 DEF Coming
    <3>11. InOrder'
      <4>1. Ordered(dev'.send)
        <5>1. \A x \in Elems(dev.send), y \in Elems(r) : Before(x, y)
          BY <3>1, <3>3 DEF Before, InFlight, Coming
        <5> QED  BY <1>0, <2>3, <2>4, <3>1, <5>1, OrderedJoin DEF InOrder
      <4>2. \A x \in InFlight', n \in Elems(outq') : IsAuth(x) /\ Sent(n) => Rank(x.to) < Rank(n.what)
        BY <1>0, <1>3, <3>1, <3>4, <3>8 DEF InOrder
      <4>3. \A x \in Elems(inq') : (\A y \in Elems(dev'.send) : Before(x, y)) /\ Before(x, dev'.await)
        <5>1. \A x \in Elems(inq), y \in Elems(r) : Before(x, y)
          BY <3>1, <3>3 DEF Before, InFlight, Coming
        <5>2. \A x \in Elems(inq') : IsAuth(x) => x \in Elems(inq)
          BY <1>2
        <5> QED  BY <1>0, <2>4, <5>1, <5>2 DEF InOrder, Before
      <4>4. \A y \in Elems(dev'.send) : Before(dev'.await, y)
        <5>1. \A y \in Elems(r) : Before(dev.await, y)
          BY <3>1, <3>3 DEF Before, InFlight
        <5> QED  BY <1>0, <2>4, <5>1 DEF InOrder
      <4> QED  BY <1>2, <1>3, <4>1, <4>2, <4>3, <4>4 DEF InOrder
    <3>12. Below'
      BY <1>1, <1>3, <3>1, <3>5, <3>8 DEF Parts, Below
    <3>13. Starts'
      <4>1. w \in LongSteps => w = step
        BY <1>3 DEF Parts, Starts
      <4>2. \A x \in Elems(r) : x.chunk = "start" => x.to = step
        BY <3>1, <4>1
      <4> QED  BY <1>1, <1>3, <3>8, <4>2 DEF Parts, Starts
    <3>14. Floor'
      <4>1. step \in {"cert", "pubkey"} => w \in LongSteps
        BY <1>3, <3>2 DEF Parts, Floor
      <4> QED  BY <1>1, <1>3, <3>1, <3>8, <4>1 DEF Parts, Floor
    <3>15. Receipt'
      BY <1>1, <3>7 DEF Receipt
    <3>16. Holes'
      <4> SUFFICES ASSUME lost = 0, NEW y \in InFlight', IsAuth(y), y.to = step, y.chunk # "no",
                          Pos(y) >= 2
                   PROVE  \E x \in Coming' :
                            IsAuth(x) /\ x.to = step /\ x.chunk # "no" /\ Pos(x) = Pos(y) - 1
        BY <1>1, <3>7 DEF Holes
      <4>1. CASE y \in InFlight
        BY <3>7, <3>9, <4>1 DEF Parts, Holes
      <4>2. CASE y \in Elems(r)
        BY <3>1, <3>10, <4>2
      <4> QED  BY <3>8, <4>1, <4>2
    <3>17. ~late => w = step /\ phase = "wait"
      BY <1>3, <3>2, <3>5, <3>6 DEF Parts, Pairs
    <3>18. Pairs'
      <4> SUFFICES ASSUME ~late PROVE Pairs'
        BY <1>1 DEF Pairs
      <4>1. \A x \in InFlight' : IsAuth(x) /\ x.chunk = "no" => x.to = step /\ phase = "wait"
        BY <3>1, <3>8, <3>17 DEF Parts, Pairs
      <4> QED  BY <1>1, <1>3, <4>1 DEF Parts, Pairs
    <3>19. Scripts'
      <4> SUFFICES ASSUME ~late, lost = 0 PROVE Scripts'
        BY <1>1 DEF Scripts
      <4>1. w = step /\ phase = "wait"
        BY <3>17
      <4>2. script = IF step \in {"hello", "hello2"} THEN <<step>>
                     ELSE IF step \in HashedSent THEN Append(dev.script, step) ELSE dev.script
        BY <1>3, <2>2, <3>2, <4>1 DEF Parts, Scripts
      <4>3. dev'.script = IF step \in HashedReceived THEN Append(script, step) ELSE script
        <5>1. dev'.script = DevHashed(step)
          BY <2>4, <4>1
        <5>2. {"hello", "hello2"} \subseteq HashedSent /\ HashedSent \cap HashedReceived = {}
          BY DEF HashedSent, HashedReceived
        <5> QED  BY <4>2, <5>1, <5>2 DEF DevHashed
      <4>4. ~ \E n \in Elems(outq') : Sent(n) /\ n.part # "chunk"
        <5> SUFFICES ASSUME NEW n \in Elems(outq'), Sent(n) PROVE FALSE
          OBVIOUS
        <5>1. Rank(step) < Rank(n.what) /\ Rank(n.what) <= Rank(step)
          BY <1>3, <3>4, <4>1 DEF Parts, Below
        <5>2. Rank(n.what) \in Nat
          BY Ranks DEF Sent
        <5> QED  BY <3>6, <5>1, <5>2
      <4> QED  BY <1>1, <4>1, <4>3, <4>4 DEF Scripts
    <3> QED  BY <3>11, <3>12, <3>13, <3>14, <3>15, <3>16, <3>18, <3>19 DEF Parts
  <2> QED  BY <2>5, <2>6
<1> QED  BY <1>0, <1>5, <1>6, DevTakes

\* A chunk may come after itself: it is sent again, and stays the awaited one.
LEMMA AwaitedIsChunk ==
  ASSUME NEW x \in Packets, x.ack \/ x = NoPacket
  PROVE  Before(x, x)
<1> SUFFICES ASSUME IsAuth(x) PROVE x.chunk # "no" /\ Pos(x) <= Pos(x)
  BY DEF Before
<1>1. x # NoPacket
  BY KnownPackets
<1>2. x.chunk # "no"
  BY <1>1, AuthPacket
<1> QED  BY <1>2, PosOf

\* The device sends a packet, or a chunk a second time.
LEMMA DeviceSends ==
  ASSUME TypeInv, Parts, step \in Waiting, DevSend \/ DevResend
  PROVE  Parts'
<1>0. Channels /\ InOrder /\ inq \in Seq(Packets) /\ dev.send \in Seq(Packets)
      /\ dev \in [script : Seq(AuthSteps), got : Nat, send : Seq(Packets), await : Packets]
      /\ dev.await \in Packets /\ (dev.await = NoPacket \/ dev.await.ack)
  BY DEF TypeInv, Parts, Channels
<1>1. NoPacket \in Packets /\ ~IsAuth(NoPacket) /\ NoPacket.chunk # "start"
  BY KnownPackets DEF NoPacket, Packet
<1>2. CASE DevSend
  <2> DEFINE x == Head(dev.send)
             a == IF x.ack THEN x ELSE NoPacket
  <2>1. /\ dev.send # <<>> /\ dev.await = NoPacket /\ inq' = Append(inq, x)
        /\ dev' = [dev EXCEPT !.send = Tail(@), !.await = a]
        /\ UNCHANGED <<step, phase, script, rx, late, lost, outq>>
    BY <1>2 DEF DevSend, hostVars
  <2>2. x \in Packets /\ Elems(dev.send) = {x} \cup Elems(Tail(dev.send))
    BY <1>0, <2>1, TailOf
  <2>3. Ordered(Tail(dev.send)) /\ \A y \in Elems(Tail(dev.send)) : Before(x, y)
    BY <1>0, <2>1, OrderedTail DEF InOrder
  <2>4. Elems(inq') = Elems(inq) \cup {x}
    BY <1>0, <2>1, <2>2, AppendOf
  <2>5. Ordered(inq')
    BY <1>0, <2>1, <2>2, OrderedAppend DEF InOrder
  <2>6. a = NoPacket \/ (a = x /\ Before(x, x))
    BY <2>2, AwaitedIsChunk
  <2> HIDE DEF x, a
  <2>7. dev'.send = Tail(dev.send) /\ dev'.await = a /\ dev'.script = dev.script
    BY <1>0, <2>1
  <2>8. \A y \in InFlight' : IsAuth(y) \/ y.chunk = "start" => y \in InFlight
    BY <1>1, <2>2, <2>4, <2>6, <2>7 DEF InFlight, Coming
  <2>9. \A y \in Coming : IsAuth(y) => y \in Coming'
    BY <2>2, <2>4, <2>7 DEF Coming
  <2>10. InOrder'
    <3>1. \A y \in Elems(inq') : (\A z \in Elems(dev'.send) : Before(y, z))
      BY <1>0, <2>2, <2>3, <2>4, <2>7 DEF InOrder
    <3>2. \A y \in Elems(inq') : Before(y, dev'.await)
      BY <1>0, <1>1, <2>2, <2>4, <2>6, <2>7 DEF InOrder, Before
    <3>3. \A y \in Elems(dev'.send) : Before(dev'.await, y)
      BY <1>1, <2>3, <2>6, <2>7 DEF Before
    <3>4. \A y \in InFlight', n \in Elems(outq') : IsAuth(y) /\ Sent(n) => Rank(y.to) < Rank(n.what)
      BY <1>0, <2>1, <2>8 DEF InOrder
    <3> QED  BY <1>0, <2>1, <2>3, <2>5, <2>7, <3>1, <3>2, <3>3, <3>4 DEF InOrder
  <2> QED  BY <2>1, <2>7, <2>8, <2>9, <2>10, QuietDevice DEF Parts
<1>3. CASE DevResend
  <2>1. inq' = Append(inq, dev.await)
        /\ UNCHANGED <<step, phase, script, rx, late, lost, outq, dev>>
    BY <1>3 DEF DevResend, hostVars
  <2>2. Elems(inq') = Elems(inq) \cup {dev.await}
    BY <1>0, <2>1, AppendOf
  <2>3. Ordered(inq')
    BY <1>0, <2>1, OrderedAppend DEF InOrder
  <2>4. Before(dev.await, dev.await)
    BY <1>0, AwaitedIsChunk
  <2>5. InFlight' = InFlight /\ Coming \subseteq Coming'
    BY <2>1, <2>2 DEF InFlight, Coming
  <2>6. InOrder'
    BY <1>0, <2>1, <2>2, <2>3, <2>4, <2>5 DEF InOrder
  <2> QED  BY <2>1, <2>5, <2>6, QuietDevice DEF Parts
<1> QED  BY <1>2, <1>3

---------------------------------------------------------------------------
(* The handshake: before it, and as a whole. *)

\* IDENTIFY is over: what a previous run has left is all that is in flight.
LEMMA HandshakeBegins ==
  ASSUME TypeInv, EarlyInv, step = "identify", step' = "hello", phase' = "send", rx' = NoRx,
         UNCHANGED <<outq, dev, script, late, lost>>,
         inq' = inq \/ (inq # <<>> /\ inq' = Tail(inq))
  PROVE  Parts'
<1>0. Channels
  BY DEF TypeInv
<1>1. /\ Ordered(inq)
      /\ \A x \in Elems(inq) : IsAuth(x) => x.to = "previous"
      /\ \A x \in Elems(dev.send) \cup {dev.await} : ~IsAuth(x)
      /\ \A m \in Elems(outq) : ~Sent(m)
      /\ script = <<>>
      /\ ~late => \A x \in Elems(inq) : ~IsAuth(x)
  BY DEF EarlyInv
<1>2. Ordered(inq') /\ Elems(inq') \subseteq Elems(inq)
  <2>1. CASE inq' = inq
    BY <1>1, <2>1
  <2>2. CASE inq # <<>> /\ inq' = Tail(inq)
    <3>1. inq \in Seq(Packets)
      BY <1>0 DEF Channels
    <3> QED  BY <1>1, <2>2, <3>1, OrderedTail, TailOf
  <2> QED  BY <2>1, <2>2
<1>3. InFlight' \subseteq InFlight /\ InFlight \subseteq Packets
  BY <1>0, <1>2, Typed DEF InFlight, Coming
<1>4. \A x \in InFlight' : IsAuth(x) => x.to = "previous" /\ x.chunk = "no" /\ late
  <2>1. \A x \in InFlight : IsAuth(x) => x.to = "previous" /\ late
    BY <1>1 DEF InFlight, Coming
  <2>2. \A x \in Packets : IsAuth(x) /\ x.to = "previous" => x.chunk = "no"
    BY AuthPacket DEF LongSteps
  <2> QED  BY <1>3, <2>1, <2>2
<1>5. \A x \in InFlight' : x.chunk # "start"
  BY <1>3, <1>4, StartIsAuth
<1>6. \A m \in Elems(outq') : ~Sent(m) /\ m.what \notin LongSteps
  BY <1>1 DEF Sent, LongSteps, AuthSteps
<1>7. InOrder'
  <2>1. Ordered(dev'.send) /\ \A x \in Elems(dev'.send) \cup {dev'.await} : ~IsAuth(x)
    BY <1>1 DEF Ordered, Before, Elems
  <2>2. OutOrdered(outq')
    BY <1>6 DEF OutOrdered, OutBefore, Elems
  <2> QED  BY <1>2, <1>6, <2>1, <2>2 DEF InOrder, Before
<1>8. Rank("previous") = 0 /\ Rank("hello") = 1
  BY DEF Rank
<1>9. Below'
  BY <1>4, <1>6, <1>8 DEF Below
<1>10. Starts' /\ Floor' /\ Receipt'
  BY <1>5, <1>6 DEF Starts, Floor, Receipt, NoRx
<1>11. Holes' /\ Pairs'
  BY <1>4, <1>6 DEF Holes, Pairs, NoRx
<1>12. Scripts'
  BY <1>1 DEF Scripts
<1> QED  BY <1>7, <1>9, <1>10, <1>11, <1>12 DEF Parts

Early == {"drain", "identify"}

\* Before the handshake the device sends no packet of it.
LEMMA EarlyDevice ==
  ASSUME TypeInv, EarlyInv, step \in Early, Device
  PROVE  EarlyInv'
<1>0. Channels /\ outq \in Seq(Messages) /\ inq \in Seq(Packets) /\ dev.send \in Seq(Packets)
      /\ dev \in [script : Seq(AuthSteps), got : Nat, send : Seq(Packets), await : Packets]
  BY DEF TypeInv, Channels
<1>1. /\ Ordered(inq)
      /\ \A x \in Elems(inq) : IsAuth(x) => x.to = "previous"
      /\ \A x \in Elems(dev.send) \cup {dev.await} : ~IsAuth(x)
      /\ \A m \in Elems(outq) : ~Sent(m)
      /\ ~rx.on /\ script = <<>> /\ result = "none" /\ taken = NothingTaken
      /\ step = "drain" => ~late
      /\ step = "identify" /\ ~late => \A x \in Elems(inq) : ~IsAuth(x)
  BY DEF EarlyInv, Early
<1>2. UNCHANGED <<step, script, rx, result, taken, late>>
  BY DeviceTypes DEF TypeInv, hostVars
<1>3. ASSUME NEW x \in Packets, ~IsAuth(x), inq' = Append(inq, x)
      PROVE  Ordered(inq') /\ Elems(inq') = Elems(inq) \cup {x}
  <2>1. \A y \in Elems(inq) : Before(y, x)
    BY <1>3 DEF Before
  <2> QED  BY <1>0, <1>1, <1>3, <2>1, OrderedAppend, AppendOf
<1>4. ~IsAuth(GipAck) /\ ~IsAuth(NoPacket) /\ GipAck \in Packets
  BY KnownPackets
<1>5. CASE DevTake
  <2> DEFINE m == Head(outq)
  <2>1. /\ m \in Messages /\ m \in Elems(outq) /\ Elems(outq') \subseteq Elems(outq)
        /\ inq' = inq \/ inq' = Append(inq, GipAck)
    <3>1. outq # <<>> /\ m \in Messages /\ outq' = Tail(outq)
          /\ (inq' = inq \/ inq' = Append(inq, GipAck))
      BY <1>0, <1>5, DevTakes
    <3>2. outq \in Seq(Messages)
      BY <1>0
    <3> QED  BY <3>1, <3>2, TailOf
  <2>2. \A x \in Elems(dev'.send) \cup {dev'.await} : ~IsAuth(x)
    <3>1. CASE dev' = [dev EXCEPT !.await = NoPacket] \/ UNCHANGED dev
               \/ \E g \in Nat : dev' = [dev EXCEPT !.got = g]
      <4>1. dev'.send = dev.send /\ dev'.await \in {dev.await, NoPacket}
        BY <1>0, <3>1
      <4> QED  BY <1>1, <1>4, <4>1
    <3>2. CASE /\ m.part # "chunk" /\ m.what # "gipack"
               /\ \E r \in Reply(m.what) :
                    dev' = [dev EXCEPT !.script = DevHashed(m.what), !.send = @ \o r]
      <4>1. PICK r \in Reply(m.what) :
                    dev' = [dev EXCEPT !.script = DevHashed(m.what), !.send = @ \o r]
        BY <3>2
      <4>2. m.what \in {"identify", "format", "power"}
        BY <1>1, <2>1, <3>2 DEF Messages, Sent
      <4>3. r \in Seq(Packets) /\ \A x \in Elems(r) : ~IsAuth(x)
        BY <4>2, OtherReplies DEF Elems
      <4>4. dev'.send = dev.send \o r /\ dev'.await = dev.await
        BY <1>0, <4>1
      <4>5. Elems(dev'.send) = Elems(dev.send) \cup Elems(r)
        BY <1>0, <4>3, <4>4, JoinOf
      <4> QED  BY <1>1, <4>3, <4>4, <4>5
    <3> QED  BY <1>0, <1>5, <3>1, <3>2, DevTakes
  <2> QED  BY <1>1, <1>2, <1>3, <1>4, <2>1, <2>2 DEF EarlyInv
<1>6. CASE DevSend
  <2> DEFINE x == Head(dev.send)
             a == IF x.ack THEN x ELSE NoPacket
  <2>1. /\ dev.send # <<>> /\ inq' = Append(inq, x) /\ UNCHANGED outq
        /\ dev' = [dev EXCEPT !.send = Tail(@), !.await = a]
    BY <1>6 DEF DevSend
  <2>2. x \in Packets /\ Elems(dev.send) = {x} \cup Elems(Tail(dev.send))
    BY <1>0, <2>1, TailOf
  <2>3. ~IsAuth(x) /\ ~IsAuth(a)
    BY <1>1, <1>4, <2>2
  <2> HIDE DEF x, a
  <2>4. dev'.send = Tail(dev.send) /\ dev'.await = a
    BY <1>0, <2>1
  <2> QED  BY <1>1, <1>2, <1>3, <2>1, <2>2, <2>3, <2>4 DEF EarlyInv
<1>7. CASE DevResend
  <2>1. inq' = Append(inq, dev.await) /\ UNCHANGED <<outq, dev>>
    BY <1>7 DEF DevResend
  <2>2. dev.await \in Packets
    BY <1>0
  <2> QED  BY <1>1, <1>2, <1>3, <2>1, <2>2 DEF EarlyInv
<1> QED  BY <1>5, <1>6, <1>7 DEF Device

\* The drain and IDENTIFY leave at most what a previous run left.
LEMMA EarlyHost ==
  ASSUME TypeInv, EarlyInv, Results, step \in Early, Host
  PROVE  EarlyInv' /\ HandshakeInv' /\ Results'
<1>0. Channels /\ inq \in Seq(Packets) /\ outq \in Seq(Messages)
      /\ {"drain", "identify"} \cap AuthSteps = {}
      /\ {"drain", "identify"} \cap {"format", "power"} = {} /\ "secret" \in AuthSteps
  BY DEF TypeInv, Channels, AuthSteps
<1>1. /\ Ordered(inq)
      /\ \A x \in Elems(inq) : IsAuth(x) => x.to = "previous"
      /\ \A x \in Elems(dev.send) \cup {dev.await} : ~IsAuth(x)
      /\ \A m \in Elems(outq) : ~Sent(m)
      /\ ~rx.on /\ script = <<>> /\ result = "none" /\ taken = NothingTaken
      /\ step = "drain" => ~late
      /\ step = "identify" /\ ~late => \A x \in Elems(inq) : ~IsAuth(x)
  BY DEF EarlyInv, Early
<1>2. ASSUME inq # <<>>, inq' = Tail(inq)
      PROVE  Ordered(inq') /\ Elems(inq') \subseteq Elems(inq)
  BY <1>0, <1>1, <1>2, OrderedTail, TailOf
<1>3. ASSUME taken' = NothingTaken, UNCHANGED <<late, lost, result>>
      PROVE  Results'
  BY <1>1, <1>3 DEF Results, AnswersPaired, PayloadWhole, MismatchRight, NothingTaken
<1>4. ASSUME step' \in {"dead", "format"} PROVE EarlyInv' /\ HandshakeInv'
  BY <1>4 DEF EarlyInv, HandshakeInv, AuthSteps
<1>5. CASE DrainTakes
  <2>1. inq # <<>> /\ inq' = Tail(inq)
        /\ UNCHANGED <<step, script, rx, result, outq, dev, taken, late, lost>>
    BY <1>5 DEF DrainTakes, hostVars, devVars
  <2> QED  BY <1>0, <1>1, <1>2, <1>3, <2>1 DEF EarlyInv, HandshakeInv, Early
<1>6. CASE DrainEnds
  <2>1. /\ step' = "identify" /\ rx' = NoRx /\ late' = (inq # <<>>)
        /\ UNCHANGED <<script, result, outq, inq, dev, taken, lost>>
    BY <1>6 DEF DrainEnds, GoTo, devVars
  <2>2. ~late' => Elems(inq) = {}
    BY <2>1, EmptyOf
  <2>3. EarlyInv'
    BY <1>1, <2>1, <2>2 DEF EarlyInv, NoRx
  <2>4. HandshakeInv'
    BY <2>1 DEF HandshakeInv, AuthSteps
  <2>5. Results'
    BY <1>1, <2>1 DEF Results, AnswersPaired, PayloadWhole, MismatchRight, NothingTaken
  <2> QED  BY <2>3, <2>4, <2>5
<1>7. CASE IdentifyTakes
  <2>1. /\ inq # <<>> /\ inq' = Tail(inq)
        /\ UNCHANGED <<step, script, result, outq, dev, taken, late, lost>>
        /\ step = "identify" /\ ~rx'.on
    <3>1. rx \in [on : BOOLEAN, got : SUBSET (1 .. Units), recvd : 0 .. Units]
      BY DEF TypeInv, BringUpTypeOK
    <3> QED  BY <1>1, <1>7, <3>1 DEF IdentifyTakes, Identifying, devVars
  <2>2. EarlyInv'
    BY <1>1, <1>2, <2>1 DEF EarlyInv
  <2>3. HandshakeInv'
    BY <2>1 DEF HandshakeInv, AuthSteps
  <2> QED  BY <1>1, <1>3, <2>1, <2>2, <2>3
<1>8. CASE IdentifyAckRaises
  BY <1>1, <1>3, <1>4, <1>8 DEF IdentifyAckRaises
<1>9. CASE IdentifyEnds \/ IdentifyGivesUp
  <2>1. /\ step = "identify" /\ UNCHANGED <<script, outq, dev, taken, late, lost>>
        /\ inq' = inq \/ (inq # <<>> /\ inq' = Tail(inq))
        /\ Authenticate
    BY <1>9 DEF IdentifyEnds, IdentifyGivesUp, Identifying, devVars
  <2>2. CASE GoTo("hello") /\ UNCHANGED result
    <3>1. step' = "hello" /\ phase' = "send" /\ rx' = NoRx
      BY <2>2 DEF GoTo
    <3>2. Parts'
      BY <2>1, <3>1, HandshakeBegins
    <3>3. EarlyInv'
      BY <3>1 DEF EarlyInv
    <3> QED  BY <1>1, <1>3, <2>1, <2>2, <3>2, <3>3 DEF HandshakeInv, Parts
  <2>3. CASE GoTo("format") /\ result' = "failed"
    <3>1. step' = "format"
      BY <2>3 DEF GoTo
    <3>2. Results'
      BY <1>1, <2>1, <2>3 DEF Results, AnswersPaired, PayloadWhole, MismatchRight, NothingTaken
    <3> QED  BY <1>4, <3>1, <3>2
  <2> QED  BY <2>1, <2>2, <2>3 DEF Authenticate
<1>10. CASE GipSend
  <2>1. /\ step = "identify" /\ UNCHANGED <<step, script, rx, result, inq, dev, taken, late, lost>>
        /\ outq' = outq \/ \E m \in Messages : outq' = Append(outq, m) /\ m.what = "identify"
    <3>1. /\ step = "identify"
          /\ UNCHANGED <<step, script, rx, result, inq, dev, taken, late, lost>>
      BY <1>0, <1>10 DEF GipSend, devVars, Early
    <3>2. CASE UNCHANGED <<wire, outq>>
      BY <3>1, <3>2
    <3>3. CASE Write(Header(Client + Internal, PayloadLen[step], NoOffset), step, "all")
      <4> DEFINE h == Header(Client + Internal, PayloadLen[step], NoOffset)
                 m == [what |-> step, part |-> "all", ack |-> (h.opts \div OptAck) % 2 = 1]
      <4>1. m \in Messages /\ m.what = "identify"
        BY <3>1 DEF Messages
      <4>2. outq' = Append(outq, m)
        BY <3>3 DEF Write
      <4> HIDE DEF m
      <4> QED  BY <3>1, <4>1, <4>2
    <3> QED  BY <1>10, <3>1, <3>2, <3>3 DEF GipSend
  <2>2. \A m \in Elems(outq') : ~Sent(m)
    <3>1. \A m \in Messages : m.what = "identify" => ~Sent(m)
      BY DEF Sent, AuthSteps
    <3>2. outq \in Seq(Messages)
      BY <1>0
    <3>3. CASE outq' = outq
      BY <1>1, <3>3
    <3>4. CASE \E m \in Messages : outq' = Append(outq, m) /\ m.what = "identify"
      <4>1. PICK m \in Messages : outq' = Append(outq, m) /\ m.what = "identify"
        BY <3>4
      <4>2. Elems(outq') = Elems(outq) \cup {m}
        BY <3>2, <4>1, AppendOf
      <4> QED  BY <1>1, <3>1, <4>1, <4>2
    <3> QED  BY <2>1, <3>3, <3>4
  <2>3. EarlyInv'
    BY <1>1, <2>1, <2>2 DEF EarlyInv
  <2>4. HandshakeInv'
    BY <2>1 DEF HandshakeInv, AuthSteps
  <2> QED  BY <1>1, <1>3, <2>1, <2>3, <2>4
<1>11. step \notin AuthSteps /\ step \notin {"format", "power"}
  BY <1>0 DEF Early
<1>12. ~GipRecv /\ ~SendSimple /\ ~SendComplete /\ ~AuthWriteFails /\ ~ReadFails /\ ~RecvExpires
  BY <1>0, <1>11 DEF GipRecv, SendSimple, SendComplete, AuthWriteFails, ReadFails, RecvExpires,
     AuthSteps
<1>13. ~SendFirstChunk /\ ~SendNextChunk /\ ~AckIgnores /\ ~ChunkAckExpires /\ ~SendEndChunk
  BY <1>0, <1>11 DEF SendFirstChunk, SendNextChunk, AckIgnores, ChunkAckExpires, SendEndChunk
<1>14. ~RecvIgnores /\ ~RecvWhole /\ ~RecvStart /\ ~RecvChunk /\ ~RecvEnd
  BY <1>11 DEF RecvIgnores, RecvWhole, RecvStart, RecvChunk, RecvEnd, Receiving
<1> QED
  BY <1>5, <1>6, <1>7, <1>8, <1>9, <1>10, <1>12, <1>13, <1>14 DEF Host

\* The handshake is on.
LEMMA HandshakeHost ==
  ASSUME TypeInv, Parts, Results, step \in Waiting, Host
  PROVE  EarlyInv' /\ HandshakeInv' /\ Results'
<1>0. Channels /\ InOrder /\ inq \in Seq(Packets) /\ step \in AuthSteps /\ step # "complete"
      /\ lost \in Nat
      /\ step \notin {"drain", "identify", "format", "power"}
  BY DEF TypeInv, Parts, Channels, Waiting, AuthSteps, BringUpTypeOK
<1>1. ASSUME UNCHANGED <<result, taken, late>>, lost' = lost \/ lost' = lost + 1
      PROVE  Results'
  BY <1>0, <1>1 DEF Results, AnswersPaired, PayloadWhole, MismatchRight
<1>2. EarlyInv'
  <2>1. step' \in {"drain", "identify"} => step \in {"drain", "identify"}
    <3>1. step' = step \/ step' \in {"dead", "format"} \/ step' \in AuthSteps
      <4>1. CASE RecvWhole \/ RecvEnd \/ RecvChunk
        <5>1. CASE \E got \in SUBSET (1 .. Units) : Answered(Head(inq), got)
          <6>1. Receiving /\ Head(inq).type = "auth"
            BY <4>1 DEF RecvWhole, RecvEnd, RecvChunk
          <6>2. Head(inq) \in Packets /\ (step = "hello" \/ Head(inq).to # "previous")
            BY <6>1, LeftoverHead DEF Receiving
          <6>3. Following(step) \in AuthSteps /\ "hello2" \in AuthSteps
            BY <1>0, Ranks DEF AuthSteps
          <6> QED  BY <5>1, <6>1, <6>2, <6>3, AnswerMoves
        <5>2. CASE UNCHANGED step
          BY <5>2
        <5>3. rx.got \in SUBSET (1 .. Units) /\ {} \in SUBSET (1 .. Units)
          BY DEF TypeInv, BringUpTypeOK
        <5>4. RecvChunk => rx.got \cup {Head(inq).at} \in SUBSET (1 .. Units)
          <6> SUFFICES ASSUME RecvChunk PROVE Head(inq).at \in 1 .. Units
            BY <5>3
          <6>1. Head(inq) \in Packets /\ IsAuth(Head(inq)) /\ Head(inq).chunk = "data"
            BY LeftoverHead DEF RecvChunk, Receiving, IsAuth
          <6>2. Head(inq).at \in 2 .. Units
            BY <6>1, AuthPacket
          <6> QED  BY <6>2, UnitsAssumption
        <5> QED  BY <4>1, <5>1, <5>2, <5>3, <5>4 DEF RecvWhole, RecvEnd, RecvChunk
      <4>2. CASE RecvExpires
        <5>1. Following(step) \in AuthSteps
          BY <1>0, Ranks
        <5> QED  BY <4>2, <5>1 DEF RecvExpires, GoTo, Fail
      <4>3. CASE AuthWriteFails
        BY <4>3 DEF AuthWriteFails
      <4>4. ~DrainTakes /\ ~DrainEnds /\ ~GipSend /\ ~GipRecv /\ ~SendComplete
            /\ ~IdentifyTakes /\ ~IdentifyAckRaises /\ ~IdentifyEnds /\ ~IdentifyGivesUp
        BY <1>0 DEF DrainTakes, DrainEnds, GipSend, GipRecv, SendComplete,
                    IdentifyTakes, IdentifyAckRaises, IdentifyEnds, IdentifyGivesUp, Identifying
      <4>5. CASE SendSimple \/ SendFirstChunk \/ SendNextChunk \/ AckIgnores \/ ChunkAckExpires
                 \/ SendEndChunk \/ RecvIgnores \/ RecvStart \/ ReadFails
        BY <4>5 DEF SendSimple, SendFirstChunk, SendNextChunk, AckIgnores, ChunkAckExpires,
                    SendEndChunk, RecvIgnores, RecvStart, ReadFails, hostVars
      <4> QED  BY <4>1, <4>2, <4>3, <4>4, <4>5 DEF Host
    <3> QED  BY <1>0, <3>1 DEF AuthSteps
  <2> QED  BY <1>0, <2>1 DEF EarlyInv
<1>3. Parts' => HandshakeInv'
  BY DEF Parts, HandshakeInv
<1>4. CASE RecvIgnores \/ AckIgnores
  <2>1. /\ inq # <<>> /\ inq' = Tail(inq)
        /\ UNCHANGED <<step, phase, script, rx, dev, outq, late, lost, result, taken>>
        /\ \/ step \notin LongSteps \/ ~IsAuth(Head(inq))
           \/ Head(inq).chunk \in {"data", "end"} /\ ~rx.on
    BY <1>4 DEF RecvIgnores, AckIgnores, Receiving, IsAuth, LongSteps, hostVars, devVars
  <2> QED  BY <1>1, <1>2, <1>3, <2>1, Drops
<1>5. CASE ReadFails
  <2>1. /\ inq # <<>> /\ inq' = Tail(inq) /\ lost' = lost + 1
        /\ UNCHANGED <<step, phase, script, rx, dev, outq, late, result, taken>>
    BY <1>5 DEF ReadFails, hostVars, devVars
  <2>2. lost' # 0
    BY <1>0, <2>1
  <2> QED  BY <1>1, <1>2, <1>3, <2>1, <2>2, Drops
<1>6. ASSUME NEW h, NEW part \in {"all", "chunk", "end"}, Write(h, step, part),
             part # "all" => step = "secret"
      PROVE  \E m \in Messages : outq' = Append(outq, m) /\ m.what = step /\ m.part = part
  <2> DEFINE m == [what |-> step, part |-> part, ack |-> (h.opts \div OptAck) % 2 = 1]
  <2>1. m \in Messages /\ m.what = step /\ m.part = part
    BY <1>0, <1>6 DEF Messages
  <2>2. outq' = Append(outq, m)
    BY <1>6 DEF Write
  <2> HIDE DEF m
  <2> QED  BY <2>1, <2>2
<1>7. CASE SendSimple
  <2>1. /\ phase # "wait" /\ UNCHANGED <<inq, step, rx, dev, late, lost, result, taken>>
        /\ phase' = "wait"
        /\ script' = IF step \in HashedSent THEN Append(script, step) ELSE script
        /\ Write(Header(Client + Internal + OptAck, PayloadLen[step], NoOffset), step, "all")
    BY <1>7 DEF SendSimple, devVars
  <2>2. PICK m \in Messages : outq' = Append(outq, m) /\ m.what = step /\ m.part = "all"
    BY <1>6, <2>1
  <2>3. Parts'
    BY <2>1, <2>2, Sends
  <2> QED  BY <1>1, <1>2, <1>3, <2>1, <2>3
<1>8. CASE SendFirstChunk
  <2>1. /\ step = "secret" /\ phase # "wait"
        /\ UNCHANGED <<inq, step, rx, dev, late, lost, script, result, taken>>
        /\ phase' = "chunk"
        /\ Write(ChunkHeader(OptAck, ChunkStart, MaxPkt, SecretLen), step, "chunk")
    BY <1>8 DEF SendFirstChunk, devVars
  <2>2. PICK m \in Messages : outq' = Append(outq, m) /\ m.what = step /\ m.part = "chunk"
    BY <1>6, <2>1
  <2>3. Parts'
    BY <2>1, <2>2, Sends
  <2> QED  BY <1>1, <1>2, <1>3, <2>1, <2>3
<1>9. CASE SendNextChunk
  <2>1. /\ step = "secret" /\ phase # "wait"
        /\ UNCHANGED <<step, rx, dev, late, lost, script, result, taken>>
        /\ phase' \in {"chunk", "last"} /\ inq # <<>> /\ inq' = Tail(inq) /\ Head(inq) = GipAck
        /\ \E h : Write(h, step, "chunk")
    BY <1>9 DEF SendNextChunk, devVars
  <2>2. PICK m \in Messages : outq' = Append(outq, m) /\ m.what = step /\ m.part = "chunk"
    BY <1>6, <2>1
  <2>3. ~IsAuth(Head(inq))
    BY <2>1, KnownPackets
  <2>4. Parts'
    BY <2>1, <2>2, <2>3, Sends
  <2> QED  BY <1>1, <1>2, <1>3, <2>1, <2>4
<1>10. CASE SendEndChunk
  <2>1. /\ step = "secret" /\ phase # "wait"
        /\ UNCHANGED <<step, rx, dev, late, lost, result, taken>>
        /\ phase' = "wait" /\ script' = Append(script, step)
        /\ inq' = inq \/ (inq # <<>> /\ inq' = Tail(inq) /\ Head(inq) = GipAck)
        /\ Write(ChunkHeader(0, 0, 0, SecretLen), step, "end")
    BY <1>10 DEF SendEndChunk, devVars
  <2>2. PICK m \in Messages : outq' = Append(outq, m) /\ m.what = step /\ m.part = "end"
    BY <1>6, <2>1
  <2>3. inq' = inq \/ (inq # <<>> /\ inq' = Tail(inq) /\ ~IsAuth(Head(inq)))
    BY <2>1, KnownPackets
  <2>4. step \in HashedSent
    BY <2>1 DEF HashedSent
  <2>5. Parts'
    BY <2>1, <2>2, <2>3, <2>4, Sends
  <2> QED  BY <1>1, <1>2, <1>3, <2>1, <2>5
<1>11. CASE ChunkAckExpires
  <2>1. /\ phase = "chunk" /\ phase' = "last"
        /\ UNCHANGED <<step, script, rx, dev, outq, inq, late, lost, result, taken>>
    BY <1>11 DEF ChunkAckExpires, devVars
  <2>2. UNCHANGED <<InFlight, Coming>>
    BY <2>1 DEF InFlight, Coming
  <2>3. InOrder' /\ Below' /\ Starts' /\ Floor' /\ Receipt'
    BY <2>1, <2>2 DEF Parts, InOrder, Below, Starts, Floor, Receipt
  <2>4. Holes' /\ Pairs' /\ Scripts'
    BY <2>1, <2>2 DEF Parts, Holes, Pairs, Scripts
  <2> QED  BY <1>1, <1>2, <1>3, <2>1, <2>3, <2>4 DEF Parts
<1>12. CASE AuthWriteFails
  <2>1. step' = "dead" /\ UNCHANGED <<result, taken, late, lost>>
    BY <1>12 DEF AuthWriteFails
  <2> QED  BY <1>1, <1>2, <2>1 DEF HandshakeInv, AuthSteps
<1>13. ASSUME NEW p, Acknowledge(p)
       PROVE  outq' = outq \/ \E m \in Messages : outq' = Append(outq, m) /\ m.what = "gipack"
  BY <1>13, Acknowledges DEF TypeInv
<1>14. CASE RecvStart
  <2>1. /\ phase = "wait" /\ inq # <<>> /\ inq' = Tail(inq) /\ Head(inq).chunk = "start"
        /\ rx' = [on |-> TRUE, got |-> {Head(inq).at}, recvd |-> 1]
        /\ UNCHANGED <<step, phase, script, dev, late, lost, result, taken>>
        /\ Acknowledge(Head(inq))
    BY <1>14 DEF RecvStart, Receiving, devVars
  <2>2. IsAuth(Head(inq))
    BY <1>0, <2>1, TailOf, StartIsAuth
  <2>3. Parts'
    BY <1>13, <2>1, <2>2, KeepsChunk
  <2> QED  BY <1>1, <1>2, <1>3, <2>1, <2>3
<1>15. CASE RecvChunk
  <2>1. /\ Receiving /\ phase = "wait" /\ inq # <<>> /\ inq' = Tail(inq) /\ IsAuth(Head(inq))
        /\ Head(inq).chunk = "data" /\ rx.on /\ Acknowledge(Head(inq))
        /\ UNCHANGED <<dev, late, lost>>
    BY <1>15 DEF RecvChunk, Receiving, devVars, IsAuth
  <2>2. CASE /\ Head(inq).at < Units
             /\ rx' = [on |-> TRUE, got |-> rx.got \cup {Head(inq).at}, recvd |-> Head(inq).at]
             /\ UNCHANGED <<step, phase, v2, script, result, taken>>
    <3>1. Parts'
      BY <1>13, <2>1, <2>2, KeepsChunk
    <3> QED  BY <1>1, <1>2, <1>3, <2>1, <2>2, <3>1
  <2>3. CASE ~(Head(inq).at < Units) /\ Answered(Head(inq), rx.got \cup {Head(inq).at})
    <3>1. Head(inq).at \in 2 .. Units
      BY <1>0, <2>1, TailOf, AuthPacket
    <3>2. rx.got \cup {Head(inq).at} \in SUBSET (1 .. Units)
      BY <3>1, UnitsAssumption DEF TypeInv, BringUpTypeOK
    <3>3. HandshakeInv' /\ Results'
      BY <1>13, <2>1, <2>3, <3>2, ChunksAnswered
    <3> QED  BY <1>2, <3>3
  <2> QED  BY <1>15, <2>2, <2>3 DEF RecvChunk
<1>16. CASE RecvEnd
  <2>1. /\ Receiving /\ inq' = Tail(inq) /\ IsAuth(Head(inq))
        /\ Head(inq).chunk = "end" /\ rx.on /\ Answered(Head(inq), rx.got)
        /\ UNCHANGED <<dev, late, lost, outq>>
    BY <1>16 DEF RecvEnd, devVars, IsAuth
  <2>2. rx.got \in SUBSET (1 .. Units)
    BY DEF TypeInv, BringUpTypeOK
  <2>3. HandshakeInv' /\ Results'
    BY <2>1, <2>2, ChunksAnswered
  <2> QED  BY <1>2, <2>3
<1>17. CASE RecvWhole
  BY <1>2, <1>17, WholeAnswered
<1>18. CASE RecvExpires
  BY <1>2, <1>18, Expires
<1>19. ~DrainTakes /\ ~DrainEnds /\ ~GipSend /\ ~GipRecv /\ ~SendComplete
       /\ ~IdentifyTakes /\ ~IdentifyAckRaises /\ ~IdentifyEnds /\ ~IdentifyGivesUp
  BY <1>0 DEF DrainTakes, DrainEnds, GipSend, GipRecv, SendComplete,
              IdentifyTakes, IdentifyAckRaises, IdentifyEnds, IdentifyGivesUp, Identifying
<1> QED
  BY <1>4, <1>5, <1>7, <1>8, <1>9, <1>10, <1>11, <1>12, <1>14, <1>15, <1>16, <1>17, <1>18, <1>19
  DEF Host

\* The handshake is over.
LEMMA AfterwardsHost ==
  ASSUME TypeInv, Results, step \notin Early, step \notin Waiting, Host
  PROVE  EarlyInv' /\ HandshakeInv' /\ Results'
<1>0. /\ step = "complete" => phase = "send"
      /\ step \in AuthSteps => step = "complete"
      /\ step \notin {"drain", "identify", "secret", "hostkey", "finish"}
  BY DEF TypeInv, Early, Waiting, AuthSteps
<1>1. ASSUME UNCHANGED <<result, taken, late, lost>> PROVE Results'
  BY <1>1 DEF Results, AnswersPaired, PayloadWhole, MismatchRight
<1>2. ASSUME step' \in {"format", "power", "done", "dead", "complete"}
      PROVE EarlyInv' /\ HandshakeInv'
  BY <1>2 DEF EarlyInv, HandshakeInv, AuthSteps
<1>3. CASE GipSend \/ GipRecv
  BY <1>0, <1>1, <1>2, <1>3 DEF GipSend, GipRecv, GoTo, Following
<1>4. CASE SendComplete \/ AuthWriteFails
  BY <1>1, <1>2, <1>4 DEF SendComplete, AuthWriteFails, GoTo
<1>5. ~DrainTakes /\ ~DrainEnds /\ ~IdentifyTakes /\ ~IdentifyAckRaises /\ ~IdentifyEnds
      /\ ~IdentifyGivesUp
  BY <1>0 DEF DrainTakes, DrainEnds, IdentifyTakes, IdentifyAckRaises, IdentifyEnds,
     IdentifyGivesUp, Identifying
<1>6. ~SendSimple /\ ~SendFirstChunk /\ ~SendNextChunk /\ ~AckIgnores /\ ~ChunkAckExpires
      /\ ~SendEndChunk
  BY <1>0 DEF SendSimple, SendFirstChunk, SendNextChunk, AckIgnores, ChunkAckExpires, SendEndChunk
<1>7. ~RecvIgnores /\ ~RecvWhole /\ ~RecvStart /\ ~RecvChunk /\ ~RecvEnd /\ ~ReadFails
      /\ ~RecvExpires
  BY <1>0 DEF RecvIgnores, RecvWhole, RecvStart, RecvChunk, RecvEnd, ReadFails, RecvExpires,
     Receiving
<1> QED
  BY <1>3, <1>4, <1>5, <1>6, <1>7 DEF Host

\* No step breaks the invariants of the handshake, or spoils its results.
LEMMA HandshakeStep ==
  TypeInv /\ Numbers /\ EarlyInv /\ HandshakeInv /\ Results /\ [Next]_vars
    => EarlyInv' /\ HandshakeInv' /\ Results'
<1> SUFFICES ASSUME TypeInv, EarlyInv, HandshakeInv, Results, [Next]_vars
             PROVE  EarlyInv' /\ HandshakeInv' /\ Results'
  OBVIOUS
<1>1. ASSUME UNCHANGED readVars PROVE EarlyInv' /\ HandshakeInv' /\ Results'
  <2>1. UNCHANGED <<step, phase, script, rx, result, outq, inq, dev, taken, late, lost>>
    BY <1>1 DEF readVars, devVars
  <2>2. UNCHANGED <<InFlight, Coming>>
    BY <2>1 DEF InFlight, Coming
  <2>3. EarlyInv'
    BY <2>1 DEF EarlyInv
  <2>4. HandshakeInv'
    BY <2>1, <2>2 DEF HandshakeInv, InOrder, Below, Starts, Floor, Receipt, Holes, Pairs, Scripts
  <2>5. Results'
    BY <2>1 DEF Results, AnswersPaired, PayloadWhole, MismatchRight
  <2> QED  BY <2>3, <2>4, <2>5
<1>2. ASSUME UNCHANGED bringUpVars PROVE EarlyInv' /\ HandshakeInv' /\ Results'
  BY <1>1, <1>2 DEF bringUpVars, hostVars, devVars, readVars
<1>3. ASSUME Forget PROVE EarlyInv' /\ HandshakeInv' /\ Results'
  BY <1>3 DEF Forget, EarlyInv, HandshakeInv, AuthSteps, Results, AnswersPaired, PayloadWhole,
     MismatchRight,
              NothingTaken
<1>4. CASE InBringUp
  <2>1. CASE Host
    <3>1. CASE step \in Early
      BY <2>1, <3>1, EarlyHost
    <3>2. CASE step \in Waiting
      BY <2>1, <3>2, HandshakeHost DEF HandshakeInv, Waiting, Parts
    <3>3. CASE step \notin Early /\ step \notin Waiting
      BY <2>1, <3>3, AfterwardsHost
    <3> QED  BY <3>1, <3>2, <3>3
  <2>2. CASE Device
    <3>1. UNCHANGED <<step, result, taken, late, lost>>
      BY <2>2, DeviceTypes DEF TypeInv, hostVars
    <3>2. EarlyInv'
      BY <2>2, <3>1, EarlyDevice DEF EarlyInv, Early
    <3>3. HandshakeInv'
      BY <2>2, <3>1, DeviceTakes, DeviceSends DEF HandshakeInv, Waiting, Parts, Device
    <3>4. Results'
      BY <3>1 DEF Results, AnswersPaired, PayloadWhole, MismatchRight
    <3> QED  BY <3>2, <3>3, <3>4
  <2> QED  BY <1>4, <2>1, <2>2 DEF InBringUp, BringUp
<1>5. CASE BringUpReturns \/ BringUpRaises
  BY <1>3, <1>5 DEF BringUpReturns, BringUpRaises
<1>6. CASE CreateUinput \/ StartBridge \/ StartAudio \/ StartThreads
  BY <1>2, <1>6 DEF CreateUinput, StartBridge, StartAudio, StartThreads
<1>7. CASE Interrupt
  BY <1>2, <1>3, <1>7 DEF Interrupt
<1>8. CASE StopIso \/ JoinThreads \/ StopBridge \/ CloseAll
  BY <1>2, <1>8 DEF StopIso, JoinThreads, StopBridge, CloseAll
<1>9. CASE MonitorTop \/ AnswerAck
  BY <1>1, <1>9 DEF MonitorTop, AnswerAck
<1>10. CASE AnswerStatus \/ AnswerKnobs
  BY <1>1, <1>10 DEF AnswerStatus, AnswerKnobs, Answer
<1>11. CASE MonitorReads \/ MonitorReadsNothing \/ ForwardInput \/ ForwardMedia \/ MonitorCtrl
  BY <1>2, <1>11 DEF MonitorReads, MonitorReadsNothing, ForwardInput, ForwardMedia, MonitorCtrl
<1>12. CASE UNCHANGED vars
  BY <1>2, <1>12 DEF vars
<1> QED
  BY <1>4, <1>5, <1>6, <1>7, <1>8, <1>9, <1>10, <1>11, <1>12 DEF Next, Main, Threads

\* How much of the transcript the host has hashed when it comes to a step.
Depth(s) ==
  CASE s \in {"hello", "hello2"}   -> 0
    [] s = "ch"                    -> 1
    [] s = "cert"                  -> 2
    [] s \in {"pubkey", "secret"}  -> 3
    [] s = "hostkey"               -> 4
    [] s = "finish"                -> Len(Transcript) - 1
    [] OTHER                       -> Len(Transcript)

Hashes(n) == Len(script) = n /\ \A i \in 1 .. n : script[i] \in {Transcript[i], "torn"}

\* The host hashes the messages of one version in their order, whatever it takes
\* for an answer: a wrong one in the place of CLIENT_HELLO, the certificate or the
\* public key ends the handshake, and one with a hole is known as such.
TranscriptInv ==
  /\ step \in {"drain", "identify", "hello"} => ~v2
  /\ v2 => step # "secret"
  /\ ~v2 => step \notin {"hello2", "pubkey", "hostkey"}
  /\ step \in Early => script = <<>>
  /\ step \in Waiting =>
       Hashes(Depth(step) + (IF phase = "wait" /\ step \in HashedSent THEN 1 ELSE 0))
  /\ step \in Early \cup Waiting => result = "none"
  /\ result = "verified" => script = Transcript

---------------------------------------------------------------------------
(* What the host hashes. *)

\* The messages of the transcript, by their places.
LEMMA TranscriptIs ==
  /\ Transcript \in Seq(AuthSteps) /\ Len(Transcript) \in {5, 6}
  /\ v2 => /\ Len(Transcript) = 6 /\ Transcript[1] = "hello2" /\ Transcript[2] = "ch"
           /\ Transcript[3] = "cert" /\ Transcript[4] = "pubkey" /\ Transcript[5] = "hostkey"
           /\ Transcript[6] = "finish"
  /\ ~v2 => /\ Len(Transcript) = 5 /\ Transcript[1] = "hello" /\ Transcript[2] = "ch"
            /\ Transcript[3] = "cert" /\ Transcript[4] = "secret" /\ Transcript[5] = "finish"
<1> DEFINE new == <<"hello2", "ch", "cert", "pubkey", "hostkey", "finish">>
           old == <<"hello", "ch", "cert", "secret", "finish">>
<1>1. new \in Seq(AuthSteps) /\ old \in Seq(AuthSteps)
  BY DEF AuthSteps
<1>2. Len(new) = 6 /\ Len(old) = 5
  OBVIOUS
<1>3. /\ new[1] = "hello2" /\ new[2] = "ch" /\ new[3] = "cert"
      /\ new[4] = "pubkey" /\ new[5] = "hostkey" /\ new[6] = "finish"
  OBVIOUS
<1>4. /\ old[1] = "hello" /\ old[2] = "ch" /\ old[3] = "cert"
      /\ old[4] = "secret" /\ old[5] = "finish"
  OBVIOUS
<1>5. (v2 => Transcript = new) /\ (~v2 => Transcript = old)
  BY DEF Transcript
<1> HIDE DEF new, old
<1> QED  BY <1>1, <1>2, <1>3, <1>4, <1>5

LEMMA OneMore ==
  ASSUME NEW n \in Nat, NEW i \in 1 .. n + 1
  PROVE  i = n + 1 \/ i \in 1 .. n
OBVIOUS

\* One more message hashed, the next in order or one known as torn.
LEMMA HashesNext ==
  ASSUME TypeInv, NEW n \in Nat, Hashes(n), NEW x \in AuthSteps \cup {"torn"},
         x \in {Transcript[n + 1], "torn"}, script' = Append(script, x), UNCHANGED v2
  PROVE  Hashes(n + 1)'
<1>1. script \in Seq(AuthSteps \cup {"torn"})
  BY DEF TypeInv, BringUpTypeOK
<1>2. Transcript' = Transcript
  BY DEF Transcript
<1>3. Len(script') = n + 1
  BY <1>1 DEF Hashes
<1>4. ASSUME NEW i \in 1 .. n + 1
      PROVE  script'[i] \in {Transcript[i], "torn"}
  <2>1. CASE i = n + 1
    BY <1>1, <2>1 DEF Hashes
  <2>2. CASE i \in 1 .. n
    <3>1. script'[i] = script[i]
      BY <1>1, <2>2 DEF Hashes
    <3> QED  BY <2>2, <3>1 DEF Hashes
  <2> QED  BY <2>1, <2>2, OneMore
<1> QED  BY <1>2, <1>3, <1>4 DEF Hashes

\* The depth of each step, for the version at hand.
LEMMA Depths ==
  ASSUME step \in Waiting, TranscriptInv
  PROVE  /\ step \in {"hello", "hello2"} => Depth(step) = 0 /\ Transcript[1] = step
         /\ step = "ch" => Depth(step) = 1 /\ Transcript[2] = step
         /\ step = "cert" => Depth(step) = 2 /\ Transcript[3] = step
         /\ step = "pubkey" => v2 /\ Depth(step) = 3 /\ Transcript[4] = step
         /\ step = "secret" => ~v2 /\ Depth(step) = 3 /\ Transcript[4] = step
         /\ step = "hostkey" => v2 /\ Depth(step) = 4 /\ Transcript[5] = step
         /\ step = "finish" => Depth(step) = Len(Transcript) - 1
                               /\ Transcript[Len(Transcript)] = step
         /\ step = "cf" => Depth(step) = Len(Transcript)
         /\ Depth(step) \in Nat
BY TranscriptIs DEF Depth, TranscriptInv, Waiting, AuthSteps

\* Where the handshake goes from a step, with the version it has.
LEMMA DepthFollows ==
  ASSUME step \in Waiting \ {"cf"}, TranscriptInv, v2 \in BOOLEAN
  PROVE  /\ Following(step) \in Waiting
         /\ v2 => Following(step) # "secret"
         /\ ~v2 => Following(step) \notin {"hello2", "pubkey", "hostkey"}
         /\ Following(step) # "hello"
         /\ Depth(Following(step)) = Depth(step) + 1
<1>1. /\ step = "hello" => Following(step) = "ch"
      /\ step = "hello2" => Following(step) = "ch"
      /\ step = "ch" => Following(step) = "cert"
      /\ step = "cert" => Following(step) = IF v2 THEN "pubkey" ELSE "secret"
      /\ step = "pubkey" => Following(step) = "hostkey"
      /\ step \in {"hostkey", "secret"} => Following(step) = "finish"
      /\ step = "finish" => Following(step) = "cf"
  BY DEF Following
<1>2. /\ Depth("ch") = 1 /\ Depth("cert") = 2 /\ Depth("pubkey") = 3 /\ Depth("secret") = 3
      /\ Depth("hostkey") = 4 /\ Depth("finish") = Len(Transcript) - 1
      /\ Depth("cf") = Len(Transcript)
  BY DEF Depth
<1> QED
  BY <1>1, <1>2, Depths, TranscriptIs DEF TranscriptInv, Waiting, AuthSteps

\* A handed answer is hashed in its place, or ends the handshake.
LEMMA TranscriptAnswered ==
  ASSUME TypeInv, TranscriptInv, AnswersPaired', Receiving, NEW p \in Packets, p.type = "auth",
         NEW got \in SUBSET (1 .. Units), step = "hello" \/ p.to # "previous", Answered(p, got),
         UNCHANGED dev
  PROVE  TranscriptInv'
<1> DEFINE whole == p.chunk = "no" \/ got = 1 .. Units
<1>1. step \in Waiting /\ phase = "wait" /\ result = "none" /\ v2 \in BOOLEAN
  BY AnswerMoves DEF Waiting, TranscriptInv, TypeInv, BringUpTypeOK
<1>2. taken' = [step |-> step, to |-> p.to, whole |-> whole]
  BY DEF Answered
<1>3. ASSUME UNCHANGED <<script, v2>>, step' \in {"format", "dead", "complete"},
             result' \in {"none", "mismatch", "failed"}
      PROVE  TranscriptInv'
  BY <1>3 DEF TranscriptInv, Early, Waiting, AuthSteps
<1>4. ASSUME Fail PROVE TranscriptInv'
  BY <1>3, <1>4 DEF Fail, GoTo
<1>5. ASSUME NEW n \in Nat, UNCHANGED <<v2, result>>, GoTo(Following(step)), step # "cf",
             Hashes(n)', n = Depth(step) + 1
      PROVE  TranscriptInv'
  <2>1. Transcript' = Transcript
    BY <1>5 DEF Transcript
  <2>2. step' = Following(step) /\ phase' = "send"
    BY <1>5 DEF GoTo
  <2>3. Depth(step)' = n
    <3>1. Depth(step)' = Depth(Following(step))
      BY <2>1, <2>2 DEF Depth
    <3> QED  BY <1>1, <1>5, <3>1, DepthFollows
  <2>4. step' \in Waiting /\ step' \notin Early
    BY <1>1, <1>5, <2>2, DepthFollows DEF Early, Waiting, AuthSteps
  <2>5. Hashes(Depth(step) + (IF phase = "wait" /\ step \in HashedSent THEN 1 ELSE 0))'
    <3>1. (Depth(step) + (IF phase = "wait" /\ step \in HashedSent THEN 1 ELSE 0))' = n
      BY <1>5, <2>2, <2>3
    <3> QED  BY <1>5, <3>1 DEF Hashes
  <2>6. v2' = v2 /\ result' = "none"
    BY <1>1, <1>5
  <2>7. /\ step' \notin {"drain", "identify", "hello"} /\ (v2' => step' # "secret")
        /\ ~v2' => step' \notin {"hello2", "pubkey", "hostkey"}
    BY <1>1, <1>5, <2>2, <2>4, <2>6, DepthFollows DEF Early
  <2> QED  BY <2>4, <2>5, <2>6, <2>7 DEF TranscriptInv
<1>6. CASE step = "hello" /\ HelloAnswered(p)
  <2>1. CASE p.kind = "short"
    BY <1>4, <1>6, <2>1 DEF HelloAnswered
  <2>2. CASE p.kind = "upgrade"
    <3>1. v2' = TRUE /\ script' = <<>> /\ step' = "hello2" /\ phase' = "send" /\ result' = "none"
      BY <1>1, <1>6, <2>2 DEF HelloAnswered, GoTo
    <3>2. Hashes(0)' /\ Depth(step)' = 0
      BY <3>1 DEF Hashes, Depth
    <3>3. (Depth(step) + (IF phase = "wait" /\ step \in HashedSent THEN 1 ELSE 0))' = 0
      BY <3>1, <3>2
    <3>4. Hashes(Depth(step) + (IF phase = "wait" /\ step \in HashedSent THEN 1 ELSE 0))'
      BY <3>2, <3>3 DEF Hashes
    <3> QED  BY <3>1, <3>4 DEF TranscriptInv, Early
  <2>3. CASE p.kind \notin {"short", "upgrade"}
    <3>1. v2' = FALSE /\ UNCHANGED <<script, result>> /\ GoTo("ch")
      BY <1>6, <2>3 DEF HelloAnswered
    <3>2. v2 = FALSE /\ Hashes(1)
      BY <1>1, <1>6, Depths DEF TranscriptInv, HashedSent
    <3>3. Hashes(1)'
      <4>1. Transcript' = Transcript /\ script' = script
        BY <3>1, <3>2 DEF Transcript
      <4> QED  BY <3>2, <4>1 DEF Hashes
    <3>4. Depth(step) = 0 /\ Following(step) = "ch"
      BY <1>6 DEF Depth, Following
    <3>5. UNCHANGED <<v2, result>> /\ step # "cf"
      BY <1>6, <3>1, <3>2
    <3>6. GoTo(Following(step))
      BY <3>1, <3>4 DEF GoTo
    <3>7. 1 \in Nat /\ 1 = Depth(step) + 1
      BY <3>4
    <3> QED  BY <1>5, <3>3, <3>5, <3>6, <3>7
  <2> QED  BY <2>1, <2>2, <2>3
<1>7. CASE step \in HashedReceived /\ DataAnswered(p, whole)
  <2>1. CASE Fail
    BY <1>4, <2>1
  <2>2. CASE step' = "dead" /\ UNCHANGED <<phase, v2, script, rx, result>>
    BY <1>1, <1>3, <2>2
  <2>3. CASE script' = Hashed(p, whole) /\ GoTo(Following(step)) /\ UNCHANGED <<v2, result>>
    <3> DEFINE x == IF whole THEN p.to ELSE "torn"
    <3>1. p.to = step
      BY <1>1, <1>2, <1>7, <2>3 DEF AnswersPaired
    <3>2. Transcript[Depth(step) + 1] = step /\ Depth(step) \in Nat /\ step \notin HashedSent
      BY <1>1, <1>7, Depths DEF HashedReceived, HashedSent
    <3>3. Hashes(Depth(step))
      <4>1. Depth(step) + (IF phase = "wait" /\ step \in HashedSent THEN 1 ELSE 0) = Depth(step)
        BY <3>2
      <4> QED  BY <1>1, <4>1 DEF TranscriptInv
    <3>4. x \in AuthSteps \cup {"torn"} /\ x \in {step, "torn"} /\ script' = Append(script, x)
      BY <2>3, <3>1, <1>7 DEF Hashed, HashedReceived, AuthSteps
    <3> HIDE DEF x
    <3>5. ASSUME NEW k \in Nat, k = Depth(step) + 1 PROVE Hashes(k)'
      <4>1. PICK n \in Nat : n = Depth(step)
        BY <3>2
      <4>2. Hashes(n) /\ x \in {Transcript[n + 1], "torn"} /\ UNCHANGED v2 /\ k = n + 1
        BY <2>3, <3>2, <3>3, <3>4, <3>5, <4>1
      <4>3. Hashes(n + 1)'
        BY <3>4, <4>2, HashesNext
      <4> QED  BY <4>2, <4>3
    <3>6. Depth(step) + 1 \in Nat /\ step # "cf"
      BY <1>7, <3>2 DEF HashedReceived
    <3> QED  BY <1>5, <2>3, <3>5, <3>6
  <2> HIDE DEF whole
  <2> QED  BY <1>7, <2>1, <2>2, <2>3 DEF DataAnswered
<1>8. CASE step = "cf" /\ FinishAnswered(p, whole)
  <2>1. step' = "complete" /\ UNCHANGED <<v2, script>> /\ result' \in {"verified", "mismatch"}
        /\ (result' = "verified" => dev.script = script)
    BY <1>8 DEF FinishAnswered, GoTo, Following
  <2>2. result' = "verified" => script = Transcript
    <3>1. Hashes(Len(Transcript))
      <4>1. Depth(step) + (IF phase = "wait" /\ step \in HashedSent THEN 1 ELSE 0) = Len(Transcript)
        BY <1>1, <1>8, Depths, TranscriptIs DEF HashedSent
      <4> QED  BY <1>1, <4>1 DEF TranscriptInv
    <3>2. SUFFICES ASSUME script \in Seq(AuthSteps)
                   PROVE  script = Transcript
      BY <2>1 DEF TypeInv, Channels
    <3>3. \A i \in 1 .. Len(Transcript) : script[i] = Transcript[i]
      BY <3>1, <3>2 DEF Hashes, AuthSteps
    <3> QED  BY <3>1, <3>2, <3>3, TranscriptIs DEF Hashes
  <2>3. Transcript' = Transcript
    BY <2>1 DEF Transcript
  <2> QED  BY <2>1, <2>2, <2>3 DEF TranscriptInv, Early, Waiting
<1>9. CASE step \in {"hello2", "hostkey", "secret", "finish"} /\ Acknowledged(p)
  <2>1. CASE step' = "dead" /\ UNCHANGED <<phase, v2, script, rx, result>>
    BY <1>1, <1>3, <2>1
  <2>2. CASE GoTo(Following(step)) /\ UNCHANGED <<v2, script, result>>
    <3>1. Depth(step) \in Nat /\ Hashes(Depth(step) + 1)
      BY <1>1, <1>9, Depths DEF TranscriptInv, HashedSent
    <3>2. ASSUME NEW k, Hashes(k) PROVE Hashes(k)'
      BY <2>2, <3>2 DEF Hashes, Transcript
    <3>3. ASSUME NEW k \in Nat, k = Depth(step) + 1 PROVE Hashes(k)'
      BY <3>1, <3>2, <3>3
    <3> QED  BY <1>5, <1>9, <2>2, <3>1, <3>3
  <2> QED  BY <1>9, <2>1, <2>2 DEF Acknowledged
<1> HIDE DEF whole
<1> QED  BY <1>6, <1>7, <1>8, <1>9 DEF Answered, whole

\* No step of the host mixes up what it hashes.
LEMMA TranscriptHost ==
  ASSUME TypeInv, EarlyInv, TranscriptInv, AnswersPaired', Host
  PROVE  TranscriptInv'
<1>0. /\ step \in AuthSteps => step = "complete" \/ step \in Waiting
      /\ step = "complete" => phase = "send"
      /\ v2 \in BOOLEAN /\ script \in Seq(AuthSteps \cup {"torn"})
      /\ "secret" \in Waiting /\ "secret" \in HashedSent
  BY DEF TypeInv, BringUpTypeOK, Waiting, AuthSteps, HashedSent
<1>1. ASSUME UNCHANGED <<step, script, v2, result>>,
             phase' = phase \/ (phase # "wait" /\ phase' # "wait") \/ step \notin Waiting
      PROVE  TranscriptInv'
  <2>1. Transcript' = Transcript /\ Depth(step)' = Depth(step)
    BY <1>1 DEF Transcript, Depth
  <2>2. step \in Waiting =>
          Hashes(Depth(step) + (IF phase = "wait" /\ step \in HashedSent THEN 1 ELSE 0))'
    BY <1>1, <2>1 DEF TranscriptInv, Hashes
  <2> QED  BY <1>1, <2>1, <2>2 DEF TranscriptInv
<1>2. ASSUME UNCHANGED <<script, v2>>, step' \in {"format", "power", "done", "dead"},
             result' \in {result, "failed"}
      PROVE  TranscriptInv'
  <2>1. Transcript' = Transcript
    BY <1>2 DEF Transcript
  <2> QED  BY <1>2, <2>1 DEF TranscriptInv, Early, Waiting, AuthSteps
<1>3. ASSUME step \in Early, UNCHANGED <<script, v2>>, Authenticate \/ (GoTo("identify") /\ UNCHANGED result)
      PROVE  TranscriptInv'
  <2>1. script' = <<>> /\ v2' = FALSE /\ result = "none"
    BY <1>0, <1>3 DEF TranscriptInv, Early
  <2>2. CASE step' = "hello" /\ phase' = "send" /\ result' = "none"
    <3>1. Hashes(0)' /\ Depth(step)' = 0
      BY <2>1, <2>2 DEF Hashes, Depth
    <3>2. (Depth(step) + (IF phase = "wait" /\ step \in HashedSent THEN 1 ELSE 0))' = 0
      BY <2>2, <3>1
    <3>3. Hashes(Depth(step) + (IF phase = "wait" /\ step \in HashedSent THEN 1 ELSE 0))'
      BY <3>1, <3>2 DEF Hashes
    <3> QED  BY <2>1, <2>2, <3>3 DEF TranscriptInv, Early
  <2>3. CASE step' = "format" /\ result' = "failed"
    BY <1>2, <1>3, <2>3
  <2>4. CASE step' = "identify" /\ result' = "none"
    BY <2>1, <2>4 DEF TranscriptInv, Early, Waiting, AuthSteps
  <2> QED  BY <1>3, <2>1, <2>2, <2>3, <2>4 DEF Authenticate, GoTo
\* The message is hashed as it is sent.
<1>4. ASSUME step \in Waiting, phase # "wait", phase' = "wait", UNCHANGED <<step, v2, result>>,
             script' = IF step \in HashedSent THEN Append(script, step) ELSE script
      PROVE  TranscriptInv'
  <2> DEFINE n == Depth(step)
             k == IF step \in HashedSent THEN 1 ELSE 0
  <2>1. Transcript' = Transcript /\ Depth(step)' = Depth(step)
    BY <1>4 DEF Transcript, Depth
  <2>2. n \in Nat /\ n + 0 = n /\ Hashes(n + 0)
    <3>1. Hashes(Depth(step) + 0)
      BY <1>4 DEF TranscriptInv
    <3> QED  BY <1>4, <3>1, Depths
  <2>3. step \in HashedSent => Transcript[n + 1] = step /\ step \in AuthSteps
    <3>1. Len(Transcript) - 1 + 1 = Len(Transcript)
      BY TranscriptIs
    <3> QED  BY <1>4, <3>1, Depths DEF HashedSent, AuthSteps
  <2> HIDE DEF n
  <2>4. ASSUME NEW j, j = n + k PROVE Hashes(j)'
    <3>1. CASE step \in HashedSent
      <4>1. j = n + 1
        BY <2>4, <3>1
      <4> QED  BY <1>4, <2>2, <2>3, <3>1, <4>1, HashesNext DEF Hashes
    <3>2. CASE step \notin HashedSent
      <4>1. j = n + 0
        BY <2>4, <3>2
      <4>2. Hashes(j)
        BY <2>2, <4>1
      <4> QED  BY <1>4, <2>1, <3>2, <4>2 DEF Hashes
    <3> QED  BY <3>1, <3>2
  <2>5. Hashes(Depth(step) + (IF phase = "wait" /\ step \in HashedSent THEN 1 ELSE 0))'
    <3>1. (Depth(step) + (IF phase = "wait" /\ step \in HashedSent THEN 1 ELSE 0))' = n + k
      BY <1>4, <2>1 DEF n
    <3> QED  BY <2>4, <3>1 DEF Hashes
  <2>6. step \notin Early
    BY <1>4 DEF Early, Waiting, AuthSteps
  <2> QED  BY <1>0, <1>4, <2>5, <2>6 DEF TranscriptInv, Early
<1>5. CASE DrainTakes \/ AckIgnores \/ RecvIgnores \/ ReadFails \/ IdentifyTakes \/ RecvStart
  BY <1>1, <1>5 DEF DrainTakes, AckIgnores, RecvIgnores, ReadFails, IdentifyTakes, RecvStart, hostVars
<1>6. CASE SendFirstChunk \/ SendNextChunk \/ ChunkAckExpires
  BY <1>1, <1>6 DEF SendFirstChunk, SendNextChunk, ChunkAckExpires
<1>7. CASE GipSend
  <2>1. step \notin Waiting /\ UNCHANGED <<step, script, v2, result>>
    BY <1>7 DEF GipSend, Waiting, AuthSteps
  <2> QED  BY <1>1, <2>1
<1>8. CASE GipRecv \/ SendComplete \/ AuthWriteFails
  BY <1>2, <1>8 DEF GipRecv, SendComplete, AuthWriteFails, GoTo, Following
<1>9. CASE IdentifyAckRaises
  BY <1>2, <1>9 DEF IdentifyAckRaises
<1>10. CASE DrainEnds \/ IdentifyEnds \/ IdentifyGivesUp
  <2>1. step \in Early /\ UNCHANGED <<script, v2>>
    BY <1>10 DEF DrainEnds, IdentifyEnds, IdentifyGivesUp, Identifying, Early
  <2> QED  BY <1>3, <1>10, <2>1 DEF DrainEnds, IdentifyEnds, IdentifyGivesUp
<1>11. CASE SendSimple
  BY <1>0, <1>4, <1>11 DEF SendSimple, Waiting
<1>12. CASE SendEndChunk
  BY <1>0, <1>4, <1>12 DEF SendEndChunk
<1>13. CASE RecvExpires
  <2>1. step \in Waiting /\ phase = "wait"
    BY <1>0, <1>13 DEF RecvExpires
  <2>2. CASE Fail
    BY <1>2, <2>2 DEF Fail, GoTo
  <2>3. CASE step \in {"hostkey", "secret", "finish"} /\ GoTo(Following(step))
             /\ UNCHANGED <<v2, script, result>>
    <3>1. Depth(step) \in Nat /\ Hashes(Depth(step) + 1) /\ result = "none"
      BY <2>1, <2>3, Depths DEF TranscriptInv, HashedSent
    <3>2. step' = Following(step) /\ phase' = "send" /\ result' = "none" /\ v2' = v2
      BY <2>3, <3>1 DEF GoTo
    <3>3. Transcript' = Transcript
      BY <3>2 DEF Transcript
    <3>4. Depth(step)' = Depth(step) + 1 /\ step' \in Waiting /\ step' \in {"finish", "cf"}
      <4>1. Depth(step)' = Depth(Following(step))
        BY <3>2, <3>3 DEF Depth
      <4> QED  BY <2>1, <2>3, <3>2, <4>1, <1>0, DepthFollows DEF Following
    <3>5. Hashes(Depth(step) + (IF phase = "wait" /\ step \in HashedSent THEN 1 ELSE 0))'
      <4>1. (Depth(step) + (IF phase = "wait" /\ step \in HashedSent THEN 1 ELSE 0))' = Depth(step) + 1
        BY <3>1, <3>2, <3>4
      <4> QED  BY <2>3, <3>1, <3>3, <4>1 DEF Hashes
    <3> QED  BY <3>2, <3>4, <3>5 DEF TranscriptInv, Early
  <2> QED  BY <1>13, <2>2, <2>3 DEF RecvExpires
<1>14. ASSUME Receiving, Head(inq).type = "auth"
       PROVE  Head(inq) \in Packets /\ (step = "hello" \/ Head(inq).to # "previous")
  BY <1>14, LeftoverHead DEF Receiving
<1>15. rx.got \in SUBSET (1 .. Units) /\ {} \in SUBSET (1 .. Units)
  BY DEF TypeInv, BringUpTypeOK
<1>16. CASE RecvWhole \/ RecvEnd
  BY <1>14, <1>15, <1>16, TranscriptAnswered DEF RecvWhole, RecvEnd, devVars
<1>17. CASE RecvChunk
  <2>1. Receiving /\ Head(inq).type = "auth" /\ Head(inq).chunk = "data" /\ UNCHANGED dev
    BY <1>17 DEF RecvChunk, devVars
  <2>2. Head(inq).at \in 1 .. Units
    <3>1. Head(inq) \in Packets /\ IsAuth(Head(inq))
      BY <1>14, <2>1 DEF IsAuth
    <3>2. Head(inq).at \in 2 .. Units
      BY <2>1, <3>1, AuthPacket
    <3> QED  BY <3>2, UnitsAssumption
  <2>3. rx.got \cup {Head(inq).at} \in SUBSET (1 .. Units)
    BY <1>15, <2>2
  <2>4. CASE UNCHANGED <<step, phase, v2, script, result, taken>>
    BY <1>1, <2>4
  <2>5. CASE Answered(Head(inq), rx.got \cup {Head(inq).at})
    BY <1>14, <2>1, <2>3, <2>5, TranscriptAnswered
  <2> QED  BY <1>17, <2>4, <2>5 DEF RecvChunk
<1> QED
  BY <1>5, <1>6, <1>7, <1>8, <1>9, <1>10, <1>11, <1>12, <1>13, <1>16, <1>17 DEF Host

\* Nor does any other.
LEMMA TranscriptStep ==
  TypeInv /\ EarlyInv /\ TranscriptInv /\ AnswersPaired' /\ [Next]_vars => TranscriptInv'
<1> SUFFICES ASSUME TypeInv, EarlyInv, TranscriptInv, AnswersPaired', [Next]_vars
             PROVE  TranscriptInv'
  OBVIOUS
<1>1. ASSUME UNCHANGED <<step, phase, v2, script, result>> PROVE TranscriptInv'
  <2>1. Transcript' = Transcript /\ Depth(step)' = Depth(step)
    BY <1>1 DEF Transcript, Depth
  <2>2. step \in Waiting =>
          Hashes(Depth(step) + (IF phase = "wait" /\ step \in HashedSent THEN 1 ELSE 0))'
    BY <1>1, <2>1 DEF TranscriptInv, Hashes
  <2> QED  BY <1>1, <2>1, <2>2 DEF TranscriptInv
<1>2. ASSUME UNCHANGED bringUpVars PROVE TranscriptInv'
  BY <1>1, <1>2 DEF bringUpVars, hostVars
<1>3. ASSUME Forget PROVE TranscriptInv'
  BY <1>3 DEF Forget, TranscriptInv, Early, Waiting, AuthSteps
<1>4. CASE InBringUp
  <2>1. CASE Device
    BY <1>1, <2>1, DeviceTypes DEF TypeInv, hostVars
  <2> QED  BY <1>4, <2>1, TranscriptHost DEF InBringUp, BringUp
<1>5. CASE BringUpReturns \/ BringUpRaises
  BY <1>3, <1>5 DEF BringUpReturns, BringUpRaises
<1>6. CASE CreateUinput \/ StartBridge \/ StartAudio \/ StartThreads
  BY <1>2, <1>6 DEF CreateUinput, StartBridge, StartAudio, StartThreads
<1>7. CASE Interrupt
  BY <1>2, <1>3, <1>7 DEF Interrupt
<1>8. CASE StopIso \/ JoinThreads \/ StopBridge \/ CloseAll
  BY <1>2, <1>8 DEF StopIso, JoinThreads, StopBridge, CloseAll
<1>9. CASE MonitorTop \/ AnswerAck
  BY <1>1, <1>9 DEF MonitorTop, AnswerAck, readVars
<1>10. CASE AnswerStatus \/ AnswerKnobs
  BY <1>1, <1>10 DEF AnswerStatus, AnswerKnobs, Answer, readVars
<1>11. CASE MonitorReads \/ MonitorReadsNothing \/ ForwardInput \/ ForwardMedia \/ MonitorCtrl
  BY <1>2, <1>11 DEF MonitorReads, MonitorReadsNothing, ForwardInput, ForwardMedia, MonitorCtrl
<1>12. CASE UNCHANGED vars
  BY <1>2, <1>12 DEF vars
<1> QED
  BY <1>4, <1>5, <1>6, <1>7, <1>8, <1>9, <1>10, <1>11, <1>12 DEF Next, Main, Threads

\* They hold at the start, with nothing sent.
LEMMA HandshakeInit == Init => EarlyInv /\ HandshakeInv /\ Results /\ TranscriptInv
<1> SUFFICES ASSUME Init PROVE EarlyInv /\ HandshakeInv /\ Results /\ TranscriptInv
  OBVIOUS
<1>1. /\ step = "drain" /\ script = <<>> /\ rx = NoRx /\ result = "none" /\ outq = <<>>
      /\ dev.send = <<>> /\ dev.await = NoPacket /\ taken = NothingTaken /\ late = FALSE
      /\ v2 = FALSE
      /\ inq \in {<<>>, <<Other>>, <<Packet("auth", "ack", "previous")>>}
  BY DEF Init, BringUpInit, SilentDevice
<1>2. \A i, j \in 1 .. Len(inq) : ~(i < j)
  <2>1. PICK p \in Packets : inq = <<>> \/ inq = <<p>>
    BY <1>1, KnownPackets
  <2>2. CASE inq = <<>>
    BY <2>2
  <2>3. CASE inq = <<p>>
    <3>1. Len(inq) = 1
      BY <2>3
    <3> HIDE <2>3
    <3> QED  BY <3>1
  <2> QED  BY <2>1, <2>2, <2>3
<1>3. \A x \in Elems(inq) : x = Other \/ x = Packet("auth", "ack", "previous")
  BY <1>1 DEF Elems
<1>4. Packet("auth", "ack", "previous").to = "previous"
  BY DEF Packet
<1>5. EarlyInv
  BY <1>1, <1>2, <1>3, <1>4, KnownPackets, EmptyOf DEF EarlyInv, Ordered, NoRx
<1>6. HandshakeInv
  BY <1>1 DEF HandshakeInv, AuthSteps
<1>7. Results
  BY <1>1 DEF Results, AnswersPaired, PayloadWhole, MismatchRight, NothingTaken
<1>8. TranscriptInv
  BY <1>1 DEF TranscriptInv, Early, Waiting, AuthSteps
<1> QED  BY <1>5, <1>6, <1>7, <1>8

\* The three results follow from one invariant.
LEMMA ResultsHold == Spec => [](Results /\ TranscriptInv)
<1>1. Results' => AnswersPaired'
  BY DEF Results
<1> QED
  BY TypesInit, TypesStep, ShutdownInit, ShutdownStep, HandshakeInit, HandshakeStep,
     TranscriptStep, <1>1, PTL DEF Spec

(***************************************************************************)
(* Nothing in an answer says what it answers, and _gip_auth_recv and the   *)
(* receiving loop take AUTH packets as they come.  What the handshake      *)
(* takes for the answer to a message is nevertheless the answer to that    *)
(* message, unless a wait for an acknowledgement was given up before, or   *)
(* the drain left the answer to a previous run; and even then it never     *)
(* goes on with another answer in the place of CLIENT_HELLO, of the        *)
(* certificate or of the public key.                                       *)
(***************************************************************************)
THEOREM AnswersArePaired == Spec => []AnswersPaired
<1>1. Results => AnswersPaired
  BY DEF Results
<1> QED
  BY ResultsHold, <1>1, PTL

(***************************************************************************)
(* The payload the receiving loop hands over is all of what the device     *)
(* sent, however many of its chunks come twice: chunk_recvd is the highest *)
(* offset seen, and below it only a failed read leaves a hole.             *)
(***************************************************************************)
THEOREM PayloadsAreWhole == Spec => []PayloadWhole
<1>1. Results => PayloadWhole
  BY DEF Results
<1> QED
  BY ResultsHold, <1>1, PTL

(***************************************************************************)
(* The handshake reports a mismatch in CLIENT_FINISH only after a wait     *)
(* that was given up or a packet that was lost: otherwise both ends have   *)
(* hashed the same messages in the same order (transcript_sent,            *)
(* transcript_received), and CLIENT_FINISH compares equal.  It reports     *)
(* success only when both have hashed every message of one version of the  *)
(* protocol, whole and in order, whatever was given up or lost before.     *)
(***************************************************************************)
THEOREM VerdictsAreRight == Spec => []VerdictRight
<1>1. Results /\ TranscriptInv => VerdictRight
  BY DEF Results, MismatchRight, TranscriptInv, VerdictRight
<1> QED
  BY ResultsHold, <1>1, PTL

=============================================================================
