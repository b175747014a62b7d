---------------------------- MODULE PyAudioProofs ----------------------------
(***************************************************************************)
(* Proofs about PyAudio for any length of the rings, any range of their    *)
(* cursors that this length divides, any buffers, and any number of        *)
(* transfers, packets and errors.                                          *)
(*                                                                         *)
(* First the ring: where a byte is when a cursor has wrapped, and so what  *)
(* ring_read and ring_write make of what it holds.  Then an invariant:     *)
(* who may run when (ModeInv), that a transfer is submitted or in the      *)
(* event thread's callback until stop cancels it (DrainInv), and what the  *)
(* reader of a packet knows of the ring (PacketInv).                       *)
(***************************************************************************)
EXTENDS PyAudio, SequenceTheorems, TLAPS

---------------------------------------------------------------------------
(* Remainders. *)

LEMMA DivMod ==
  ASSUME NEW a \in Int, NEW m \in Nat \ {0}
  PROVE  a % m \in 0 .. m - 1 /\ a \div m \in Int /\ a = m * (a \div m) + (a % m)
OBVIOUS

LEMMA DivModUnique ==
  ASSUME NEW m \in Nat \ {0}, NEW q \in Int, NEW p \in Int,
         NEW r \in 0 .. m - 1, NEW t \in 0 .. m - 1, m * q + r = m * p + t
  PROVE  r = t
<1>1. CASE q > p
  <2>1. m * (q - p) >= m
    BY <1>1
  <2>2. m * (q - p) = m * q - m * p
    OBVIOUS
  <2> QED  BY <2>1, <2>2
<1>2. CASE q < p
  <2>1. m * (p - q) >= m
    BY <1>2
  <2>2. m * (p - q) = m * p - m * q
    OBVIOUS
  <2> QED  BY <2>1, <2>2
<1> QED  BY <1>1, <1>2

\* A number that differs from a remainder by a multiple has that remainder.
LEMMA ModIs ==
  ASSUME NEW m \in Nat \ {0}, NEW a \in Int, NEW k \in Int, NEW r \in 0 .. m - 1, a = m * k + r
  PROVE  a % m = r
BY DivMod, DivModUnique

LEMMA ModPlusMultiple ==
  ASSUME NEW m \in Nat \ {0}, NEW a \in Int, NEW b \in Int, NEW k \in Int, b = a + m * k
  PROVE  b % m = a % m
<1> DEFINE q == a \div m
           r == a % m
<1>1. r \in 0 .. m - 1 /\ q \in Int /\ a = m * q + r
  BY DivMod
<1> HIDE DEF q, r
<1>2. m * (q + k) = m * q + m * k
  BY <1>1
<1>3. b = m * (q + k) + r /\ q + k \in Int
  BY <1>1, <1>2
<1>4. b % m = r
  BY <1>1, <1>3, ModIs
<1> QED  BY <1>4 DEF r

---------------------------------------------------------------------------
LEMMA Caps ==
  RingCap \in Nat \ {0} /\ CursorMod \in Nat \ {0} /\ RingCap < CursorMod
BY RingAssumption

\* The length of the buffer divides the range of a cursor.
LEMMA Divides ==
  CursorMod \div RingCap \in Int /\ CursorMod = RingCap * (CursorMod \div RingCap)
<1>1. CursorMod \in Int /\ RingCap \in Nat \ {0} /\ CursorMod % RingCap = 0
  BY RingAssumption
<1> DEFINE d == CursorMod \div RingCap
<1>2. d \in Int /\ CursorMod = RingCap * d + 0
  BY <1>1, DivMod
<1> HIDE DEF d
<1>3. CursorMod = RingCap * d
  BY <1>1, <1>2
<1> QED  BY <1>2, <1>3 DEF d

USE Caps

Cursor == 0 .. CursorMod - 1

\* Cursors that run freely and wrap: their difference follows.
LEMMA Moved ==
  ASSUME NEW h \in Cursor, NEW t \in Cursor, NEW a \in Nat, NEW b \in Nat,
         ((h - t) % CursorMod) + a - b \in Cursor
  PROVE  /\ (h + a) % CursorMod \in Cursor /\ (t + b) % CursorMod \in Cursor
         /\ (((h + a) % CursorMod) - ((t + b) % CursorMod)) % CursorMod = ((h - t) % CursorMod) + a - b
<1> DEFINE M == CursorMod
           u == (h - t) % M
           p == (h + a) \div M
           q == (t + b) \div M
           o == (h - t) \div M
           x == (h + a) % M
           y == (t + b) % M
<1>1. M \in Nat \ {0} /\ h \in Int /\ t \in Int
  BY DEF Cursor
<1>2. p \in Int /\ q \in Int /\ o \in Int /\ x \in 0 .. M - 1 /\ y \in 0 .. M - 1 /\ u \in 0 .. M - 1
      /\ h + a = M * p + x /\ t + b = M * q + y /\ h - t = M * o + u
  <2>1. h + a \in Int /\ t + b \in Int /\ h - t \in Int
    BY <1>1
  <2> QED  BY <1>1, <2>1, DivMod
<1>3. u + a - b \in 0 .. M - 1
  BY DEF Cursor
<1> HIDE DEF M, u, p, q, o, x, y
<1>4. M * (o - p + q) = M * o - M * p + M * q
  BY <1>1, <1>2
<1>5. x - y = M * (o - p + q) + (u + a - b)
  BY <1>1, <1>2, <1>4
<1>6. (x - y) % M = u + a - b
  <2>1. x - y \in Int /\ o - p + q \in Int
    BY <1>1, <1>2
  <2> QED  BY <1>1, <1>3, <1>5, <2>1, ModIs
<1>7. x \in Cursor /\ y \in Cursor
  BY <1>2 DEF Cursor, M
<1> QED  BY <1>6, <1>7 DEF M, u, x, y

\* The place of a byte does not change when the cursor it is counted from wraps.
LEMMA SlotMoved ==
  ASSUME NEW c \in Nat, NEW i \in Int
  PROVE  Slot((c % CursorMod) + i) = Slot(c + i)
<1> DEFINE q == c \div CursorMod
           d == CursorMod \div RingCap
           w == c % CursorMod
<1>1. /\ CursorMod \in Nat \ {0} /\ RingCap \in Nat \ {0}
      /\ q \in Int /\ w \in Int /\ c = CursorMod * q + w
      /\ d \in Int /\ CursorMod = RingCap * d
  BY DivMod, Divides
<1> HIDE DEF q, d, w
<1>2. CursorMod * q = RingCap * (d * q)
  BY <1>1
<1>3. c + i = (w + i) + RingCap * (d * q) /\ d * q \in Int
  BY <1>1, <1>2
<1>4. (c + i) % RingCap = (w + i) % RingCap
  <2> DEFINE k == d * q
             x == c + i
             y == w + i
  <2>1. x \in Int /\ y \in Int /\ k \in Int /\ x = y + RingCap * k
    BY <1>1, <1>3
  <2> HIDE DEF k, x, y
  <2>2. x % RingCap = y % RingCap
    BY <1>1, <2>1, ModPlusMultiple
  <2> QED  BY <2>2 DEF x, y
<1> QED  BY <1>4 DEF Slot, w

---------------------------------------------------------------------------
(* The ring: what it holds, and what ring_read and ring_write make of it. *)

IsRing(r) ==
  /\ r \in [buf : [Index -> Byte], head : Cursor, tail : Cursor]
  /\ Used(r) =< RingCap

LEMMA UsedType ==
  ASSUME NEW r, IsRing(r)
  PROVE  /\ Used(r) \in 0 .. RingCap /\ RingCap \in Nat \ {0} /\ RingCap \in Cursor
         /\ r.head \in Cursor /\ r.tail \in Cursor /\ r.buf \in [Index -> Byte]
         /\ Used(r) = (r.head - r.tail) % CursorMod
<1>1. r.head \in Cursor /\ r.tail \in Cursor /\ r.buf \in [Index -> Byte] /\ Used(r) =< RingCap
  BY DEF IsRing
<1>2. r.head - r.tail \in Int /\ CursorMod \in Nat \ {0} /\ RingCap \in Nat \ {0} /\ RingCap \in Cursor
  BY <1>1 DEF Cursor
<1>3. (r.head - r.tail) % CursorMod \in 0 .. CursorMod - 1
  BY <1>2, DivMod
<1> QED  BY <1>1, <1>2, <1>3 DEF Used, Cursor

LEMMA SlotType ==
  ASSUME NEW i \in Int
  PROVE  Slot(i) \in Index
BY DivMod DEF Slot, Index

LEMMA ContentsType ==
  ASSUME NEW r, IsRing(r)
  PROVE  /\ Contents(r) \in Seq(Byte) /\ Len(Contents(r)) = Used(r)
         /\ \A i \in 1 .. Used(r) : Contents(r)[i] = r.buf[Slot(r.tail + (i - 1))]
<1>1. /\ Used(r) \in Nat /\ r.tail \in Int /\ r.buf \in [Index -> Byte]
  BY UsedType DEF Cursor
<1>2. ASSUME NEW i \in 1 .. Used(r)
      PROVE  r.buf[Slot(r.tail + (i - 1))] \in Byte
  BY <1>1, SlotType
<1>3. Contents(r) \in [1 .. Used(r) -> Byte]
  BY <1>2 DEF Contents
<1>4. Contents(r) \in Seq(Byte)
  BY <1>1, <1>3, SeqDef
<1> QED  BY <1>1, <1>3, <1>4 DEF Contents

\* ring_read of n bytes.
LEMMA ReadTakes ==
  ASSUME NEW r, IsRing(r), NEW n \in Nat
  PROVE  /\ Taken(r, n) \in 0 .. Used(r) /\ IsRing(RingRead(r, n))
         /\ Bytes(r, n) = SubSeq(Contents(r), 1, Taken(r, n))
         /\ Contents(RingRead(r, n)) = SubSeq(Contents(r), Taken(r, n) + 1, Used(r))
         /\ Used(RingRead(r, n)) = Used(r) - Taken(r, n)
<1> DEFINE k == Taken(r, n)
           U == Used(r)
           z == RingRead(r, n)
           s == Contents(r)
<1>1. /\ U \in 0 .. RingCap /\ RingCap \in Cursor /\ r.head \in Cursor /\ r.tail \in Cursor
      /\ r.buf \in [Index -> Byte] /\ U = (r.head - r.tail) % CursorMod
      /\ r \in [buf : [Index -> Byte], head : Cursor, tail : Cursor]
  BY UsedType DEF IsRing
<1>2. k \in 0 .. U
  BY <1>1 DEF Taken, Cursor
<1>3. z = [r EXCEPT !.tail = (@ + k) % CursorMod]
  BY DEF RingRead
<1>4. /\ s \in Seq(Byte) /\ Len(s) = U
      /\ \A i \in 1 .. U : s[i] = r.buf[Slot(r.tail + (i - 1))]
  BY ContentsType
<1>b. Bytes(r, n) = [i \in 1 .. k |-> r.buf[Slot(r.tail + (i - 1))]]
  BY DEF Bytes
<1> HIDE DEF k, U, z, s
<1>5. (r.tail + k) % CursorMod \in Cursor /\ (r.head - ((r.tail + k) % CursorMod)) % CursorMod = U - k
  <2> DEFINE h == r.head
             t == r.tail
  <2>1. /\ h + 0 = h /\ h % CursorMod = h /\ k \in Nat /\ 0 \in Nat /\ h \in Cursor /\ t \in Cursor
        /\ ((h - t) % CursorMod) + 0 - k = U - k /\ U - k \in Cursor
    BY <1>1, <1>2 DEF Cursor
  <2> HIDE DEF h, t
  <2>2. /\ (t + k) % CursorMod \in Cursor
        /\ (((h + 0) % CursorMod) - ((t + k) % CursorMod)) % CursorMod = ((h - t) % CursorMod) + 0 - k
    BY <2>1, Moved
  <2>3. (t + k) % CursorMod \in Cursor /\ (h - ((t + k) % CursorMod)) % CursorMod = U - k
    BY <2>1, <2>2
  <2> QED  BY <2>3 DEF h, t
<1>6. /\ z.head = r.head /\ z.buf = r.buf /\ z.tail = (r.tail + k) % CursorMod
      /\ z \in [buf : [Index -> Byte], head : Cursor, tail : Cursor]
  BY <1>1, <1>3, <1>5
<1>7. Used(z) = U - k
  BY <1>5, <1>6 DEF Used
<1>8. IsRing(z)
  BY <1>1, <1>2, <1>6, <1>7 DEF IsRing, Cursor
<1>9. Bytes(r, n) = SubSeq(s, 1, k)
  BY <1>1, <1>2, <1>4, <1>b DEF Cursor
<1>10. Contents(z) = SubSeq(s, k + 1, U)
  <2>1. /\ Contents(z) \in Seq(Byte) /\ Len(Contents(z)) = U - k
        /\ \A i \in 1 .. U - k : Contents(z)[i] = z.buf[Slot(z.tail + (i - 1))]
    BY <1>7, <1>8, ContentsType
  <2>2. /\ SubSeq(s, k + 1, U) \in Seq(Byte) /\ Len(SubSeq(s, k + 1, U)) = U - k
        /\ \A i \in 1 .. U - k : SubSeq(s, k + 1, U)[i] = s[k + i]
    <3> DEFINE m == k + 1
               rest == SubSeq(s, m, U)
    <3>1. m \in Int /\ U \in Int /\ \A i \in m .. U : s[i] \in Byte
      BY <1>1, <1>2, <1>4
    <3> HIDE DEF m
    <3>2. /\ rest \in Seq(Byte) /\ Len(rest) = IF m <= U THEN U - m + 1 ELSE 0
          /\ \A i \in 1 .. U - m + 1 : rest[i] = s[m + i - 1]
      BY <3>1, SubSeqProperties
    <3> HIDE DEF rest
    <3>3. Len(rest) = U - k /\ \A i \in 1 .. U - k : i \in 1 .. U - m + 1 /\ m + i - 1 = k + i
      BY <1>1, <1>2, <3>2 DEF m
    <3> QED  BY <3>2, <3>3 DEF m, rest
  <2>3. ASSUME NEW i \in 1 .. U - k
        PROVE  Contents(z)[i] = s[k + i]
    <3>1. r.tail + k \in Nat /\ i - 1 \in Int /\ k + i \in 1 .. U /\ (r.tail + k) + (i - 1) = r.tail + ((k + i) - 1)
      BY <1>1, <1>2 DEF Cursor
    <3>2. Slot(z.tail + (i - 1)) = Slot((r.tail + k) + (i - 1))
      BY <1>6, <3>1, SlotMoved
    <3>3. Slot((r.tail + k) + (i - 1)) = Slot(r.tail + ((k + i) - 1))
      BY <3>1
    <3>4. s[k + i] = r.buf[Slot(r.tail + ((k + i) - 1))]
      BY <1>4, <3>1
    <3> QED  BY <1>6, <2>1, <3>2, <3>3, <3>4
  <2> QED  BY <2>1, <2>2, <2>3, SeqEqual
<1> QED  BY <1>2, <1>7, <1>8, <1>9, <1>10 DEF k, U, z, s

\* The place of a byte counted from the tail, seen from the head.
LEMMA HeadOffset ==
  ASSUME NEW r, IsRing(r), NEW k \in Int
  PROVE  (Slot(r.tail + k) - r.head) % RingCap = (k - Used(r)) % RingCap
<1> DEFINE h == r.head
           t == r.tail
           U == Used(r)
           o == (h - t) \div CursorMod
           c == CursorMod \div RingCap
           a == (t + k) \div RingCap
           j == Slot(t + k)
<1>1. h \in Int /\ t \in Int /\ U \in Int
  BY UsedType DEF Cursor
<1>2. h - t \in Int /\ t + k \in Int
  BY <1>1
<1>u. U = (h - t) % CursorMod
  BY UsedType
<1>3. /\ o \in Int /\ h - t = CursorMod * o + U
      /\ c \in Int /\ CursorMod = RingCap * c
      /\ a \in Int /\ j \in Int /\ t + k = RingCap * a + j
  <2>1. o \in Int /\ h - t = CursorMod * o + U
    BY <1>2, <1>u, DivMod
  <2> DEFINE x == t + k
  <2>x. x \in Int
    BY <1>2
  <2> HIDE DEF x
  <2>2. x \div RingCap \in Int /\ x % RingCap \in Int /\ x = RingCap * (x \div RingCap) + (x % RingCap)
    BY <2>x, DivMod
  <2>3. a \in Int /\ j \in Int /\ t + k = RingCap * a + j
    BY <2>2 DEF x, Slot
  <2> QED  BY <2>1, <2>3, Divides
<1> HIDE DEF h, t, U, o, c, a, j
<1>4. CursorMod * o = RingCap * (c * o)
  BY <1>1, <1>3
<1> DEFINE b == c * o
<1>5. b \in Int /\ RingCap * (0 - b - a) = 0 - RingCap * b - RingCap * a
  BY <1>1, <1>3
<1>6. CursorMod * o = RingCap * b
  BY <1>4
<1> HIDE DEF b
<1>7. j - h = (k - U) + RingCap * (0 - b - a)
  <2>1. RingCap * a \in Int /\ RingCap * b \in Int
    BY <1>3, <1>5
  <2>2. j = t + k - RingCap * a /\ h = RingCap * b + U + t
    BY <1>1, <1>3, <1>6, <2>1
  <2>3. j - h = (k - U) + (0 - RingCap * b - RingCap * a)
    BY <1>1, <2>1, <2>2
  <2> QED  BY <1>5, <2>3
<1>8. j - h \in Int /\ k - U \in Int /\ 0 - b - a \in Int
  BY <1>1, <1>3, <1>5
<1>9. (j - h) % RingCap = (k - U) % RingCap
  <2> DEFINE x == j - h
             y == k - U
             z == 0 - b - a
  <2>1. x \in Int /\ y \in Int /\ z \in Int /\ x = y + RingCap * z
    BY <1>7, <1>8
  <2> HIDE DEF x, y, z
  <2>2. x % RingCap = y % RingCap
    BY <2>1, ModPlusMultiple
  <2> QED  BY <2>2 DEF x, y
<1> QED  BY <1>9 DEF h, t, U, j

Fits(src) == IF Len(src) > RingCap THEN RingCap ELSE Len(src)

\* ring_write: what room had to be made for is gone, the source's end follows.
LEMMA WriteAppends ==
  ASSUME NEW r, IsRing(r), NEW src \in Seq(Byte)
  PROVE  LET n == Fits(src)
             d == Dropped(r, n)
             w == RingWrite(r, src)
         IN  /\ d \in 0 .. Used(r) /\ IsRing(w)
             /\ Used(w) = Used(r) + n - d /\ Used(w) >= Used(r)
             /\ d > 0 => Used(w) = RingCap
             /\ Contents(w) = SubSeq(Contents(r), d + 1, Used(r)) \o Newest(src, n)
<1> DEFINE n == Fits(src)
           d == Dropped(r, n)
           w == RingWrite(r, src)
           U == Used(r)
           h == r.head
           t == r.tail
           s == Contents(r)
           new == Newest(src, n)
<1>1. U \in 0 .. RingCap /\ h \in Cursor /\ t \in Cursor /\ r.buf \in [Index -> Byte]
  BY UsedType
<1>u. U = (h - t) % CursorMod
  BY UsedType
<1>2. Len(src) \in Nat /\ n \in 0 .. RingCap /\ n =< Len(src)
  BY <1>1 DEF Fits
<1>3. /\ d \in 0 .. U /\ n - (RingCap - U) =< d /\ d =< n
      /\ d > 0 => U + n - d = RingCap
      /\ U + n - d \in U .. RingCap
  BY <1>1, <1>2 DEF Dropped
<1>4. new \in Seq(Byte) /\ Len(new) = n
  BY <1>1, <1>2 DEF Newest
<1>5. w = [buf |-> Stored(r.buf, h, new), head |-> (h + n) % CursorMod, tail |-> (t + d) % CursorMod]
  BY DEF RingWrite, Fits
<1>6. /\ s \in Seq(Byte) /\ Len(s) = U
      /\ \A i \in 1 .. U : s[i] = r.buf[Slot(t + (i - 1))]
  BY ContentsType
<1>7. \A k \in Int : (Slot(t + k) - h) % RingCap = (k - U) % RingCap
  BY HeadOffset
<1> HIDE DEF n, d, w, U, s, new, h, t
<1>8. /\ (h + n) % CursorMod \in Cursor /\ (t + d) % CursorMod \in Cursor
      /\ (((h + n) % CursorMod) - ((t + d) % CursorMod)) % CursorMod = U + n - d
  <2>1. n \in Nat /\ d \in Nat /\ U + n - d \in Cursor
    BY <1>1, <1>2, <1>3 DEF Cursor
  <2>2. h \in Cursor /\ t \in Cursor /\ ((h - t) % CursorMod) + n - d = U + n - d
    BY <1>1, <1>u
  <2> QED  BY <2>1, <2>2, Moved
<1>9. ASSUME NEW j \in Index
      PROVE  /\ (j - h) % RingCap < n => w.buf[j] = new[((j - h) % RingCap) + 1]
             /\ (j - h) % RingCap >= n => w.buf[j] = r.buf[j]
             /\ w.buf[j] \in Byte
  <2> DEFINE i == (j - h) % RingCap
  <2>1. i \in Nat
    <3> DEFINE x == j - h
    <3>1. x \in Int
      BY <1>1 DEF Index, Cursor
    <3> HIDE DEF x
    <3>2. x % RingCap \in Nat
      BY <3>1, DivMod
    <3> QED  BY <3>2 DEF x
  <2>2. w.buf[j] = IF i < Len(new) THEN new[i + 1] ELSE r.buf[j]
    BY <1>5 DEF Stored
  <2> HIDE DEF i
  <2>3. i < n => new[i + 1] \in Byte
    BY <1>2, <1>4, <2>1
  <2>4. r.buf[j] \in Byte
    BY <1>1
  <2>5. /\ i < n => w.buf[j] = new[i + 1]
        /\ i >= n => w.buf[j] = r.buf[j]
        /\ w.buf[j] \in Byte
    BY <1>2, <1>4, <2>1, <2>2, <2>3, <2>4
  <2> QED  BY <2>5 DEF i
<1>10. IsRing(w) /\ Used(w) = U + n - d
  <2>1. w.buf \in [Index -> Byte]
    <3>1. w.buf = [j \in Index |-> w.buf[j]]
      BY <1>5 DEF Stored
    <3> QED  BY <1>9, <3>1
  <2>2. Used(w) = U + n - d
    BY <1>5, <1>8 DEF Used
  <2>3. w \in [buf : [Index -> Byte], head : Cursor, tail : Cursor]
    BY <1>5, <1>8, <2>1
  <2> QED  BY <1>1, <1>3, <2>2, <2>3 DEF IsRing
<1>11. Contents(w) = SubSeq(s, d + 1, U) \o new
  <2> DEFINE kept == SubSeq(s, d + 1, U)
  <2>1. /\ Contents(w) \in Seq(Byte) /\ Len(Contents(w)) = U + n - d
        /\ \A i \in 1 .. U + n - d : Contents(w)[i] = w.buf[Slot(w.tail + (i - 1))]
    BY <1>10, ContentsType
  <2>2. /\ kept \in Seq(Byte) /\ Len(kept) = U - d
        /\ \A i \in 1 .. U - d : kept[i] = s[d + i]
    BY <1>1, <1>3, <1>6
  <2> HIDE DEF kept
  <2>3. /\ kept \o new \in Seq(Byte) /\ Len(kept \o new) = U + n - d
        /\ \A i \in 1 .. U - d : (kept \o new)[i] = kept[i]
        /\ \A i \in (U - d) + 1 .. (U - d) + n : (kept \o new)[i] = new[i - (U - d)]
    <3> DEFINE both == kept \o new
    <3>1. /\ both \in Seq(Byte) /\ Len(both) = Len(kept) + Len(new)
          /\ \A i \in 1 .. Len(kept) + Len(new) :
               both[i] = IF i <= Len(kept) THEN kept[i] ELSE new[i - Len(kept)]
      BY <1>4, <2>2, ConcatProperties
    <3> HIDE DEF both
    <3>2. Len(kept) + Len(new) = U + n - d
      BY <1>1, <1>2, <1>3, <1>4, <2>2
    <3>3. ASSUME NEW i \in 1 .. U - d
          PROVE  both[i] = kept[i]
      <4>1. i \in 1 .. Len(kept) + Len(new) /\ i <= Len(kept)
        BY <1>1, <1>2, <1>3, <1>4, <2>2
      <4> QED  BY <3>1, <4>1
    <3>4. ASSUME NEW i \in (U - d) + 1 .. (U - d) + n
          PROVE  both[i] = new[i - (U - d)]
      <4>1. i \in 1 .. Len(kept) + Len(new) /\ ~(i <= Len(kept)) /\ Len(kept) = U - d
        BY <1>1, <1>2, <1>3, <1>4, <2>2
      <4> QED  BY <3>1, <4>1
    <3> QED  BY <3>1, <3>2, <3>3, <3>4 DEF both
  <2>4. ASSUME NEW i \in 1 .. U + n - d
        PROVE  Contents(w)[i] = (kept \o new)[i]
    <3> DEFINE k == d + i - 1
               j == Slot(t + k)
    <3>1. k \in Int /\ t + d \in Nat /\ i - 1 \in Int /\ (t + d) + (i - 1) = t + k /\ t + k \in Int
      BY <1>1, <1>3 DEF Cursor
    <3>2. Slot(w.tail + (i - 1)) = j
      <4>1. Slot(w.tail + (i - 1)) = Slot((t + d) + (i - 1))
        BY <1>5, <3>1, SlotMoved
      <4> QED  BY <3>1, <4>1
    <3>3. j \in Index /\ (j - h) % RingCap = (k - U) % RingCap /\ Contents(w)[i] = w.buf[j]
      BY <1>7, <2>1, <3>1, <3>2, SlotType
    <3>k. k = d + i - 1
      OBVIOUS
    <3> HIDE DEF k, j
    <3>4. CASE i \in 1 .. U - d
      <4> DEFINE x == k - U
                 y == k - U + RingCap
      <4>1. x \in Int /\ y \in 0 .. RingCap - 1 /\ y >= n /\ x = y - RingCap
        BY <1>1, <1>2, <1>3, <3>1, <3>4, <3>k
      <4> HIDE DEF x, y
      <4>m. x = RingCap * (0 - 1) + y
        BY <4>1
      <4>2. x % RingCap = y
        BY <4>1, <4>m, ModIs
      <4>3. Contents(w)[i] = r.buf[j]
        BY <1>9, <3>3, <4>1, <4>2 DEF x
      <4>4. d + i \in 1 .. U /\ (d + i) - 1 = k
        BY <1>1, <1>3, <3>4, <3>k
      <4>5. s[d + i] = r.buf[j]
        BY <1>6, <4>4 DEF j
      <4> QED  BY <2>2, <2>3, <3>4, <4>3, <4>5
    <3>5. CASE i \in (U - d) + 1 .. (U - d) + n
      <4> DEFINE x == k - U
      <4>1. x \in 0 .. RingCap - 1 /\ x < n /\ x + 1 = i - (U - d)
        BY <1>1, <1>2, <1>3, <3>1, <3>5, <3>k
      <4> HIDE DEF x
      <4>2. x % RingCap = x
        BY <4>1
      <4>3. Contents(w)[i] = new[x + 1]
        BY <1>9, <3>3, <4>1, <4>2 DEF x
      <4> QED  BY <2>3, <3>5, <4>1, <4>3
    <3>6. i \in 1 .. U - d \/ i \in (U - d) + 1 .. (U - d) + n
      BY <1>1, <1>2, <1>3
    <3> QED  BY <3>4, <3>5, <3>6
  <2>5. Contents(w) = kept \o new
    BY <2>1, <2>3, <2>4, SeqEqual
  <2> QED  BY <2>5 DEF kept
<1>12. /\ d \in 0 .. U /\ IsRing(w)
       /\ Used(w) = U + n - d /\ Used(w) >= U
       /\ d > 0 => Used(w) = RingCap
       /\ Contents(w) = SubSeq(s, d + 1, U) \o new
  BY <1>1, <1>2, <1>3, <1>10, <1>11
<1> QED  BY <1>12 DEF n, d, w, U, s, new

---------------------------------------------------------------------------
(* The invariant. *)

LEMMA Sizes ==
  /\ Packet \in Nat \ {0} /\ Prime \in Nat /\ MaxRequest \in Nat /\ PktsPerXfer \in Nat \ {0}
  /\ NOut \in Nat \ {0} /\ NIn \in Nat \ {0} /\ MaxErrors \in Nat /\ MaxFails \in Nat
  /\ Packet =< Prime /\ Prime =< RingCap /\ Buffers \subseteq Seq(Byte)
  /\ ~(CancelTime >= Limit) /\ ~(EventTime >= Limit) /\ ~(SyncTime >= Limit)
BY PyAudioAssumption, TimeAssumption

USE Sizes
USE DEF Main, Event

Idle == cb = [t \in {Main, Event} |-> NoCallback]

RingInv == pw => IsRing(ring)

\* Who may run when.
ModeInv ==
  /\ main = "bridge" => ~pw
  /\ main \in {"bridge", "iso"} => event = "none" /\ out = "none" /\ inp = "none"
  /\ event # "none" => (running <=> main = "run")
  /\ event = "none" => main \notin {"cancel", "drain", "join_event", "clear"}
  /\ out # "none" => event = "none"
  /\ event # "handle" => cb[Event] = NoCallback
  /\ cb[Main] = NoCallback
  /\ cb[Event].pc = "none" => cb[Event] = NoCallback
  /\ cb[Event] # NoCallback => cb[Event].x \in Xfer
  /\ main = "clear" => event = "exited"
  /\ main \in {"join", "wpw_stop", "done"} => event \in {"none", "exited"}
  /\ main \in {"wpw_stop", "done"} => out \in {"none", "exited"} /\ inp \in {"none", "exited"}
  /\ out = "none" => errors = 0
  /\ out \notin {"none", "exited"} => errors =< MaxErrors

\* As long as no call fails and the device is there.
DrainInv ==
  fails = 0 /\ ~gone =>
    /\ main = "run" =>
         \A x \in Xfer : xfer[x] \notin {"cancelling", "cancelled", "no_device"}
    /\ main = "run" /\ event # "none" => \A x \in Xfer : x \in Submitted \/ x = cb[Event].x
    /\ main \in {"cancel", "drain"} /\ cb[Event] # NoCallback =>
         \A x \in Xfer : x \in Submitted \/ x = cb[Event].x

\* From the end of the drain on.
FreeInv ==
  main \in {"join_event", "clear", "join", "wpw_stop", "done"} /\ fails = 0 /\ event # "none" =>
    Submitted = {} /\ (cb[Event] # NoCallback => gone)

\* What stream_audio_out knows of the ring it is about to read.
PacketInv ==
  /\ full
  /\ out = "read" /\ side = "play" => pw /\ Used(ring) >= Packet

IInv == TypeOK /\ RingInv /\ ModeInv /\ DrainInv /\ FreeInv /\ PacketInv

USE DEF ringVars, engineVars, syncVars

---------------------------------------------------------------------------
(* The ring and the queue it implements. *)

Kept == UNCHANGED <<ring, delivered>>
Written == pw /\ UNCHANGED delivered /\ \E src \in Buffers : ring' = RingWrite(ring, src)
Read(n) == pw /\ delivered' = Bytes(ring, n) /\ ring' = RingRead(ring, n)

\* What a step may do to the ring.
LEMMA RingSteps ==
  ASSUME [Next]_vars
  PROVE  \/ UNCHANGED <<side, pw>> /\ (Kept \/ Written \/ \E n \in Nat : Read(n))
         \/ StartBridge \/ StopBridge
<1> USE DEF Kept, Written
<1>1. CASE ProcessPlayback
  BY <1>1 DEF ProcessPlayback
<1>2. CASE ProcessCapture
  BY <1>2 DEF ProcessCapture, Read
<1>3. ASSUME NEW n, ReadPlayback(n)
      PROVE  Kept \/ Read(Packet)
  BY <1>3 DEF ReadPlayback, Read
<1>4. WriteCapture => Kept \/ Written
  BY DEF WriteCapture
<1>5. CASE \E t \in {Main, Event} : Callback(t)
  <2>1. ASSUME NEW t \in {Main, Event}, CallbackFills(t)
        PROVE  UNCHANGED <<side, pw>> /\ (Kept \/ Read(Packet))
    BY <1>3, <2>1 DEF CallbackFills
  <2>2. ASSUME NEW t \in {Main, Event}, CallbackWrites(t)
        PROVE  UNCHANGED <<side, pw>> /\ (Kept \/ Written)
    BY <1>4, <2>2 DEF CallbackWrites
  <2>3. ASSUME NEW t \in {Main, Event}, CallbackPrimes(t) \/ CallbackSubmits(t)
        PROVE  UNCHANGED <<side, pw>> /\ Kept
    BY <2>3 DEF CallbackPrimes, CallbackSubmits
  <2> QED  BY <1>5, <2>1, <2>2, <2>3 DEF Callback
<1>6. CASE OutReads
  <2>1. UNCHANGED <<side, pw>> /\ \E n \in 0 .. Packet : ReadPlayback(n)
    BY <1>6 DEF OutReads
  <2> QED  BY <1>3, <2>1
<1>7. CASE InReads
  BY <1>4, <1>7 DEF InReads
<1>8. CASE \/ StartIso \/ StartSync \/ EventCheck \/ EventReaps \/ EventReturns
           \/ OutTop \/ OutWrites \/ InTop
           \/ StopSignal \/ StopCancels \/ StopReaps \/ StopDrained \/ StopBreaks
           \/ StopJoins \/ StopClears \/ JoinSync
  BY <1>8 DEF StartIso, StartSync, EventCheck, EventReaps, EventReturns, Reap, OutTop, OutWrites,
     InTop, StopSignal, StopCancels, StopReaps, StopDrained, StopBreaks, StopJoins, StopClears, JoinSync
<1>9. CASE \E x \in Xfer : Completes(x) \/ GivesBack(x)
  BY <1>9 DEF Completes, GivesBack
<1>10. CASE Unplug \/ UNCHANGED vars
  BY <1>10 DEF Unplug, vars
<1> QED
  BY <1>1, <1>2, <1>5, <1>6, <1>7, <1>8, <1>9, <1>10 DEF Next

LEMMA Fresh ==
  ASSUME NEW buf \in [Index -> Byte], NEW r, r = [buf |-> buf, head |-> 0, tail |-> 0]
  PROVE  IsRing(r) /\ Used(r) = 0 /\ Contents(r) = <<>>
<1>1. r.head = 0 /\ r.tail = 0 /\ r \in [buf : [Index -> Byte], head : Cursor, tail : Cursor]
  BY DEF Cursor
<1>2. Used(r) = 0
  BY <1>1 DEF Used
<1>3. IsRing(r)
  BY <1>1, <1>2 DEF IsRing
<1>4. Len(Contents(r)) = 0 /\ Contents(r) \in Seq(Byte)
  BY <1>2, <1>3, ContentsType
<1> QED  BY <1>2, <1>3, <1>4

\* The queue's type, and that a ring being read or written is one.
LEMMA RingStep ==
  ASSUME IInv, [Next]_vars
  PROVE  RingInv' /\ delivered' \in Seq(Byte) /\ (~pw => ring = Freed) /\ (~pw' => ring' = Freed)
<1>1. delivered \in Seq(Byte) /\ (~pw => ring = Freed) /\ (pw => IsRing(ring)) /\ pw \in BOOLEAN
  BY DEF IInv, TypeOK, RingInv
<1>2. CASE UNCHANGED <<side, pw>> /\ (Kept \/ Written \/ \E n \in Nat : Read(n))
  <2>1. CASE Kept
    BY <1>1, <1>2, <2>1 DEF Kept, RingInv
  <2>2. CASE Written
    <3>1. PICK src \in Buffers : ring' = RingWrite(ring, src)
      BY <2>2 DEF Written
    <3>2. src \in Seq(Byte) /\ IsRing(ring)
      BY <1>1, <2>2 DEF Written
    <3>3. IsRing(ring')
      BY <3>1, <3>2, WriteAppends
    <3> QED  BY <1>1, <1>2, <2>2, <3>3 DEF Written, RingInv
  <2>3. ASSUME NEW n \in Nat, Read(n)
        PROVE  IsRing(ring') /\ delivered' \in Seq(Byte) /\ pw
    <3>1. IsRing(ring) /\ ring' = RingRead(ring, n) /\ delivered' = Bytes(ring, n) /\ pw
      BY <1>1, <2>3 DEF Read
    <3>2. IsRing(ring') /\ Bytes(ring, n) = SubSeq(Contents(ring), 1, Taken(ring, n))
          /\ Taken(ring, n) \in 0 .. Used(ring)
      BY <3>1, ReadTakes
    <3>3. Contents(ring) \in Seq(Byte) /\ Len(Contents(ring)) = Used(ring) /\ Used(ring) \in Nat
      BY <3>1, ContentsType, UsedType
    <3> QED  BY <3>1, <3>2, <3>3
  <2> QED  BY <1>1, <1>2, <2>1, <2>2, <2>3 DEF RingInv
<1>3. CASE StartBridge
  <2>1. CASE pw' /\ \E buf \in [Index -> Byte] : ring' = [buf |-> buf, head |-> 0, tail |-> 0]
    BY <1>1, <1>3, <2>1, Fresh DEF StartBridge, RingInv
  <2>2. CASE UNCHANGED <<pw, ring>>
    BY <1>1, <1>3, <2>2 DEF StartBridge, RingInv
  <2> QED  BY <1>3, <2>1, <2>2 DEF StartBridge
<1>4. CASE StopBridge
  BY <1>1, <1>4 DEF StopBridge, RingInv
<1> QED  BY <1>2, <1>3, <1>4, RingSteps

\* A step of the queue.
LEMMA QueueStep ==
  ASSUME IInv, [Next]_vars
  PROVE  Queue!Next \/ UNCHANGED <<IF pw THEN Contents(ring) ELSE <<>>, delivered>>
<1> DEFINE c == IF pw THEN Contents(ring) ELSE <<>>
<1>1. pw => IsRing(ring)
  BY DEF IInv, RingInv
<1>2. CASE UNCHANGED <<side, pw>> /\ (Kept \/ Written \/ \E n \in Nat : Read(n))
  <2>1. CASE Kept
    BY <1>2, <2>1 DEF Kept, Contents, Used
  <2>2. CASE Written
    <3>1. PICK src \in Buffers : ring' = RingWrite(ring, src)
      BY <2>2 DEF Written
    <3> DEFINE n == Fits(src)
               d == Dropped(ring, n)
               U == Used(ring)
               kept == SubSeq(Contents(ring), d + 1, U)
               new == Newest(src, n)
    <3>2. src \in Seq(Byte) /\ IsRing(ring) /\ pw /\ pw' /\ delivered' = delivered
      BY <1>1, <1>2, <2>2 DEF Written
    <3>3. /\ d \in 0 .. U /\ IsRing(ring')
          /\ Used(ring') = U + n - d
          /\ d > 0 => Used(ring') = RingCap
          /\ Contents(ring') = kept \o new
      BY <3>1, <3>2, WriteAppends
    <3>4. /\ Contents(ring) \in Seq(Byte) /\ Len(Contents(ring)) = U /\ U \in Nat
          /\ Len(Contents(ring')) = Used(ring') /\ Used(ring') =< RingCap
      <4>1. Contents(ring) \in Seq(Byte) /\ Len(Contents(ring)) = U
        BY <3>2, ContentsType
      <4>2. U \in 0 .. RingCap /\ Used(ring') \in 0 .. RingCap
        BY <3>2, <3>3, UsedType
      <4>3. Len(Contents(ring')) = Used(ring')
        BY <3>3, ContentsType
      <4> QED  BY <4>1, <4>2, <4>3
    <3>5. n \in Nat /\ n =< Len(src) /\ Len(src) \in Nat
      BY <3>2 DEF Fits
    <3>6. new \in Seq(Byte)
      BY <3>2, <3>5 DEF Newest
    <3>7. kept \in Seq(Byte)
      BY <3>3, <3>4
    <3>8. Queue!After(d) = kept
      BY <3>2, <3>4 DEF Queue!After
    <3>9. c = Contents(ring) /\ c' = Contents(ring')
      BY <3>2 DEF Contents, Used
    <3> HIDE DEF n, d, U, kept, new, c
    <3>10. Len(kept) =< Len(kept \o new) /\ SubSeq(kept \o new, 1, Len(kept)) = kept
      BY <3>6, <3>7, SubSeqOfConcat1, ConcatProperties, SubSeqFull
    <3>11. Queue!Put
      BY <3>2, <3>3, <3>4, <3>8, <3>9, <3>10 DEF Queue!Put, c
    <3> QED  BY <3>11 DEF Queue!Next
  <2>3. ASSUME NEW n \in Nat, Read(n)
        PROVE  Queue!Take
    <3>1. IsRing(ring) /\ ring' = RingRead(ring, n) /\ delivered' = Bytes(ring, n) /\ pw /\ pw'
      BY <1>1, <1>2, <2>3 DEF Read
    <3>2. /\ Taken(ring, n) \in 0 .. Used(ring)
          /\ delivered' = SubSeq(Contents(ring), 1, Taken(ring, n))
          /\ Contents(ring') = SubSeq(Contents(ring), Taken(ring, n) + 1, Used(ring))
          /\ Len(Contents(ring)) = Used(ring)
      BY <3>1, ReadTakes, ContentsType
    <3> QED  BY <3>1, <3>2 DEF Queue!Take, Queue!After
  <2> QED  BY <1>2, <2>1, <2>2, <2>3 DEF Queue!Next
<1>3. CASE StartBridge
  <2>1. c = <<>> /\ delivered' = delivered
    BY <1>3 DEF StartBridge, IInv, ModeInv
  <2>2. c' = <<>>
    <3>1. CASE \E buf \in [Index -> Byte] : ring' = [buf |-> buf, head |-> 0, tail |-> 0]
      BY <3>1, Fresh
    <3>2. CASE pw' = pw
      BY <1>3, <3>2 DEF StartBridge, IInv, ModeInv
    <3> QED  BY <1>3, <3>1, <3>2 DEF StartBridge
  <2> QED  BY <2>1, <2>2
<1>4. CASE StopBridge
  BY <1>4 DEF StopBridge, Queue!Next, Queue!Close
<1> QED  BY <1>2, <1>3, <1>4, RingSteps

---------------------------------------------------------------------------
(* The steps preserve IInv. *)

States == {"none", "idle", "flight", "cancelling", "completed", "cancelled", "no_device"}

Callbacks == [pc : {"none", "prime", "fill", "write", "submit"}, x : Xfer \cup {0}, i : 0 .. PktsPerXfer]

FlagType ==
  /\ pw \in BOOLEAN /\ running \in BOOLEAN /\ primed \in BOOLEAN /\ stop \in BOOLEAN
  /\ full \in BOOLEAN /\ gone \in BOOLEAN /\ broke \in BOOLEAN
  /\ fails \in 0 .. MaxFails
PlaceType ==
  /\ main \in {"bridge", "iso", "run", "cancel", "drain", "join_event", "clear", "join", "wpw_stop",
               "done"}
  /\ event \in {"none", "check", "handle", "exited"}
  /\ out \in {"none", "top", "read", "write", "exited"}
  /\ errors \in 0 .. MaxErrors + 1
  /\ inp \in {"none", "top", "read", "exited"}
EngineType ==
  /\ cb \in [{Main, Event} -> Callbacks]
  /\ xfer \in [Xfer -> States]

\* Steps of main, of the threads, of the callbacks and of the host controller.
MainStep ==
  \/ StartBridge \/ StartIso \/ StartSync
  \/ StopSignal \/ StopCancels \/ StopDrained \/ StopBreaks \/ StopJoins \/ StopClears \/ JoinSync
  \/ StopBridge
ThreadStep ==
  \/ ProcessPlayback \/ ProcessCapture
  \/ EventCheck \/ EventReturns
  \/ OutTop \/ OutReads \/ OutWrites \/ InTop \/ InReads
HostStep == Unplug \/ \E x \in Xfer : Completes(x) \/ GivesBack(x)

Reaps(t) ==
  /\ Reap(t)
  /\ \/ t = Event /\ event = "handle"
     \/ t = Main /\ main = "drain"

LEMMA StepIs ==
  ASSUME [Next]_vars
  PROVE  \/ MainStep \/ ThreadStep \/ HostStep \/ UNCHANGED vars
         \/ \E t \in {Main, Event} : Reaps(t) \/ Callback(t)
<1>1. (StopReaps => Reaps(Main)) /\ (EventReaps => Reaps(Event))
  BY Zenon DEF EventReaps, StopReaps, Reaps
<1> QED  BY <1>1 DEF Next, MainStep, ThreadStep, HostStep

LEMMA FlagStep ==
  ASSUME FlagType, pw' \in BOOLEAN, [Next]_vars
  PROVE  FlagType'
<1> USE DEF FlagType
<1>1. CASE MainStep
  <2>1. CASE StopBreaks
    BY <2>1 DEF StopBreaks
  <2>2. CASE StartBridge \/ StartIso
    BY <2>2 DEF StartBridge, StartIso
  <2>4. CASE StartSync
    <3>1. UNCHANGED <<pw, primed, stop, full, gone, broke, fails>>
          /\ \E n \in 0 .. NOut + NIn : running' \in {TRUE, n > 0}
      BY <2>4 DEF StartSync
    <3>2. \A n \in 0 .. NOut + NIn : (n > 0) \in BOOLEAN
      OBVIOUS
    <3>3. running' \in BOOLEAN
      BY <3>1, <3>2
    <3> QED  BY <3>1, <3>3
  <2>5. CASE StopSignal
    <3>1. UNCHANGED <<pw, primed, full, gone, broke, fails>> /\ stop' = TRUE
          /\ running' = (running /\ event = "none")
      BY <2>5 DEF StopSignal
    <3>2. running' \in BOOLEAN
      BY <3>1, Zenon
    <3> QED  BY <3>1, <3>2
  <2>3. CASE StopCancels \/ StopDrained \/ StopJoins \/ StopClears \/ JoinSync \/ StopBridge
    BY <2>3 DEF StopCancels, StopDrained, StopJoins, StopClears, JoinSync, StopBridge
  <2> QED  BY <1>1, <2>1, <2>2, <2>3, <2>4, <2>5 DEF MainStep
<1>2. CASE ThreadStep
  <2>1. CASE OutTop
    BY <2>1 DEF OutTop
  <2>2. CASE OutReads
    BY <2>2 DEF OutReads
  <2>3. CASE ProcessPlayback \/ ProcessCapture \/ EventCheck \/ EventReturns \/ OutWrites \/ InTop \/ InReads
    BY <2>3 DEF ProcessPlayback, ProcessCapture, EventCheck, EventReturns, OutWrites, InTop, InReads
  <2> QED  BY <1>2, <2>1, <2>2, <2>3 DEF ThreadStep
<1>3. CASE HostStep
  BY <1>3 DEF HostStep, Unplug, Completes, GivesBack
<1>4. ASSUME NEW t \in {Main, Event}, Reaps(t)
      PROVE  FlagType'
  BY <1>4 DEF Reaps, Reap
<1>5. ASSUME NEW t \in {Main, Event}, Callback(t)
      PROVE  FlagType'
  BY <1>5 DEF Callback, CallbackPrimes, CallbackFills, CallbackWrites, CallbackSubmits
<1>6. CASE UNCHANGED vars
  BY <1>6 DEF vars
<1> QED  BY <1>1, <1>2, <1>3, <1>4, <1>5, <1>6, StepIs

LEMMA PlaceStep ==
  ASSUME PlaceType, ModeInv, [Next]_vars
  PROVE  PlaceType'
<1> USE DEF PlaceType
<1>1. CASE MainStep
  BY <1>1 DEF MainStep, StartBridge, StartIso, StartSync, StopSignal, StopCancels, StopDrained,
     StopBreaks, StopJoins, StopClears, JoinSync, StopBridge
<1>2. CASE ThreadStep
  <2>1. CASE OutTop \/ OutReads
    BY <2>1 DEF OutTop, OutReads
  <2>2. CASE OutWrites
    BY <2>2 DEF OutWrites, ModeInv
  <2>3. CASE ProcessPlayback \/ ProcessCapture \/ EventCheck \/ EventReturns \/ InTop \/ InReads
    BY <2>3 DEF ProcessPlayback, ProcessCapture, EventCheck, EventReturns, InTop, InReads
  <2> QED  BY <1>2, <2>1, <2>2, <2>3 DEF ThreadStep
<1>3. CASE HostStep
  BY <1>3 DEF HostStep, Unplug, Completes, GivesBack
<1>4. ASSUME NEW t \in {Main, Event}, Reaps(t) \/ Callback(t)
      PROVE  PlaceType'
  BY <1>4 DEF Reaps, Reap, Callback, CallbackPrimes, CallbackFills, CallbackWrites, CallbackSubmits
<1>5. CASE UNCHANGED vars
  BY <1>5 DEF vars
<1> QED  BY <1>1, <1>2, <1>3, <1>4, <1>5, StepIs

LEMMA CallbackType ==
  ASSUME EngineType, NEW t \in {Main, Event}, NEW c \in Callbacks, cb' = [cb EXCEPT ![t] = c]
  PROVE  cb' \in [{Main, Event} -> Callbacks]
BY DEF EngineType

LEMMA EngineStep ==
  ASSUME EngineType, ModeInv, [Next]_vars
  PROVE  EngineType'
<1> USE DEF EngineType
<1>1. CASE MainStep
  <2>1. CASE StartIso
    BY <2>1 DEF StartIso, States
  <2>2. CASE StopCancels
    BY <2>2 DEF StopCancels, States
  <2>3. CASE StopClears
    BY <2>3 DEF StopClears, States
  <2>4. CASE UNCHANGED <<cb, xfer>>
    BY <2>4
  <2>5. CASE StartSync
    <3>1. PICK n \in 0 .. NOut + NIn :
            xfer' = [x \in Xfer |-> IF x =< n THEN "flight" ELSE "none"]
      BY <2>5 DEF StartSync
    <3>2. cb' = cb
      BY <2>5 DEF StartSync
    <3> QED  BY <3>1, <3>2 DEF States
  <2> QED
    BY <1>1, <2>1, <2>2, <2>3, <2>4, <2>5 DEF MainStep, StartBridge, StopSignal, StopDrained,
       StopBreaks, StopJoins, JoinSync, StopBridge
<1>2. CASE ThreadStep
  BY <1>2 DEF ThreadStep, ProcessPlayback, ProcessCapture, EventCheck, EventReturns, OutTop, OutReads,
     OutWrites, InTop, InReads
<1>3. CASE HostStep
  <2>1. ASSUME NEW x \in Xfer, Completes(x)
        PROVE  EngineType'
    BY <2>1 DEF Completes, States
  <2>2. ASSUME NEW x \in Xfer, GivesBack(x)
        PROVE  EngineType'
    BY <2>2 DEF GivesBack, States
  <2>3. CASE Unplug
    BY <2>3 DEF Unplug, States
  <2> QED  BY <1>3, <2>1, <2>2, <2>3 DEF HostStep
<1>4. ASSUME NEW t \in {Main, Event}, Reaps(t)
      PROVE  EngineType'
  <2>1. PICK x \in Xfer :
          /\ xfer' = [xfer EXCEPT ![x] = "idle"]
          /\ cb' = [cb EXCEPT ![t] = IF running /\ xfer[x] = "completed"
                                     THEN [pc |-> IF IsOut(x) THEN "prime" ELSE "write", x |-> x, i |-> 1]
                                     ELSE NoCallback]
    BY <1>4 DEF Reaps, Reap, Returned
  <2>2. NoCallback \in Callbacks
    BY DEF NoCallback, Callbacks
  <2>3. [pc |-> IF IsOut(x) THEN "prime" ELSE "write", x |-> x, i |-> 1] \in Callbacks
    BY DEF Callbacks
  <2>4. xfer' \in [Xfer -> States]
    BY <2>1 DEF States
  <2> QED  BY <2>1, <2>2, <2>3, <2>4, CallbackType
<1>5. ASSUME NEW t \in {Main, Event}, Callback(t)
      PROVE  EngineType'
  <2>0. cb[t] \in Callbacks
    BY <1>5
  <2>1. CASE CallbackPrimes(t)
    <3>1. [cb[t] EXCEPT !.pc = "fill"] \in Callbacks /\ cb' = [cb EXCEPT ![t] = [cb[t] EXCEPT !.pc = "fill"]]
      BY <2>0, <2>1 DEF CallbackPrimes, Callbacks
    <3> QED  BY <2>1, <3>1, CallbackType DEF CallbackPrimes
  <2>2. CASE NextPacket(t) /\ UNCHANGED xfer
    <3>1. CASE cb[t].i = PktsPerXfer
      <4>1. [cb[t] EXCEPT !.pc = "submit"] \in Callbacks
        BY <2>0 DEF Callbacks
      <4>2. cb' = [cb EXCEPT ![t] = [cb[t] EXCEPT !.pc = "submit"]]
        BY <2>2, <3>1 DEF NextPacket
      <4> QED  BY <2>2, <4>1, <4>2, CallbackType
    <3>2. CASE cb[t].i # PktsPerXfer
      <4> DEFINE n == cb[t].i + 1
      <4>n. n \in 0 .. PktsPerXfer
        BY <2>0, <3>2 DEF Callbacks
      <4> HIDE DEF n
      <4>r. [cb[t] EXCEPT !.i = n] \in Callbacks
        BY <2>0, <4>n DEF Callbacks
      <4>1. [cb[t] EXCEPT !.i = cb[t].i + 1] \in Callbacks
        BY <4>r DEF n
      <4>2. cb' = [cb EXCEPT ![t] = [cb[t] EXCEPT !.i = cb[t].i + 1]]
        BY <2>2, <3>2 DEF NextPacket
      <4> QED  BY <2>2, <4>1, <4>2, CallbackType
    <3> QED  BY <3>1, <3>2
  <2>3. CASE CallbackSubmits(t)
    <3>1. NoCallback \in Callbacks
      BY DEF NoCallback, Callbacks
    <3>2. xfer' \in [Xfer -> States]
      BY <2>3 DEF CallbackSubmits, States
    <3> QED  BY <2>3, <3>1, <3>2, CallbackType DEF CallbackSubmits
  <2> QED  BY <1>5, <2>1, <2>2, <2>3 DEF Callback, CallbackFills, CallbackWrites
<1>6. CASE UNCHANGED vars
  BY <1>6 DEF vars
<1> QED  BY <1>1, <1>2, <1>3, <1>4, <1>5, <1>6, StepIs

LEMMA TypeStep ==
  ASSUME IInv, [Next]_vars
  PROVE  TypeOK'
<1>1. TypeOK /\ ModeInv
  BY DEF IInv
<1>2. pw' \in BOOLEAN /\ side' = side
  BY <1>1, RingSteps DEF TypeOK, StartBridge, StopBridge
<1>3. /\ IF pw' THEN ring' \in [buf : [Index -> Byte], head : 0 .. CursorMod - 1, tail : 0 .. CursorMod - 1]
         ELSE ring' = Freed
      /\ delivered' \in Seq(Byte)
  BY <1>2, RingStep DEF RingInv, IsRing, Cursor
<1>4. FlagType /\ PlaceType /\ EngineType
  BY <1>1 DEF TypeOK, FlagType, PlaceType, EngineType, Callbacks, States
<1>5. FlagType' /\ PlaceType' /\ EngineType'
  BY <1>1, <1>2, <1>4, FlagStep, PlaceStep, EngineStep
<1>6. side' \in {"play", "capture"}
  BY <1>1, <1>2 DEF TypeOK
<1> QED  BY <1>3, <1>5, <1>6 DEF TypeOK, FlagType, PlaceType, EngineType, Callbacks, States

\* What a callback is, and who is in one.
LEMMA CallbackOfEvent ==
  ASSUME TypeOK, ModeInv, NEW t \in {Main, Event}, Callback(t)
  PROVE  /\ t = Event /\ event = "handle" /\ cb[Event] # NoCallback /\ cb[Event].x \in Xfer
         /\ cb'[Main] = cb[Main] /\ (cb'[Event] # NoCallback => cb'[Event].x = cb[Event].x)
         /\ cb'[Event].pc = "none" => cb'[Event] = NoCallback
<1>1. cb[t].pc # "none" /\ NoCallback.pc = "none" /\ NoCallback \in Callbacks
  BY DEF Callback, CallbackPrimes, CallbackFills, CallbackWrites, CallbackSubmits, NoCallback, Callbacks
<1>2. t = Event /\ event = "handle" /\ cb[Event] # NoCallback /\ cb[Event].x \in Xfer
  BY <1>1 DEF ModeInv
<1>3. cb \in [{Main, Event} -> Callbacks] /\ Main # Event
  BY DEF TypeOK, Callbacks
<1>4. cb[Event] \in Callbacks
  BY <1>3
<1> DEFINE c == cb'[Event]
<1>5. CASE CallbackPrimes(t)
  <2>1. cb' = [cb EXCEPT ![Event] = [cb[Event] EXCEPT !.pc = "fill"]]
    BY <1>2, <1>5 DEF CallbackPrimes
  <2>2. c = [cb[Event] EXCEPT !.pc = "fill"] /\ cb'[Main] = cb[Main]
    BY <1>3, <2>1
  <2> QED  BY <1>2, <1>4, <2>2 DEF Callbacks
<1>6. CASE NextPacket(t)
  <2>1. /\ c = IF cb[Event].i = PktsPerXfer THEN [cb[Event] EXCEPT !.pc = "submit"]
               ELSE [cb[Event] EXCEPT !.i = cb[Event].i + 1]
        /\ cb'[Main] = cb[Main]
    BY <1>2, <1>3, <1>6 DEF NextPacket
  <2>2. c.x = cb[Event].x /\ c.pc \in {cb[Event].pc, "submit"}
    BY <1>4, <2>1 DEF Callbacks
  <2> QED  BY <1>1, <1>2, <2>1, <2>2
<1>7. CASE CallbackSubmits(t)
  <2>1. c = NoCallback /\ cb'[Main] = cb[Main]
    BY <1>2, <1>3, <1>7 DEF CallbackSubmits
  <2> QED  BY <1>2, <2>1
<1> QED  BY <1>5, <1>6, <1>7 DEF Callback, CallbackFills, CallbackWrites

\* A transfer is reaped.
LEMMA Reaped ==
  ASSUME TypeOK, ModeInv, NEW t \in {Main, Event}, Reaps(t)
  PROVE  \E x \in Returned :
           /\ cb[Event] = NoCallback
           /\ xfer' = [xfer EXCEPT ![x] = "idle"]
           /\ cb'[Main] = NoCallback
           /\ cb'[Event] = NoCallback \/ (t = Event /\ running /\ xfer[x] = "completed"
                                          /\ cb'[Event].x = x /\ cb'[Event].pc # "none")
           /\ running /\ xfer[x] = "completed" /\ t = Event => cb'[Event].x = x
<1> DEFINE c(x) == [pc |-> IF IsOut(x) THEN "prime" ELSE "write", x |-> x, i |-> 1]
<1>1. PICK x \in Returned :
        /\ xfer' = [xfer EXCEPT ![x] = "idle"]
        /\ cb' = [cb EXCEPT ![t] = IF running /\ xfer[x] = "completed" THEN c(x) ELSE NoCallback]
  BY DEF Reaps, Reap
<1>2. c(x).x = x /\ c(x).pc # "none"
  OBVIOUS
<1> HIDE DEF c
<1>3. cb[Main] = NoCallback /\ cb[Event] = NoCallback
  BY DEF Reaps, Reap
<1>4. cb \in [{Main, Event} -> Callbacks] /\ Main # Event
  BY DEF TypeOK, Callbacks
<1>5. t = Main => ~running
  BY DEF ModeInv, Reaps
<1> QED  BY <1>1, <1>2, <1>3, <1>4, <1>5

LEMMA ModeStep ==
  ASSUME TypeOK, ModeInv, [Next]_vars
  PROVE  ModeInv'
<1> USE DEF ModeInv
<1>1. CASE MainStep
  <2>1. CASE StartBridge
    BY <2>1 DEF StartBridge
  <2>7. CASE StartSync
    <3>1. /\ main = "iso" /\ main' = "run" /\ out' = "top" /\ inp' = "top"
          /\ UNCHANGED <<pw, event, cb, errors>>
      BY <2>7 DEF StartSync
    <3>2. event' = "none" /\ errors' = 0 /\ MaxErrors \in Nat
      BY <3>1, PyAudioAssumption
    <3> QED  BY <3>1, <3>2
  <2>2. CASE StartIso
    BY <2>2 DEF StartIso
  <2>3. CASE StopSignal
    BY <2>3 DEF StopSignal, Submitted, TypeOK
  <2>4. CASE StopCancels \/ StopDrained \/ StopBreaks
    BY <2>4 DEF StopCancels, StopDrained, StopBreaks
  <2>5. CASE StopJoins \/ StopClears
    BY <2>5 DEF StopJoins, StopClears
  <2>6. CASE JoinSync \/ StopBridge
    BY <2>6 DEF JoinSync, StopBridge, Submitted
  <2> QED  BY <1>1, <2>1, <2>2, <2>3, <2>4, <2>5, <2>6, <2>7 DEF MainStep
<1>2. CASE ThreadStep
  <2>1. CASE ProcessPlayback \/ ProcessCapture \/ EventCheck \/ EventReturns
    BY <2>1 DEF ProcessPlayback, ProcessCapture, EventCheck, EventReturns, Submitted
  <2>2. CASE OutTop \/ OutReads
    BY <2>2 DEF OutTop, OutReads, Submitted
  <2>3. CASE OutWrites
    BY <2>3 DEF OutWrites, Submitted, TypeOK
  <2>4. CASE InTop \/ InReads
    BY <2>4 DEF InTop, InReads, Submitted
  <2> QED  BY <1>2, <2>1, <2>2, <2>3, <2>4 DEF ThreadStep
<1>3. CASE HostStep
  <2>1. UNCHANGED <<pw, main, running, event, cb, out, errors, inp>>
    BY <1>3 DEF HostStep, Unplug, Completes, GivesBack
  <2>2. Submitted = {} => Submitted' = {}
    <3>1. ASSUME NEW x \in Xfer, Completes(x) \/ GivesBack(x)
          PROVE  x \in Submitted
      BY <3>1 DEF Completes, GivesBack, Submitted
    <3>2. Unplug /\ Submitted = {} => Submitted' = {}
      BY DEF Unplug, Submitted
    <3> QED  BY <1>3, <3>1, <3>2 DEF HostStep
  <2> QED  BY <2>1, <2>2
<1>4. ASSUME NEW t \in {Main, Event}, Reaps(t)
      PROVE  ModeInv'
  <2>1. UNCHANGED <<pw, main, running, event, out, errors, inp>> /\ event # "none"
    BY <1>4 DEF Reaps, Reap
  <2>2. PICK x \in Returned :
           /\ cb'[Main] = NoCallback
           /\ cb'[Event] = NoCallback \/ (t = Event /\ running /\ xfer[x] = "completed"
                                          /\ cb'[Event].x = x /\ cb'[Event].pc # "none")
    BY <1>4, Reaped
  <2>3. x \in Xfer /\ (t = Event => event = "handle")
    BY <1>4, <2>2 DEF Returned, Reaps
  <2> QED  BY <2>1, <2>2, <2>3
<1>5. ASSUME NEW t \in {Main, Event}, Callback(t)
      PROVE  ModeInv'
  <2>1. UNCHANGED <<pw, main, running, event, out, errors, inp>>
    BY <1>5 DEF Callback, CallbackPrimes, CallbackFills, CallbackWrites, CallbackSubmits
  <2>2. /\ t = Event /\ event = "handle" /\ cb[Event] # NoCallback /\ cb[Event].x \in Xfer
        /\ cb'[Main] = cb[Main] /\ (cb'[Event] # NoCallback => cb'[Event].x = cb[Event].x)
        /\ cb'[Event].pc = "none" => cb'[Event] = NoCallback
    BY <1>5, CallbackOfEvent
  <2> QED  BY <2>1, <2>2
<1>6. CASE UNCHANGED vars
  BY <1>6 DEF vars, Submitted
<1> QED  BY <1>1, <1>2, <1>3, <1>4, <1>5, <1>6, StepIs

\* A transfer stays submitted unless it is reaped or dropped.
LEMMA HostKeeps ==
  ASSUME xfer \in [Xfer -> States], HostStep
  PROVE  /\ Submitted' = Submitted /\ UNCHANGED <<main, event, cb, fails>> /\ (gone => gone')
         /\ main = "run" /\ ~gone' =>
              \A x \in Xfer : xfer'[x] \in {"cancelling", "cancelled", "no_device"} =>
                              xfer[x] \in {"cancelling", "cancelled", "no_device"}
<1>1. ASSUME NEW x \in Xfer, Completes(x)
      PROVE  /\ xfer' = [xfer EXCEPT ![x] = "completed"] /\ xfer[x] = "flight"
             /\ UNCHANGED <<main, event, cb, fails, gone>>
  BY <1>1 DEF Completes
<1>2. ASSUME NEW x \in Xfer, GivesBack(x)
      PROVE  /\ xfer[x] = "cancelling" /\ UNCHANGED <<main, event, cb, fails, gone>>
             /\ \E s \in {"completed", "cancelled"} : xfer' = [xfer EXCEPT ![x] = s]
  BY <1>2 DEF GivesBack
<1>3. Unplug =>
        /\ gone' /\ UNCHANGED <<main, event, cb, fails>>
        /\ xfer' = [x \in Xfer |-> IF xfer[x] \in {"flight", "cancelling"} THEN "no_device" ELSE xfer[x]]
  BY DEF Unplug
<1>4. CASE \E x \in Xfer : Completes(x)
  BY <1>1, <1>4 DEF Submitted
<1>5. CASE \E x \in Xfer : GivesBack(x)
  BY <1>2, <1>5 DEF Submitted
<1>6. CASE Unplug
  BY <1>3, <1>6 DEF Submitted
<1> QED  BY <1>4, <1>5, <1>6 DEF HostStep

\* The end of a callback.
LEMMA CallbackKeeps ==
  ASSUME TypeOK, ModeInv, NEW t \in {Main, Event}, Callback(t)
  PROVE  /\ UNCHANGED <<main, event, gone>>
         /\ \A x \in Xfer : xfer'[x] = xfer[x] \/ (xfer'[x] = "flight" /\ ~gone)
         /\ fails' = 0 => fails = 0
         /\ cb'[Event] = NoCallback /\ fails' = 0 /\ ~gone => xfer'[cb[Event].x] = "flight"
<1>1. t = Event /\ cb[Event] # NoCallback /\ cb[Event].x \in Xfer
  BY CallbackOfEvent
<1>2. xfer \in [Xfer -> States] /\ fails \in Nat /\ cb \in [{Main, Event} -> Callbacks]
  BY DEF TypeOK, States, Callbacks
<1>3. CASE CallbackSubmits(t)
  <2>1. UNCHANGED <<main, event, gone>>
        /\ \/ ~gone /\ xfer' = [xfer EXCEPT ![cb[Event].x] = "flight"] /\ fails' = fails
           \/ gone /\ UNCHANGED <<xfer, fails>>
           \/ ~gone /\ fails' = fails + 1 /\ UNCHANGED xfer
    BY <1>1, <1>3 DEF CallbackSubmits
  <2> QED  BY <1>1, <1>2, <2>1
<1>4. CASE CallbackPrimes(t) \/ CallbackFills(t) \/ CallbackWrites(t)
  <2>1. UNCHANGED <<main, event, gone, xfer, fails>>
    BY <1>4 DEF CallbackPrimes, CallbackFills, CallbackWrites
  <2>2. cb'[Event] # NoCallback
    <3>1. \/ cb' = [cb EXCEPT ![Event] = [cb[Event] EXCEPT !.pc = "fill"]]
          \/ cb' = [cb EXCEPT ![Event] = [cb[Event] EXCEPT !.pc = "submit"]]
          \/ cb' = [cb EXCEPT ![Event] = [cb[Event] EXCEPT !.i = cb[Event].i + 1]]
      BY <1>1, <1>4 DEF CallbackPrimes, CallbackFills, CallbackWrites, NextPacket
    <3>2. cb[Event] \in Callbacks /\ cb[Event].x # 0
      BY <1>1, <1>2 DEF Xfer
    <3>3. cb'[Event].x = cb[Event].x
      BY <1>2, <3>1, <3>2 DEF Callbacks
    <3> QED  BY <3>2, <3>3 DEF NoCallback
  <2> QED  BY <2>1, <2>2
<1> QED  BY <1>3, <1>4 DEF Callback

LEMMA DrainStep ==
  ASSUME TypeOK, ModeInv, DrainInv, [Next]_vars
  PROVE  DrainInv'
<1>1. xfer \in [Xfer -> States] /\ gone \in BOOLEAN /\ fails \in Nat /\ running \in BOOLEAN
  BY DEF TypeOK, States
<1>2. CASE MainStep
  <2>1. CASE StartIso
    BY <2>1 DEF StartIso, DrainInv, Submitted
  <2>2. CASE StartSync
    BY <1>1, <2>2 DEF StartSync, DrainInv, ModeInv, Submitted
  <2>3. CASE StopSignal
    BY <2>3 DEF StopSignal, DrainInv, ModeInv, Submitted
  <2>4. CASE StopCancels
    <3>1. /\ xfer' = [x \in Xfer |-> IF xfer[x] = "flight" THEN "cancelling" ELSE xfer[x]]
          /\ main = "cancel" /\ main' = "drain" /\ UNCHANGED <<cb, fails, gone>>
      BY <2>4 DEF StopCancels
    <3>2. \A x \in Xfer : x \in Submitted => x \in Submitted'
      BY <1>1, <3>1 DEF Submitted
    <3> QED  BY <3>1, <3>2 DEF DrainInv
  <2>5. CASE StopBreaks
    BY <2>5 DEF StopBreaks, DrainInv
  <2>6. CASE StartBridge \/ StopDrained \/ StopJoins \/ StopClears \/ JoinSync \/ StopBridge
    BY <2>6 DEF StartBridge, StopDrained, StopJoins, StopClears, JoinSync, StopBridge, DrainInv
  <2> QED  BY <1>2, <2>1, <2>2, <2>3, <2>4, <2>5, <2>6 DEF MainStep
<1>3. CASE ThreadStep
  <2>1. UNCHANGED <<main, cb, xfer, gone, fails>> /\ (event # "none" <=> event' # "none")
    BY <1>3 DEF ThreadStep, ProcessPlayback, ProcessCapture, EventCheck, EventReturns, OutTop, OutReads,
       OutWrites, InTop, InReads
  <2> QED  BY <2>1 DEF DrainInv, Submitted
<1>4. CASE HostStep
  BY <1>1, <1>4, HostKeeps DEF DrainInv
<1>5. ASSUME NEW t \in {Main, Event}, Reaps(t)
      PROVE  DrainInv'
  <2>1. UNCHANGED <<main, running, event, gone, fails>>
    BY <1>5 DEF Reaps, Reap
  <2>2. PICK x \in Returned :
           /\ cb[Event] = NoCallback
           /\ xfer' = [xfer EXCEPT ![x] = "idle"]
           /\ cb'[Event] = NoCallback \/ (t = Event /\ running)
           /\ running /\ xfer[x] = "completed" /\ t = Event => cb'[Event].x = x
    BY <1>5, Reaped
  <2>3. x \in Xfer /\ xfer[x] \in {"completed", "cancelled", "no_device"}
    BY <2>2 DEF Returned
  <2>4. NoCallback.x = 0 /\ 0 \notin Xfer
    BY DEF NoCallback, Xfer
  <2>5. CASE main = "run"
    <3>1. running /\ t = Event
      BY <1>5, <2>5 DEF Reaps, ModeInv
    <3>2. ASSUME fails = 0, ~gone
          PROVE  /\ \A y \in Xfer : xfer'[y] \notin {"cancelling", "cancelled", "no_device"}
                 /\ event # "none" => \A y \in Xfer : y \in Submitted' \/ y = cb'[Event].x
      <4>1. xfer[x] = "completed" /\ cb'[Event].x = x
        BY <2>2, <2>3, <2>5, <3>1, <3>2 DEF DrainInv
      <4>2. \A y \in Xfer : y \in Submitted \/ event = "none"
        BY <2>2, <2>4, <2>5, <3>2 DEF DrainInv
      <4>3. \A y \in Xfer \ {x} : xfer'[y] = xfer[y]
        BY <1>1, <2>2, <2>3
      <4>4. xfer'[x] = "idle"
        BY <1>1, <2>2, <2>3
      <4> QED  BY <2>5, <3>2, <4>1, <4>2, <4>3, <4>4 DEF DrainInv, Submitted
    <3> QED  BY <2>1, <2>5, <3>2 DEF DrainInv
  <2>6. CASE main # "run"
    BY <2>1, <2>2, <2>6 DEF DrainInv, ModeInv
  <2> QED  BY <2>5, <2>6
<1>6. ASSUME NEW t \in {Main, Event}, Callback(t)
      PROVE  DrainInv'
  <2> SUFFICES ASSUME fails' = 0, ~gone'
               PROVE  DrainInv'
    BY DEF DrainInv
  <2>1. /\ UNCHANGED <<main, event, gone>> /\ fails = 0 /\ ~gone
        /\ \A x \in Xfer : xfer'[x] = xfer[x] \/ xfer'[x] = "flight"
        /\ cb'[Event] = NoCallback => xfer'[cb[Event].x] = "flight"
    BY <1>6, CallbackKeeps
  <2>2. cb[Event] # NoCallback /\ (cb'[Event] # NoCallback => cb'[Event].x = cb[Event].x) /\ event = "handle"
    BY <1>6, CallbackOfEvent
  <2>3. \A x \in Xfer : x \in Submitted => x \in Submitted'
    BY <2>1 DEF Submitted
  <2>4. \A x \in Xfer : x = cb[Event].x => x \in Submitted' \/ x = cb'[Event].x
    BY <2>1, <2>2 DEF Submitted
  <2> QED  BY <2>1, <2>2, <2>3, <2>4 DEF DrainInv
<1>7. CASE UNCHANGED vars
  BY <1>7 DEF vars, DrainInv, Submitted
<1> QED  BY <1>2, <1>3, <1>4, <1>5, <1>6, <1>7, StepIs

\* With two transfers the drain cannot overtake a callback that resubmits one.
LEMMA FreeStep ==
  ASSUME TypeOK, ModeInv, DrainInv, FreeInv, [Next]_vars
  PROVE  FreeInv'
<1>1. xfer \in [Xfer -> States] /\ fails \in Nat /\ gone \in BOOLEAN
  BY DEF TypeOK, States
<1>2. CASE MainStep
  <2>1. CASE StopDrained
    <3>1. Submitted = {} /\ main = "drain" /\ UNCHANGED <<cb, xfer, fails, gone>>
      BY <2>1 DEF StopDrained
    <3>2. 1 \in Xfer /\ 2 \in Xfer
      BY DEF Xfer
    <3>3. fails = 0 /\ cb[Event] # NoCallback => gone
      BY <3>1, <3>2 DEF DrainInv
    <3> QED  BY <3>1, <3>3 DEF FreeInv, Submitted
  <2>2. CASE StopBreaks
    BY <1>1, <2>2 DEF StopBreaks, FreeInv
  <2>3. CASE StopClears
    BY <2>3 DEF StopClears, FreeInv, Submitted, ModeInv
  <2>4. CASE StopSignal
    BY <2>4 DEF StopSignal, FreeInv, ModeInv, Submitted
  <2>5. CASE StopJoins \/ JoinSync \/ StopBridge
    BY <2>5 DEF StopJoins, JoinSync, StopBridge, FreeInv, Submitted
  <2>6. CASE StartBridge \/ StartIso \/ StartSync \/ StopCancels
    BY <2>6 DEF StartBridge, StartIso, StartSync, StopCancels, FreeInv
  <2> QED  BY <1>2, <2>1, <2>2, <2>3, <2>4, <2>5, <2>6 DEF MainStep
<1>3. CASE ThreadStep
  <2>1. UNCHANGED <<main, cb, xfer, gone, fails>> /\ (event # "none" <=> event' # "none")
    BY <1>3 DEF ThreadStep, ProcessPlayback, ProcessCapture, EventCheck, EventReturns, OutTop, OutReads,
       OutWrites, InTop, InReads
  <2> QED  BY <2>1 DEF FreeInv, Submitted
<1>4. CASE HostStep
  BY <1>1, <1>4, HostKeeps DEF FreeInv
<1>5. ASSUME NEW t \in {Main, Event}, Reaps(t)
      PROVE  FreeInv'
  <2>1. UNCHANGED <<main, running, event, gone, fails>>
    BY <1>5 DEF Reaps, Reap
  <2>2. PICK x \in Returned :
           /\ xfer' = [xfer EXCEPT ![x] = "idle"]
           /\ cb'[Event] = NoCallback \/ (t = Event /\ running)
    BY <1>5, Reaped
  <2>3. Submitted = {} => Submitted' = {}
    BY <1>1, <2>2 DEF Submitted
  <2> QED  BY <2>1, <2>2, <2>3 DEF FreeInv, ModeInv
<1>6. ASSUME NEW t \in {Main, Event}, Callback(t)
      PROVE  FreeInv'
  <2> SUFFICES ASSUME fails' = 0, main' \in {"join_event", "clear", "join", "wpw_stop", "done"}
               PROVE  Submitted' = {} /\ (cb'[Event] # NoCallback => gone')
    BY DEF FreeInv
  <2>1. /\ UNCHANGED <<main, gone>> /\ fails = 0
        /\ \A x \in Xfer : xfer'[x] = xfer[x] \/ (xfer'[x] = "flight" /\ ~gone)
    BY <1>6, CallbackKeeps
  <2>2. gone /\ Submitted = {}
    BY <1>6, <2>1, CallbackOfEvent DEF FreeInv
  <2> QED  BY <2>1, <2>2 DEF Submitted
<1>7. CASE UNCHANGED vars
  BY <1>7 DEF vars, FreeInv, Submitted
<1> QED  BY <1>2, <1>3, <1>4, <1>5, <1>6, <1>7, StepIs

\* Between the test of the fill and the read only PipeWire's thread is at the
\* ring of what is played, and a write never makes it hold less.
LEMMA PacketStep ==
  ASSUME IInv, [Next]_vars
  PROVE  PacketInv'
<1>1. TypeOK /\ ModeInv /\ RingInv /\ PacketInv
  BY DEF IInv
<1>2. CASE OutTop
  <2>1. UNCHANGED <<side, ring, pw, full>>
    BY <1>2 DEF OutTop
  <2>2. out' = "read" => \E n \in 0 .. RingCap : AvailIs(n) /\ n >= Packet
    BY <1>2 DEF OutTop
  <2>3. ASSUME out' = "read", side = "play"
        PROVE  pw /\ Used(ring) >= Packet
    BY <2>2, <2>3 DEF AvailIs
  <2> QED  BY <1>1, <2>1, <2>3 DEF PacketInv, Used
<1>3. CASE OutReads
  <2>1. PICK n \in 0 .. Packet : ReadPlayback(n) /\ full' = (side = "play" => n = Packet)
    BY <1>3 DEF OutReads
  <2>2. out = "read" /\ out' = "write"
    BY <1>3 DEF OutReads
  <2>3. ASSUME side = "play"
        PROVE  n = Packet
    <3>1. pw /\ Used(ring) >= Packet
      BY <1>1, <2>2, <2>3 DEF PacketInv
    <3>2. Used(ring) \in 0 .. RingCap
      BY <1>1, <3>1, UsedType DEF RingInv
    <3> QED  BY <2>1, <2>3, <3>1, <3>2 DEF ReadPlayback, Taken
  <2> QED  BY <2>1, <2>2, <2>3 DEF PacketInv
<1>4. CASE OutWrites \/ StartSync \/ StopBridge
  BY <1>1, <1>4 DEF OutWrites, StartSync, StopBridge, PacketInv, ModeInv
<1>5. CASE ProcessPlayback
  <2>1. UNCHANGED <<side, pw, out, full>> /\ pw /\ \E src \in Buffers : ring' = RingWrite(ring, src)
    BY <1>5 DEF ProcessPlayback
  <2>2. PICK src \in Buffers : ring' = RingWrite(ring, src)
    BY <2>1
  <2>3. Used(ring') >= Used(ring) /\ Used(ring) \in Nat /\ Used(ring') \in Nat
    <3>1. IsRing(ring) /\ src \in Seq(Byte)
      BY <1>1, <2>1 DEF RingInv
    <3>2. IsRing(ring') /\ Used(ring') >= Used(ring)
      BY <2>2, <3>1, WriteAppends
    <3> QED  BY <3>1, <3>2, UsedType
  <2> QED  BY <1>1, <2>1, <2>3 DEF PacketInv
<1>6. CASE ProcessCapture \/ InReads
  <2>1. UNCHANGED <<side, pw, out, full>> /\ (side = "play" => ring' = ring)
    BY <1>1, <1>6 DEF ProcessCapture, InReads, WriteCapture, TypeOK
  <2> QED  BY <1>1, <2>1 DEF PacketInv, Used
<1>7. ASSUME NEW t \in {Main, Event}, Callback(t)
      PROVE  PacketInv'
  <2>1. UNCHANGED <<side, pw, out, full>> /\ out = "none"
    BY <1>1, <1>7, CallbackOfEvent
    DEF Callback, CallbackPrimes, CallbackFills, CallbackWrites, CallbackSubmits, ModeInv
  <2> QED  BY <1>1, <2>1 DEF PacketInv
<1>8. CASE StartBridge
  BY <1>1, <1>8 DEF StartBridge, PacketInv, ModeInv
<1>9. CASE UNCHANGED <<side, ring, pw, out, full>>
  BY <1>1, <1>9 DEF PacketInv, Used
<1> QED
  <2>1. CASE MainStep
    BY <1>4, <1>8, <1>9, <2>1 DEF MainStep, StartIso, StopSignal, StopCancels, StopDrained, StopBreaks,
       StopJoins, StopClears, JoinSync
  <2>2. CASE ThreadStep
    BY <1>2, <1>3, <1>4, <1>5, <1>6, <1>9, <2>2 DEF ThreadStep, EventCheck, EventReturns, InTop
  <2>3. CASE HostStep
    BY <1>9, <2>3 DEF HostStep, Unplug, Completes, GivesBack
  <2>4. CASE \E t \in {Main, Event} : Reaps(t)
    BY <1>9, <2>4 DEF Reaps, Reap
  <2>5. CASE UNCHANGED vars
    BY <1>9, <2>5 DEF vars
  <2> QED  BY <1>7, <2>1, <2>2, <2>3, <2>4, <2>5, StepIs

---------------------------------------------------------------------------
(* IInv always holds. *)

LEMMA InitHolds == Init => IInv
<1> SUFFICES ASSUME Init
             PROVE  IInv
  OBVIOUS
<1>1. TypeOK
  <2>1. NoCallback \in Callbacks /\ <<>> \in Seq(Byte)
    BY DEF NoCallback, Callbacks
  <2>2. FlagType /\ PlaceType
    <3>1. 0 \in 0 .. MaxErrors + 1 /\ 0 \in 0 .. MaxFails
      OBVIOUS
    <3>2. FlagType
      BY <3>1 DEF Init, FlagType
    <3>3. PlaceType
      BY <3>1 DEF Init, PlaceType
    <3> QED  BY <3>2, <3>3
  <2>3. EngineType
    BY <2>1 DEF Init, EngineType, States
  <2>4. side \in {"play", "capture"} /\ ~pw /\ ring = Freed /\ delivered \in Seq(Byte)
    BY <2>1 DEF Init
  <2> QED  BY <2>2, <2>3, <2>4 DEF TypeOK, FlagType, PlaceType, EngineType, Callbacks, States
<1>2. RingInv /\ PacketInv /\ FreeInv /\ DrainInv
  BY DEF Init, RingInv, PacketInv, FreeInv, DrainInv
<1>3. ModeInv
  BY DEF Init, ModeInv, Submitted
<1> QED  BY <1>1, <1>2, <1>3 DEF IInv

LEMMA Always == Spec => []IInv
<1>1. IInv /\ [Next]_vars => IInv'
  <2> SUFFICES ASSUME IInv, [Next]_vars
               PROVE  IInv'
    OBVIOUS
  <2>1. TypeOK /\ ModeInv /\ DrainInv /\ FreeInv
    BY DEF IInv
  <2>2. TypeOK' /\ RingInv' /\ PacketInv'
    BY TypeStep, RingStep, PacketStep
  <2>3. ModeInv' /\ DrainInv' /\ FreeInv'
    BY <2>1, ModeStep, DrainStep, FreeStep
  <2> QED  BY <2>2, <2>3 DEF IInv
<1> QED  BY <1>1, InitHolds, PTL DEF Spec

\* The types, for rings of any length.
THEOREM TypeCorrect == Spec => []TypeOK
<1>1. IInv => TypeOK
  BY DEF IInv
<1> QED  BY <1>1, Always, PTL

\* For any number of transfers in each direction, IsoAudio.stop frees none that
\* is submitted or in its callback unless a call of libusb has failed, and the
\* rings are freed when no thread is left that reads or writes them: provided
\* that what stop and the joins wait for is there in less than their second
\* (TimeAssumption).  An engine whose start has raised is not stopped.
THEOREM NothingFreedUnderfoot == Spec => []NotFreedUnderfoot
<1>1. IInv => NotFreedUnderfoot
  <2> SUFFICES ASSUME IInv
               PROVE  NotFreedUnderfoot
    OBVIOUS
  <2>1. fails \in Nat /\ ModeInv /\ FreeInv
    BY DEF IInv, TypeOK
  <2> QED  BY <2>1 DEF ModeInv, FreeInv, NotFreedUnderfoot
<1> QED  BY <1>1, Always, PTL

\* For any rings, packets and buffers, stream_audio_out never sends bytes that
\* the ring has not put into its packet.
THEOREM PacketsAreFull == Spec => []ReadIsFull
<1>1. IInv => ReadIsFull
  BY DEF IInv, PacketInv, ReadIsFull
<1> QED  BY <1>1, Always, PTL

\* The ring of the shim, with cursors that wrap, implements a drop-oldest queue
\* of RingCap bytes, from wpw_start to wpw_stop and under every interleaving.
THEOREM RingIsQueue == Spec => QueueSpec
<1>1. Init => Queue!Init
  BY DEF Init, Queue!Init
<1>2. IInv /\ [Next]_vars =>
        Queue!Next \/ UNCHANGED <<IF pw THEN Contents(ring) ELSE <<>>, delivered>>
  BY QueueStep
<1> QED  BY <1>1, <1>2, Always, PTL DEF Spec, QueueSpec, Queue!Spec
==============================================================================
