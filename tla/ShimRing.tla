----------------------------- MODULE ShimRing -----------------------------
(***************************************************************************)
(* The byte ring of tools/wolverine_pw.c: a buffer whose length is a power *)
(* of two, and two cursors of type uint32_t that run freely, so that       *)
(* their difference is the fill and their low bits the place in the        *)
(* buffer.  Each operation holds the ring's mutex from end to end.         *)
(***************************************************************************)
EXTENDS Integers, Sequences

CONSTANTS
  RingCap,     \* RING_CAP
  CursorMod    \* 2^32

\* Both are powers of two, of which this is what matters.
ASSUME RingAssumption ==
  /\ RingCap \in Nat \ {0}
  /\ CursorMod \in Nat /\ CursorMod >= 2 * RingCap /\ CursorMod % RingCap = 0

Index == 0 .. RingCap - 1

\* A cursor's place in the buffer: & RING_MASK.
Slot(c) == c % RingCap

Used(r) == (r.head - r.tail) % CursorMod

\* The bytes held, oldest first.
Contents(r) == [i \in 1 .. Used(r) |-> r.buf[Slot(r.tail + (i - 1))]]

\* The last n bytes of a source.
Newest(src, n) == SubSeq(src, Len(src) - n + 1, Len(src))

\* Mutant of Dropped: all there is goes at once.
DroppedAll(r, n) == IF n > RingCap - Used(r) THEN Used(r) ELSE 0

\* How far ring_write moves the read cursor to make room for n bytes.
Dropped(r, n) == IF n > RingCap - Used(r) THEN n - (RingCap - Used(r)) ELSE 0

\* The buffer with a source's bytes from a cursor on, wrapped at its end.
Stored(buf, at, bytes) ==
  [j \in Index |-> LET i == (j - at) % RingCap IN IF i < Len(bytes) THEN bytes[i + 1] ELSE buf[j]]

\* ring_write: of a source longer than the ring only the end is kept.
RingWrite(r, src) ==
  LET n == IF Len(src) > RingCap THEN RingCap ELSE Len(src) IN
    [buf  |-> Stored(r.buf, r.head, Newest(src, n)),
     head |-> (r.head + n) % CursorMod,
     tail |-> (r.tail + Dropped(r, n)) % CursorMod]

\* ring_read: how many of n bytes it hands over, which, and what is left.
Taken(r, n) == IF n > Used(r) THEN Used(r) ELSE n
Bytes(r, n) == [i \in 1 .. Taken(r, n) |-> r.buf[Slot(r.tail + (i - 1))]]
RingRead(r, n) == [r EXCEPT !.tail = (@ + Taken(r, n)) % CursorMod]
===========================================================================
