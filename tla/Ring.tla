------------------------------- MODULE Ring -------------------------------
(***************************************************************************)
(* The single-producer single-consumer byte ring of rust/src/ring.rs.      *)
(*                                                                         *)
(* The contents of a ring is a sequence, oldest byte first.  The crate     *)
(* rtrb publishes a producer's bytes by one store of the tail index and a  *)
(* consumer's by one store of the head index; what each end does between   *)
(* reading the other's index and storing its own is therefore a pair of    *)
(* steps of the modules that use the ring (a "load" and a "commit"), and   *)
(* the operators below are what each step computes.                        *)
(***************************************************************************)
EXTENDS Naturals, Sequences

CONSTANT Capacity    \* bytes, RING_CAPACITY in audio.rs

ASSUME CapacityAssumption == Capacity \in Nat \ {0}

Smaller(a, b) == IF a =< b THEN a ELSE b
Larger(a, b)  == IF a >= b THEN a ELSE b

\* avail: what the consumer may read.
Avail(ring) == Len(ring)

\* Mutants of Fits: the room ignored; a ring that keeps one slot free.
FitsUnchecked(ring, n) == n
FitsOneFree(ring, n) == Smaller(n, Capacity - 1 - Len(ring))

\* write, the load: how much of n bytes the producer will push, by the free
\* space it sees.  The rest of the source, the newest bytes, is dropped.
Fits(ring, n) == Smaller(n, Capacity - Len(ring))

\* write, the commit: the first bytes of the source are now readable.
Pushed(ring, bytes) == ring \o bytes

\* read and skip, the load: how many of n bytes the consumer will take.
Takes(ring, n) == Smaller(n, Len(ring))

\* read and skip, the commit: the bytes handed over, and those left.
Front(ring, n) == SubSeq(ring, 1, n)
Rest(ring, n)  == SubSeq(ring, n + 1, Len(ring))
===========================================================================
