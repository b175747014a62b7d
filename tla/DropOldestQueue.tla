-------------------------- MODULE DropOldestQueue --------------------------
(***************************************************************************)
(* What the rings of tools/wolverine_pw.c promise ("drop-oldest on         *)
(* overflow"): a queue of at most Capacity bytes.  Bytes are delivered in  *)
(* the order in which they were put in, each once; when there is no room   *)
(* the oldest are dropped, and no more of them than the new ones need.     *)
(***************************************************************************)
EXTENDS Integers, Sequences

CONSTANT Capacity    \* a positive number of bytes

VARIABLES
  contents,    \* the queue, oldest byte first
  delivered    \* what the last Take handed over

Init == contents = <<>> /\ delivered = <<>>

\* After(k): the contents but for their first k bytes.
After(k) == SubSeq(contents, k + 1, Len(contents))

\* New bytes follow the old; if any old one has gone, the queue is full.
Put ==
  /\ \E k \in 0 .. Len(contents) :
       /\ Len(After(k)) =< Len(contents')
       /\ SubSeq(contents', 1, Len(After(k))) = After(k)
       /\ k > 0 => Len(contents') = Capacity
  /\ Len(contents') =< Capacity
  /\ UNCHANGED delivered

Take ==
  \E k \in 0 .. Len(contents) :
    /\ delivered' = SubSeq(contents, 1, k)
    /\ contents' = After(k)

\* The bridge is stopped: what is left is gone.
Close == contents' = <<>> /\ UNCHANGED delivered

Next == Put \/ Take \/ Close

Spec == Init /\ [][Next]_<<contents, delivered>>
=============================================================================
