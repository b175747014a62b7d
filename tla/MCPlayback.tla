---------------------------- MODULE MCPlayback ----------------------------
(***************************************************************************)
(* Playback with sizes scaled down: a packet of two stereo frames, two     *)
(* packets per transfer, and a ring three times as deep as the trim mark.  *)
(***************************************************************************)
EXTENDS Playback

MCSinkSizes == {0, 8, 12, 32}
===========================================================================
