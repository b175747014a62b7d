----------------------------- MODULE MCPyAudio -----------------------------
(***************************************************************************)
(* PyAudio with a ring of two bytes whose cursors wrap after four, two     *)
(* values of a byte, packets as long as the ring, and buffers one byte     *)
(* longer.                                                                 *)
(***************************************************************************)
EXTENDS PyAudio

MCBuffers == {<<0>>, <<0, 1>>, <<0, 1, 1>>}
=============================================================================
