----------------------------- MODULE MCPyDriver -----------------------------
(* Model values of PyDriver for TLC: the numbers run out after a few reports. *)
EXTENDS PyDriver
=============================================================================
