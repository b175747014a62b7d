---------------------------- MODULE MCEventLoop ----------------------------
(***************************************************************************)
(* EventLoop with one button, two volumes, one effect of two magnitudes;   *)
(* the sets are given in the configuration.                                *)
(***************************************************************************)
EXTENDS EventLoop

\* The least magnitude that moves a motor, and the greatest.
MCMagnitudes == {656, 65535}
===========================================================================
