---------------------------- MODULE MCLifecycle ----------------------------
(***************************************************************************)
(* Lifecycle with three plugs of the device, two failures and two attempts *)
(* at PipeWire; the constants are numbers, given in the configurations.    *)
(***************************************************************************)
EXTENDS Lifecycle
===========================================================================
