-------------------------- MODULE MCIsoTransfers --------------------------
(***************************************************************************)
(* IsoTransfers with up to three transfers per endpoint and a drain of     *)
(* three ticks; the constants are numbers, given in the configurations.    *)
(***************************************************************************)
EXTENDS IsoTransfers
===========================================================================
