----------------------------- MODULE MCCapture -----------------------------
(***************************************************************************)
(* Capture with sizes scaled down: IN packets of one or two samples, a     *)
(* mapped buffer that is not a whole number of samples, and a ring that    *)
(* holds more than any trim mark.                                          *)
(***************************************************************************)
EXTENDS Capture

MCInSizes == {2, 4}
MCRequests == {0, 1, 2}
===========================================================================
