---------------------------- MODULE MCRuntimeCore ----------------------------
(***************************************************************************)
(* RuntimeCore with two or three requests and one Slot or two.             *)
(***************************************************************************)
EXTENDS RuntimeCore, TLC

CONSTANTS r1, r2, r3, norequest
=============================================================================
