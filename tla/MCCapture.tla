----------------------------- MODULE MCCapture -----------------------------
(***************************************************************************)
(* A small instance of Capture for TLC.                                    *)
(***************************************************************************)
EXTENDS Capture

CONSTANTS c1, c2
=============================================================================
