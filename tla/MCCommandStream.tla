-------------------------- MODULE MCCommandStream --------------------------
(***************************************************************************)
(* A small instance of CommandStream for TLC.                              *)
(***************************************************************************)
EXTENDS CommandStream

\* What waits for OBS, what OBS announces later, what this room does not know and
\* what is for somebody else.
SomeKinds == {"scene", "capture", "unknown", "other"}
=============================================================================
