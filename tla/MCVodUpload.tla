---------------------------- MODULE MCVodUpload ----------------------------
(***************************************************************************)
(* Small instances of VodUpload for TLC.                                   *)
(***************************************************************************)
EXTENDS VodUpload

\* A part size that cuts a rush in two, one that takes it whole.
OneOrTwo == {1, 2}

\* The states after a call overtook a plan are of no interest to a run whose
\* properties only speak of the others.
NotOvertaken == ~overtaken
=============================================================================
