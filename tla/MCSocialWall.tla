---------------------------- MODULE MCSocialWall ----------------------------
(***************************************************************************)
(* Small instances of SocialWall for TLC.                                  *)
(***************************************************************************)
EXTENDS SocialWall

CONSTANTS w1, f1, f2
=============================================================================
