--------------------------- MODULE MCSceneSwitch ---------------------------
(***************************************************************************)
(* A small instance of SceneSwitch for TLC.                                *)
(***************************************************************************)
EXTENDS SceneSwitch

CONSTANTS loop, camera, sponsors
=============================================================================
