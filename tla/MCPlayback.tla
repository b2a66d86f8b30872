----------------------------- MODULE MCPlayback ------------------------------
(***************************************************************************)
(* Instances of Playback: a short file of two sensors.                     *)
(***************************************************************************)
EXTENDS Playback

CONSTANTS depth, color

DepthAndColor == <<depth, color>>
=============================================================================
