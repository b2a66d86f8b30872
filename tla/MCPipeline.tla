----------------------------- MODULE MCPipeline ------------------------------
(***************************************************************************)
(* Instances of Pipeline: a device with a depth and a color sensor.        *)
(***************************************************************************)
EXTENDS Pipeline

CONSTANTS depth, color

DepthAndColor == {<<depth, color>>, <<color>>}
=============================================================================
