--------------------------- MODULE MCFrameMemory ----------------------------
(***************************************************************************)
(* Instances of FrameMemory: a depth and a color stream with managers of   *)
(* their own (1 and 2; color frames are twice as big), and an infrared     *)
(* stream whose frames are of the kind of the depth frames.                *)
(***************************************************************************)
EXTENDS FrameMemory, TLC

CONSTANTS depth, color, ir

DepthAndColor == depth :> 1 @@ color :> 2
DepthIrAndColor == DepthAndColor @@ ir :> 1
Sizes == [m \in Managers |-> m]
=============================================================================
