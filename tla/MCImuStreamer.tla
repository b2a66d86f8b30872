--------------------------- MODULE MCImuStreamer ----------------------------
(***************************************************************************)
(* An instance of ImuStreamer.  Nothing tells one sensor or one stream     *)
(* profile from another, and the run checks invariants only.               *)
(***************************************************************************)
EXTENDS ImuStreamer, TLC

Symmetry == Permutations(Sensors) \cup Permutations(Profiles)
=============================================================================
