----------------------------- MODULE FrameRelay ------------------------------
(***************************************************************************)
(* What an asynchronous filter promises the code around it, without queue, *)
(* flags, threads or reset: frames are taken in some order, at most Room   *)
(* of them wait, and each is worked on once, in the order it was taken,    *)
(* until the process ends, which the work on a frame may bring about.      *)
(***************************************************************************)
EXTENDS Integers, Sequences

CONSTANTS
  Frames,  \* what can be pushed
  Room     \* frames that may wait or be in the filter's hands

VARIABLES
  taken,   \* the frames taken so far
  worked,  \* the frames worked on so far
  ended    \* the process has ended

relayVars == <<taken, worked, ended>>

Init == taken = <<>> /\ worked = <<>> /\ ended = FALSE

TakeFrame ==
  /\ ~ended
  /\ Len(taken) - Len(worked) < Room
  /\ \E f \in Frames : taken' = Append(taken, f)
  /\ UNCHANGED <<worked, ended>>

WorkFrame ==
  /\ ~ended
  /\ Len(worked) < Len(taken)
  /\ worked' = Append(worked, taken[Len(worked) + 1])
  /\ UNCHANGED <<taken, ended>>

(* Only with a frame in hand: nothing ends a filter that has worked on     *)
(* everything it took.                                                     *)
End ==
  /\ ~ended
  /\ Len(worked) < Len(taken)
  /\ ended' = TRUE
  /\ UNCHANGED <<taken, worked>>

Next == TakeFrame \/ WorkFrame \/ End

Spec == Init /\ [][Next]_relayVars /\ WF_relayVars(WorkFrame)
=============================================================================
