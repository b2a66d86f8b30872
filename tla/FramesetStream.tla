--------------------------- MODULE FramesetStream ----------------------------
(***************************************************************************)
(* What a pipeline promises the application, without its sensors, locks,   *)
(* aggregator, queue and calls: while it streams, the application gets the *)
(* framesets of this session in the order they were cut, each at most once *)
(* and none left out but the oldest of those it has not got: one since the *)
(* last it got, more only while as many wait as there is room for.         *)
(* It does not promise that stop ends the framesets: those that wait then  *)
(* can be fetched, in order, until the next start has cleared them.        *)
(***************************************************************************)
EXTENDS Integers

CONSTANT Room    \* framesets that may wait

VARIABLES
  phase,    \* "stopped", "starting", "streaming"
  made,     \* framesets cut so far
  next,     \* the oldest that waits, made + 1 for none
  last      \* the last one the application got

streamVars == <<phase, made, next, last>>

Init == phase = "stopped" /\ made = 0 /\ next = 1 /\ last = 0

Begin == phase' = "starting" /\ UNCHANGED <<made, next, last>>
End == phase' = "stopped" /\ UNCHANGED <<made, next, last>>

(* What an earlier session has left goes before the first frame comes.     *)
Forget ==
  /\ phase = "starting"
  /\ next' = made + 1
  /\ UNCHANGED <<phase, made, last>>

FirstFrame ==
  /\ phase = "starting" /\ next = made + 1
  /\ phase' = "streaming"
  /\ UNCHANGED <<made, next, last>>

Cut ==
  /\ phase = "streaming"
  /\ made' = made + 1
  /\ UNCHANGED <<phase, next, last>>

Lose ==
  /\ phase = "streaming" /\ next < made
  /\ next + Room <= made \/ next = last + 1
  /\ next' = next + 1
  /\ UNCHANGED <<phase, made, last>>

TakeOldest ==
  /\ next <= made
  /\ last' = next /\ next' = next + 1
  /\ UNCHANGED <<phase, made>>

Receive == phase = "streaming" /\ TakeOldest

(* waitForFrame does not look at the state: what a stopped session has     *)
(* left comes out until the queue is cleared.                              *)
ReceiveLeft == phase # "streaming" /\ TakeOldest

Next == Begin \/ End \/ Forget \/ FirstFrame \/ Cut \/ Lose \/ Receive \/ ReceiveLeft

Spec == Init /\ [][Next]_streamVars
=============================================================================
