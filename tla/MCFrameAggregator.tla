------------------------- MODULE MCFrameAggregator --------------------------
(***************************************************************************)
(* Instances of FrameAggregator.  Types carry their OBFrameType numbers:   *)
(* 2 color, 3 depth, 8 left IR.                                            *)
(***************************************************************************)
EXTENDS FrameAggregator

CONSTANTS Period, Jitter, MaxStamp

ASSUME PeriodicAssumption ==
  Period \in Nat \ {0} /\ Jitter \in Nat /\ 2 * Jitter < Period

(* Streams of one rate: frame number k is taken in period k, at most       *)
(* Jitter after its start; halfTspGap is half of the period.               *)
Periodic ==
  [halfGap     |-> [t \in Types |-> Period \div 2],
   syncSize    |-> [t \in Types |-> 3],
   stamps      |-> [k \in 1..MaxFrames |-> {k * Period + j : j \in 0..Jitter}],
   reconfigure |-> FALSE,
   reentrant   |-> FALSE]

(* Any stamps, running backwards and starting at 0 (a clock was reset),    *)
(* streams of different rates, and an application that reconfigures        *)
(* between pushes and from inside the callback.                            *)
Wild ==
  [halfGap     |-> [t \in Types |-> IF t \in ColorTypes THEN 2 ELSE 1],
   syncSize    |-> [t \in Types |-> IF t \in ColorTypes THEN 3 ELSE 2],
   stamps      |-> [k \in 1..2 |-> 0..MaxStamp],
   reconfigure |-> TRUE,
   reentrant   |-> TRUE]

PeriodicAndWild == {Periodic, Wild}
-----------------------------------------------------------------------------
(* Streams with the same period and jitter below half of it: a frameset    *)
(* never mixes frames of two periods, whatever was delayed before.         *)
NeverMixesPeriods ==
  (setup = Periodic /\ pc = "output" /\ Synchronous) =>
    \A t, u \in DOMAIN frameset : frameset[t].number = frameset[u].number

(* The same streams: as long as no queue has overflowed, no frame is       *)
(* separated from its partners: every frameset is complete, in whatever    *)
(* order the sensors' threads push.                                        *)
CompleteUnlessOverflow ==
  (setup = Periodic /\ pc = "output" /\ ~overflowed) => DOMAIN frameset = mapped
=============================================================================
