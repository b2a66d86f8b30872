-------------------------- MODULE FrameAggregator ---------------------------
(***************************************************************************)
(* pipeline/FrameAggregator.cpp: one queue per enabled stream, from which  *)
(* pushFrame cuts framesets.  All of it runs under the recursive           *)
(* srcFrameQueueMutex_, so pushes of different sensors never interleave;   *)
(* what makes it hard is the state that survives a push (the overflow and  *)
(* empty flags, the minimal timestamp) and the callback, which runs in the *)
(* middle of the loop of tryAggregator and may come back in.               *)
(*                                                                         *)
(* A frame is its number in its stream and its timestamp in milliseconds.  *)
(* Synchronising by system or by frame timestamp is the same algorithm     *)
(* over another clock: sync stands for either.                             *)
(*                                                                         *)
(* Operators named Mut... are seeded faults; the specification uses none.  *)
(***************************************************************************)
EXTENDS Integers, Sequences, FiniteSets, Functions

CONSTANTS
  Types,        \* frame types that can be enabled, numbered as OBFrameType
  ColorTypes,   \* the color ones among them
  NormalSize,   \* MAX_NORMAL_MODE_QUEUE_SIZE
  RateFirst,    \* the argument matchingRateFirst of updateConfig
  OutputModes,  \* output modes the application configures
  Setups,       \* the streams and applications the aggregator meets
  MaxFrames     \* bound: frames pushed per stream

ASSUME AggregatorAssumption ==
  /\ Types \subseteq Nat \ {0} /\ IsFiniteSet(Types)
  /\ NormalSize \in Nat \ {0}
  /\ RateFirst \in BOOLEAN
  /\ OutputModes \subseteq {"all", "color", "any", "disable"}
  /\ MaxFrames \in Nat
  /\ \A setup \in Setups :
       /\ setup.halfGap \in [Types -> Nat]        \* halfTspGap of a type's profile
       /\ setup.syncSize \in [Types -> Nat \ {0}]  \* maxSyncQueueSize_, likewise
       /\ setup.stamps \in Seq(SUBSET Nat)        \* the timestamps a frame may carry,
                                                  \* by the number of the frame
       /\ Len(setup.stamps) <= MaxFrames
       /\ setup.reconfigure \in BOOLEAN           \* changes while frames flow
       /\ setup.reentrant \in BOOLEAN             \* the callback calls back in

VARIABLES
  setup,         \* the member of Setups of this behaviour, fixed
  mapped,        \* the keys of srcFrameQueueMap_
  queue,         \* the queue of every type, empty if not mapped
  sync,          \* frameSyncMode_ is not Disable
  outputMode,    \* frameAggregateOutputMode_
  withEmpty,     \* withEmptyQueue_
  withOverflow,  \* withOverflowQueue_
  overflowType,  \* withOverflowQueueFrameType_
  miniStamp,     \* miniTimeStamp_, 0 when there is none
  miniType,      \* miniTimeStampFrameType_
  pc,            \* outside pushFrame, in the loop of tryAggregator, or at
                 \* outputFrameset
  frameset,      \* the frameset being built: its frame of every type in it
  pushed,        \* frames pushed of every type
  gone,          \* history: number of the last frame of a type that left
  overflowed,    \* history: a queue has overflowed
  emptied        \* history: the callback has emptied queues that each still
                 \* had a frame when the round ended

flagVars == <<withEmpty, withOverflow, overflowType>>
miniVars == <<miniStamp, miniType>>
vars == <<setup, mapped, queue, sync, outputMode, flagVars, miniVars, pc, frameset,
          pushed, gone, overflowed, emptied>>

NoType == 0                          \* OB_FRAME_UNKNOWN
Frames == [number : 1..MaxFrames, stamp : Nat]
NoFrames == [t \in Types |-> <<>>]

TypeOK ==
  /\ setup \in Setups
  /\ mapped \subseteq Types
  /\ queue \in [Types -> Seq(Frames)]
  /\ \A t \in Types \ mapped : queue[t] = <<>>
  /\ sync \in BOOLEAN
  /\ outputMode \in {"all", "color", "any", "disable"}
  /\ withEmpty \in BOOLEAN
  /\ withOverflow \in BOOLEAN
  /\ overflowType \in Types \cup {NoType}
  /\ miniStamp \in Nat
  /\ miniType \in Types \cup {NoType}
  /\ pc \in {"rest", "loop", "output"}
  /\ DOMAIN frameset \subseteq mapped /\ Range(frameset) \subseteq Frames
  /\ pushed \in [Types -> 0..MaxFrames]
  /\ gone \in [Types -> 0..MaxFrames]
  /\ overflowed \in BOOLEAN
  /\ emptied \in BOOLEAN

Init ==
  /\ setup \in Setups
  /\ mapped = {}
  /\ queue = NoFrames
  /\ sync = FALSE
  /\ outputMode = "any"
  /\ withEmpty = FALSE
  /\ withOverflow = FALSE
  /\ overflowType = NoType
  /\ miniStamp = 0
  /\ miniType = NoType
  /\ pc = "rest"
  /\ frameset = <<>>
  /\ pushed = [t \in Types |-> 0]
  /\ gone = [t \in Types |-> 0]
  /\ overflowed = FALSE
  /\ emptied = FALSE

-----------------------------------------------------------------------------
(* updateConfig gives every queue room for one frame when aggregation is   *)
(* disabled.                                                               *)
MaxNormal == IF outputMode = "disable" THEN 1 ELSE NormalSize
MaxQueueSize(t) ==
  CASE ~sync                 -> MaxNormal
    [] outputMode = "disable" -> 1
    [] OTHER                 -> setup.syncSize[t]

(* The length at which a push flags the queue as overflowing.              *)
MutFull(t, n) == n > MaxQueueSize(t)
Full(t, n) == n >= MaxQueueSize(t)

NonEmpty == {t \in mapped : queue[t] # <<>>}
FrontStamp(t) == Head(queue[t]).stamp

(* The three branches of tryAggregator.                                    *)
Synchronous == Cardinality(mapped) > 1 /\ sync
ByRate == Synchronous /\ RateFirst /\ Cardinality(mapped) # 2
ByPrecision == Synchronous /\ ~ByRate

(* tarTsp - refTsp <= tspHalfGap over uint64_t: an earlier frame wraps to a*)
(* huge difference and never matches.                                      *)
MutMinGap(t, u) == setup.halfGap[t] + setup.halfGap[u]
MinGap(t, u) == IF setup.halfGap[t] < setup.halfGap[u] THEN setup.halfGap[t] ELSE setup.halfGap[u]
Within(tar, ref, gap) == tar >= ref /\ tar - ref <= gap

-----------------------------------------------------------------------------
(* clearAllFrameQueue, with miniStamp and withOverflow; miniType,          *)
(* overflowType and withEmpty keep their values.                           *)
ClearQueues ==
  /\ queue' = NoFrames
  /\ gone' = pushed
  /\ miniStamp' = 0
  /\ withOverflow' = FALSE
  /\ UNCHANGED <<withEmpty, overflowType, miniType>>

MayConfigure == pc = "rest" /\ (setup.reconfigure \/ \A t \in Types : pushed[t] = 0)

UpdateConfig ==
  /\ MayConfigure
  /\ mapped' \in SUBSET Types \ {{}}
  /\ outputMode' \in OutputModes
  /\ ClearQueues
  /\ UNCHANGED <<sync, pc, frameset, pushed, overflowed, emptied>>

EnableFrameSync ==
  /\ MayConfigure
  /\ sync' = ~sync
  /\ ClearQueues
  /\ UNCHANGED <<mapped, outputMode, pc, frameset, pushed, overflowed, emptied>>

(* Pipeline::stop.                                                         *)
ClearAllFrameQueue ==
  /\ MayConfigure
  /\ ClearQueues
  /\ UNCHANGED <<mapped, sync, outputMode, pc, frameset, pushed, overflowed, emptied>>

-----------------------------------------------------------------------------
(* pushFrame up to its call of tryAggregator.  A late frame of a type that *)
(* is no longer mapped is dropped, but still sets withEmpty and enters the *)
(* loop.                                                                   *)
MutKeepsNone(t, stamp) == ~(t \in mapped /\ ByPrecision /\ stamp < miniStamp)
KeepsMinimum(t, stamp) ==
  ~ /\ t \in mapped
    /\ ByPrecision
    /\ miniStamp = 0 \/ stamp < miniStamp

PushFrame(t, stamp) ==
  LET q == IF t \in mapped
             THEN Append(queue[t], [number |-> pushed[t] + 1, stamp |-> stamp])
             ELSE queue[t]
      over == t \in mapped /\ Full(t, Len(q))
  IN /\ pc = "rest"
     /\ pushed[t] < MaxFrames
     /\ pushed' = [pushed EXCEPT ![t] = @ + 1]
     /\ queue' = [queue EXCEPT ![t] = q]
     /\ gone' = IF t \in mapped THEN gone ELSE [gone EXCEPT ![t] = pushed'[t]]
     /\ withEmpty' = \E u \in mapped \ {t} : queue[u] = <<>>
     /\ withOverflow' = (withOverflow \/ over)
     /\ overflowType' = IF over THEN t ELSE overflowType
     /\ overflowed' = (overflowed \/ over)
     /\ IF KeepsMinimum(t, stamp)
          THEN UNCHANGED miniVars
          ELSE miniStamp' = stamp /\ miniType' = t
     /\ pc' = "loop"
     /\ UNCHANGED <<mapped, sync, outputMode, frameset, emptied>>

-----------------------------------------------------------------------------
(* One round of the loop of tryAggregator.                                 *)
LoopAgain == ~withEmpty \/ withOverflow

LoopEnd ==
  /\ pc = "loop"
  /\ ~LoopAgain
  /\ pc' = "rest"
  /\ UNCHANGED <<mapped, queue, sync, outputMode, flagVars, miniVars, frameset,
                 pushed, gone, overflowed, emptied>>

(* The front frames of the types in matched leave for the frameset.        *)
MutPopped(matched) == [t \in Types |-> IF t \in matched THEN <<>> ELSE queue[t]]
Popped(matched) == [t \in Types |-> IF t \in matched THEN Tail(queue[t]) ELSE queue[t]]

Cut(matched) ==
  /\ frameset' = [t \in matched |-> Head(queue[t])]
  /\ queue' = Popped(matched)
  /\ gone' = [t \in Types |-> IF t \in matched THEN Head(queue[t]).number ELSE gone[t]]
  /\ pc' = "output"
  /\ UNCHANGED <<mapped, sync, outputMode, overflowType, pushed, overflowed, emptied>>

(* Rate first.  sortFrameMap orders the non-empty queues by the stamp of   *)
(* their front; std::sort leaves equal stamps in any order.  Each frame is *)
(* compared with the one before it, and the first gap ends the frameset.   *)
MutSortedFronts ==
  {s \in [1..Cardinality(NonEmpty) -> NonEmpty] :
     \A i, j \in DOMAIN s : i < j => s[i] < s[j]}

SortedFronts ==
  {s \in [1..Cardinality(NonEmpty) -> NonEmpty] :
     /\ \A i, j \in DOMAIN s : i # j => s[i] # s[j]
     /\ \A i, j \in DOMAIN s : i < j => FrontStamp(s[i]) <= FrontStamp(s[j])}

Chain(s) ==
  {s[i] : i \in {j \in DOMAIN s :
     \A m \in 2..j : Within(FrontStamp(s[m]), FrontStamp(s[m-1]), MinGap(s[m], s[m-1]))}}

MatchByRate ==
  /\ pc = "loop" /\ LoopAgain /\ ByRate
  /\ NonEmpty # {}
  /\ \E s \in SortedFronts :
       LET matched == Chain(s)
       IN /\ Cut(matched)
          /\ withOverflow' = (withOverflow /\ overflowType \notin matched)
          /\ withEmpty' = (withEmpty \/ \E t \in matched : queue'[t] = <<>>)
  /\ UNCHANGED miniVars

(* Precision first.  Every front that follows the reference frame closely  *)
(* enough goes; the new minimum is taken over the fronts that are left, in *)
(* the order of the map.  0 counts as none: what follows a front stamped 0 *)
(* takes its place, and of equal stamps the first is kept.                 *)
NewMinimum(q) ==
  LET left == {t \in mapped : q[t] # <<>>}
      stamp(t) == Head(q[t]).stamp
      since == {t \in left : \A z \in left : stamp(z) = 0 => z < t}
      type == CHOOSE t \in left :
                IF since = {} THEN \A u \in left : u <= t
                ELSE /\ t \in since
                     /\ \A u \in since : stamp(t) < stamp(u) \/ (stamp(t) = stamp(u) /\ t <= u)
  IN IF left = {} THEN [stamp |-> 0, type |-> miniType]
                  ELSE [stamp |-> stamp(type), type |-> type]

MutMatchByPrecision ==
  /\ pc = "loop" /\ LoopAgain /\ ByPrecision
  /\ miniType \in NonEmpty
  /\ Cut({t \in NonEmpty : Within(FrontStamp(t), FrontStamp(miniType), MinGap(t, miniType))})
  /\ withEmpty' = (withEmpty \/ \E t \in mapped : queue'[t] = <<>>)
  /\ UNCHANGED <<withOverflow, miniVars>>

MatchByPrecision ==
  /\ pc = "loop" /\ LoopAgain /\ ByPrecision
  /\ miniType \in NonEmpty
  /\ LET matched == {t \in NonEmpty : Within(FrontStamp(t), FrontStamp(miniType),
                                             MinGap(t, miniType))}
     IN /\ Cut(matched)
        /\ withOverflow' = (withOverflow /\ overflowType \notin matched)
        /\ withEmpty' = (withEmpty \/ \E t \in mapped : queue'[t] = <<>>)
        /\ LET best == NewMinimum(queue')
           IN miniStamp' = best.stamp /\ miniType' = best.type

(* No synchronisation: one frame of every stream, or of the full ones.     *)
(* withEmpty tells that some stream has none.  If it is wrong, front() of  *)
(* an empty queue is undefined and the behaviour ends.                     *)
MatchAsync ==
  /\ pc = "loop" /\ LoopAgain /\ ~Synchronous
  /\ ~withEmpty => NonEmpty = mapped
  /\ Cut({t \in mapped : ~withEmpty \/ Len(queue[t]) >= MaxNormal})
  /\ withEmpty' = TRUE
  /\ withOverflow' = FALSE
  /\ UNCHANGED miniVars

(* outputFrameset and the callback.  A callback that turns the             *)
(* synchronisation off empties the queues and leaves withEmpty as it was.  *)
Delivers ==
  \/ Cardinality(mapped) = 1
  \/ outputMode \in {"any", "disable"}
  \/ outputMode = "color" /\ (DOMAIN frameset) \cap ColorTypes # {}
  \/ outputMode = "all" /\ DOMAIN frameset = mapped

OutputFrameset ==
  /\ pc = "output"
  /\ pc' = "loop"
  /\ frameset' = <<>>
  /\ \/ UNCHANGED <<queue, sync, flagVars, miniVars, gone, emptied>>
     \/ /\ setup.reentrant /\ Delivers
        /\ sync' = ~sync
        /\ ClearQueues
        /\ emptied' = (emptied \/ ~withEmpty)
  /\ UNCHANGED <<mapped, outputMode, pushed, overflowed>>

-----------------------------------------------------------------------------
Push == \E t \in Types :
          /\ pushed[t] < Len(setup.stamps)
          /\ \E stamp \in setup.stamps[pushed[t] + 1] : PushFrame(t, stamp)

Aggregate ==
  \/ LoopEnd
  \/ MatchByRate
  \/ MatchByPrecision
  \/ MatchAsync
  \/ OutputFrameset

Configure == UpdateConfig \/ EnableFrameSync \/ ClearAllFrameQueue

Next == (Configure \/ Push \/ Aggregate) /\ UNCHANGED setup

Spec == Init /\ [][Next]_vars

(* A push that has begun runs to its end on the sensor's thread.           *)
FairSpec == Spec /\ WF_vars(Aggregate /\ UNCHANGED setup)

-----------------------------------------------------------------------------
(* front() is never taken of an empty queue, which would be undefined      *)
(* behaviour: the rate branch has a non-empty queue to start from, the     *)
(* queue of miniTimeStampFrameType_ has a frame although that type was     *)
(* remembered from an earlier push, and the asynchronous branch only takes *)
(* from queues that have one.  The one exception: the callback has turned  *)
(* the synchronisation off in a round that left every queue a frame.       *)
FrontsExist ==
  (pc = "loop" /\ LoopAgain /\ ~emptied) =>
     /\ ByRate => NonEmpty # {}
     /\ ByPrecision => miniType \in NonEmpty
     /\ (~Synchronous /\ ~withEmpty) => NonEmpty = mapped

(* A push leaves no work behind: when it returns no queue is at its limit, *)
(* and some queue is empty, so a stalled stream neither lets the queues of *)
(* the others grow nor leaves a complete set of frames waiting.            *)
RestIsSettled ==
  (pc = "rest" /\ mapped # {}) =>
     /\ ~withOverflow
     /\ NonEmpty # mapped
     /\ \A t \in mapped : Len(queue[t]) < MaxQueueSize(t)

(* Every frame of an enabled stream leaves once and in order: the queue of *)
(* a stream holds exactly the frames after the last one that left.         *)
StreamsIntact ==
  \A t \in mapped :
     /\ Len(queue[t]) = pushed[t] - gone[t]
     /\ \A i \in DOMAIN queue[t] : queue[t][i].number = gone[t] + i

(* Sorted by stamp, neighbours of a synchronised frameset are no further   *)
(* apart than the smaller of their half gaps.                              *)
FramesetCoherent ==
  (pc = "output" /\ Synchronous) =>
    \A t \in DOMAIN frameset :
      \/ \A u \in DOMAIN frameset : frameset[t].stamp <= frameset[u].stamp
      \/ \E u \in DOMAIN frameset \ {t} :
           Within(frameset[t].stamp, frameset[u].stamp, MinGap(t, u))

(* The loop of tryAggregator ends: it runs with the pipeline's mutex held. *)
(* The exception is that of FrontsExist.                                   *)
PushReturns == (pc # "rest") ~> (pc = "rest" \/ emptied)
=============================================================================
