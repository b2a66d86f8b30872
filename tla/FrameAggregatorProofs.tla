------------------------ MODULE FrameAggregatorProofs ------------------------
(***************************************************************************)
(* Proofs about FrameAggregator, for any streams, queue limits, gaps and   *)
(* timestamps, in both matching modes, reconfigured between pushes: frames *)
(* leave once and in order, a push leaves nothing behind that is due, and  *)
(* no frame of a synchronised frameset stands alone.  For streams of one   *)
(* rate: framesets are of one period, and complete as long as no queue     *)
(* overflows.  The callback may call back in throughout.                   *)
(***************************************************************************)
EXTENDS MCFrameAggregator, FiniteSetTheorems, FunctionTheorems, SequenceTheorems,
        WellFoundedInduction, TLAPS

(* At most one queue is at its limit, the one that withOverflowQueue_ and  *)
(* withOverflowQueueFrameType_ tell, and none between pushes.              *)
LimitsAreFlagged ==
  /\ \A t \in mapped : Len(queue[t]) < MaxQueueSize(t) \/ (withOverflow /\ overflowType = t)
  /\ withOverflow => /\ pc # "rest"
                     /\ overflowType \in mapped
                     /\ Len(queue[overflowType]) = MaxQueueSize(overflowType)

(* During a push withEmptyQueue_ tells whether a queue is empty.  A        *)
(* callback that turns the synchronisation off empties the queues and      *)
(* leaves the flag.                                                        *)
EmptyIsFlagged ==
  mapped # {} =>
    /\ (pc = "rest" \/ withEmpty) => NonEmpty # mapped
    /\ (pc # "rest" /\ ~withEmpty) =>
         \/ NonEmpty = mapped
         \/ emptied /\ pc = "loop" /\ NonEmpty = {} /\ ~Synchronous

(* Without synchronisation one round is enough: the queue that the push    *)
(* has filled has one frame, and it goes.                                  *)
OneRound ==
  ~Synchronous =>
    /\ pc = "output" => withEmpty /\ ~withOverflow
    /\ (pc = "loop" /\ ~withEmpty /\ mapped # {}) => \E t \in mapped : Len(queue[t]) <= 1
    /\ (withOverflow /\ withEmpty) => ~sync

(* miniTimeStampFrameType_ has a frame when the loop is to look at it.     *)
MinimumIsThere ==
  ByPrecision =>
    /\ miniStamp # 0 => miniType \in NonEmpty
    /\ (pc # "rest" /\ LoopAgain) => miniType \in NonEmpty

(* A frameset is only there on its way to the callback.                    *)
BuiltForOutput == pc # "output" => frameset = <<>>

AggregatorInv ==
  /\ TypeOK
  /\ BuiltForOutput
  /\ StreamsIntact
  /\ LimitsAreFlagged
  /\ EmptyIsFlagged
  /\ OneRound
  /\ MinimumIsThere

-----------------------------------------------------------------------------
(* Smallest and largest of a set of natural numbers.                       *)
LEMMA Least ==
  ASSUME NEW T \in SUBSET Nat, T # {}
  PROVE  \E x \in T : \A y \in T : x <= y
<1> DEFINE R == OpToRel(<, Nat)
<1>1. IsWellFoundedOn(R, Nat)
  BY NatLessThanWellFounded
<1>2. \A x, y \in Nat : y < x => <<y, x>> \in R
  BY DEF OpToRel
<1> HIDE DEF R
<1>3. PICK x \in T : \A y \in T : <<y, x>> \notin R
  BY <1>1, WFMin
<1>4. ASSUME NEW y \in T PROVE x <= y
  <2>1. ~(y < x)
    BY <1>2, <1>3
  <2>2. x \in Nat /\ y \in Nat
    OBVIOUS
  <2> QED BY <2>1, <2>2
<1> QED BY <1>4

(* By the number of elements: a set without a largest one stays without    *)
(* one when an element is taken out.                                       *)
LEMMA Greatest ==
  ASSUME NEW S \in SUBSET Nat, S # {}, IsFiniteSet(S)
  PROVE  \E x \in S : \A y \in S : y <= x
<1> DEFINE Bad == {T \in SUBSET S : T # {} /\ \A x \in T : \E y \in T : ~(y <= x)}
           Sizes == {Cardinality(T) : T \in Bad}
<1> SUFFICES ASSUME Bad # {} PROVE FALSE
  OBVIOUS
<1>1. \A T \in SUBSET S : IsFiniteSet(T) /\ Cardinality(T) \in Nat
  BY FS_Subset, FS_CardinalityType
<1>2. PICK n \in Sizes : \A m \in Sizes : n <= m
  <2>1. Sizes \in SUBSET Nat /\ Sizes # {}
    BY <1>1
  <2> HIDE DEF Sizes
  <2> QED BY <2>1, Least
<1>3. PICK T \in Bad : Cardinality(T) = n
  BY <1>2
<1>4. PICK x \in T : TRUE
  BY <1>3
<1> DEFINE U == T \ {x}
<1>5. Cardinality(U) = n - 1 /\ n \in Nat
  BY <1>1, <1>3, <1>4, FS_RemoveElement
<1>6. U \notin Bad
  <2> SUFFICES ASSUME U \in Bad PROVE FALSE
    OBVIOUS
  <2>1. n <= Cardinality(U)
    BY <1>2
  <2> QED BY <1>5, <2>1
<1>7. PICK y \in T : ~(y <= x)
  BY <1>3, <1>4
<1>8. y \in U
  BY <1>7
<1>9. PICK z \in U : \A u \in U : u <= z
  BY <1>3, <1>6, <1>8
<1>10. x <= z
  BY <1>7, <1>8, <1>9
<1>11. \A u \in T : u <= z
  BY <1>9, <1>10
<1> QED BY <1>3, <1>9, <1>11

-----------------------------------------------------------------------------
(* What the assumptions say of a behaviour's setup.                        *)
LEMMA SetupFacts ==
  ASSUME setup \in Setups
  PROVE  /\ setup.syncSize \in [Types -> Nat \ {0}]
         /\ setup.stamps \in Seq(SUBSET Nat) /\ Len(setup.stamps) <= MaxFrames
         /\ setup.reconfigure \in BOOLEAN /\ setup.reentrant \in BOOLEAN
         /\ NormalSize \in Nat \ {0} /\ MaxFrames \in Nat
         /\ OutputModes \subseteq {"all", "color", "any", "disable"}
         /\ Types \subseteq Nat \ {0}
BY AggregatorAssumption

(* Every queue has room for a frame.                                       *)
LEMMA LimitFacts ==
  ASSUME TypeOK
  PROVE  MaxNormal \in Nat \ {0} /\ \A t \in Types : MaxQueueSize(t) \in Nat \ {0}
<1>1. setup.syncSize \in [Types -> Nat \ {0}] /\ NormalSize \in Nat \ {0}
  BY SetupFacts DEF TypeOK
<1> QED BY <1>1 DEF MaxNormal, MaxQueueSize

(* The limits and the matching mode only change with the configuration.    *)
LEMMA SameModes ==
  ASSUME UNCHANGED <<setup, mapped, sync, outputMode>>
  PROVE  /\ MaxNormal' = MaxNormal
         /\ \A t \in Types : MaxQueueSize(t)' = MaxQueueSize(t)
         /\ Synchronous' = Synchronous /\ ByRate' = ByRate /\ ByPrecision' = ByPrecision
BY DEF MaxNormal, MaxQueueSize, Synchronous, ByRate, ByPrecision

LEMMA MappedFinite ==
  ASSUME TypeOK
  PROVE  /\ IsFiniteSet(mapped) /\ Cardinality(mapped) \in Nat
         /\ Cardinality(mapped) > 1 => mapped # {}
         /\ \A t \in mapped : ~(Cardinality(mapped) > 1) => mapped = {t}
<1>1. IsFiniteSet(mapped) /\ Cardinality(mapped) \in Nat
  BY AggregatorAssumption, FS_Subset, FS_CardinalityType DEF TypeOK
<1>2. Cardinality(mapped) > 1 => mapped # {}
  BY FS_EmptySet
<1>3. ASSUME NEW t \in mapped, ~(Cardinality(mapped) > 1) PROVE mapped = {t}
  <2>1. IsFiniteSet(mapped \ {t}) /\ Cardinality(mapped \ {t}) = Cardinality(mapped) - 1
    BY <1>1, FS_RemoveElement
  <2>2. Cardinality(mapped \ {t}) \in Nat
    BY <2>1, FS_CardinalityType
  <2>3. Cardinality(mapped \ {t}) = 0
    BY <1>1, <1>3, <2>1, <2>2
  <2> QED BY <2>1, <2>3, FS_EmptySet
<1> QED BY <1>1, <1>2, <1>3

(* The new minimum is a front that is left, when there is one, and the     *)
(* earliest unless some stamp is 0.                                        *)
LEMMA NewMinimumIsLeft ==
  ASSUME TypeOK, NEW q \in [Types -> Seq(Frames)]
  PROVE  LET left == {t \in mapped : q[t] # <<>>}
         IN /\ left # {} =>
                 /\ NewMinimum(q).type \in left
                 /\ NewMinimum(q).stamp = Head(q[NewMinimum(q).type]).stamp
                 /\ (\A t \in left : Head(q[t]).stamp # 0) =>
                       \A t \in left : NewMinimum(q).stamp <= Head(q[t]).stamp
            /\ left = {} => NewMinimum(q) = [stamp |-> 0, type |-> miniType]
            /\ NewMinimum(q).stamp \in Nat
<1> DEFINE left == {t \in mapped : q[t] # <<>>}
           stamp(t) == Head(q[t]).stamp
           since == {t \in left : \A z \in left : stamp(z) = 0 => z < t}
           Wins(t) == IF since = {} THEN \A u \in left : u <= t
                      ELSE /\ t \in since
                           /\ \A u \in since : \/ stamp(t) < stamp(u)
                                               \/ stamp(t) = stamp(u) /\ t <= u
<1>1. left \in SUBSET Nat /\ IsFiniteSet(left)
  BY MappedFinite, FS_Subset, AggregatorAssumption DEF TypeOK
<1>2. ASSUME NEW t \in left PROVE stamp(t) \in Nat
  <2>1. q[t] \in Seq(Frames) /\ q[t] # <<>>
    BY DEF TypeOK
  <2>2. Head(q[t]) \in Frames
    BY <2>1, HeadTailProperties
  <2> QED BY <2>2 DEF Frames
<1>3. ASSUME left # {} PROVE \E t \in left : Wins(t)
  <2>1. CASE since = {}
    BY <1>1, <1>3, <2>1, Greatest
  <2>2. CASE since # {}
    <3> DEFINE Stamps == {stamp(t) : t \in since}
    <3>1. PICK m \in Stamps : \A n \in Stamps : m <= n
      <4>1. Stamps \in SUBSET Nat /\ Stamps # {}
        BY <1>2, <2>2
      <4> HIDE DEF Stamps
      <4> QED BY <4>1, Least
    <3> DEFINE First == {t \in since : stamp(t) = m}
    <3>2. PICK t \in First : \A u \in First : t <= u
      BY <1>1, <3>1, Least
    <3>3. \A u \in since : stamp(t) < stamp(u) \/ (stamp(t) = stamp(u) /\ t <= u)
      <4> TAKE u \in since
      <4>1. stamp(u) \in Stamps /\ stamp(t) = m
        BY <3>2
      <4>2. stamp(u) = m => t <= u
        BY <3>2
      <4>3. m <= stamp(u) /\ stamp(u) \in Nat /\ m \in Nat
        BY <1>2, <3>1, <4>1
      <4> HIDE DEF stamp
      <4> QED BY <4>1, <4>2, <4>3
    <3> QED BY <2>2, <3>2, <3>3
  <2> QED BY <2>1, <2>2
<1> DEFINE type == CHOOSE t \in left : Wins(t)
<1>4. NewMinimum(q) = IF left = {} THEN [stamp |-> 0, type |-> miniType]
                                   ELSE [stamp |-> stamp(type), type |-> type]
  BY DEF NewMinimum
<1>5. left # {} => type \in left /\ Wins(type)
  <2>1. ASSUME NEW t \in left, Wins(t) PROVE type \in left /\ Wins(type)
    <3> HIDE DEF left, Wins
    <3> QED BY <2>1
  <2> QED BY <1>3, <2>1
<1>6. left # {} /\ (\A t \in left : stamp(t) # 0) => \A t \in left : stamp(type) <= stamp(t)
  <2> SUFFICES ASSUME left # {}, \A u \in left : stamp(u) # 0, NEW t \in left
               PROVE  stamp(type) <= stamp(t)
    OBVIOUS
  <2>1. since = left
    OBVIOUS
  <2>2. type \in left /\ (stamp(type) < stamp(t) \/ stamp(type) = stamp(t))
    <3> HIDE DEF type
    <3> QED BY <1>5, <2>1
  <2> HIDE DEF type, stamp
  <2> QED BY <1>2, <2>2
<1>7. stamp(type) = Head(q[type]).stamp
  OBVIOUS
<1> HIDE DEF left, type
<1>8. left # {} => /\ NewMinimum(q).type = type /\ NewMinimum(q).stamp = stamp(type)
                  /\ stamp(type) \in Nat
  BY <1>2, <1>4, <1>5
<1> QED BY <1>4, <1>5, <1>6, <1>7, <1>8 DEF left

-----------------------------------------------------------------------------
(* updateConfig, enableFrameSync and clearAllFrameQueue between pushes.    *)
LEMMA ConfigureStep ==
  ASSUME AggregatorInv, setup' = setup, Configure
  PROVE  AggregatorInv'
<1> USE DEF AggregatorInv, flagVars, miniVars
<1>1. /\ \A t \in Types : queue'[t] = <<>> /\ Len(queue'[t]) = 0 /\ DOMAIN queue'[t] = {}
      /\ queue' = NoFrames /\ gone' = pushed /\ pushed' = pushed /\ withOverflow' = FALSE
      /\ miniStamp' = 0 /\ pc' = "rest" /\ mapped' \subseteq Types
  <2>1. queue' = NoFrames /\ gone' = pushed /\ withOverflow' = FALSE /\ miniStamp' = 0
    BY DEF Configure, UpdateConfig, EnableFrameSync, ClearAllFrameQueue, ClearQueues
  <2>2. pushed' = pushed /\ pc' = "rest" /\ mapped' \subseteq Types
    BY DEF Configure, UpdateConfig, EnableFrameSync, ClearAllFrameQueue, MayConfigure, TypeOK
  <2> QED BY <2>1, <2>2, EmptySeq DEF NoFrames
<1>2. TypeOK'
  <2>1. queue' \in [Types -> Seq(Frames)]
    BY <1>1, EmptySeq DEF NoFrames
  <2>2. /\ sync' \in BOOLEAN /\ outputMode' \in {"all", "color", "any", "disable"}
        /\ withEmpty' = withEmpty /\ overflowType' = overflowType /\ miniType' = miniType
        /\ frameset' = frameset /\ overflowed' = overflowed /\ emptied' = emptied
    BY SetupFacts DEF Configure, UpdateConfig, EnableFrameSync, ClearAllFrameQueue,
       ClearQueues, TypeOK
  <2>3. frameset' = <<>>
    BY <2>2 DEF Configure, UpdateConfig, EnableFrameSync, ClearAllFrameQueue, MayConfigure,
       BuiltForOutput
  <2>4. DOMAIN frameset' = {} /\ Range(frameset') = {}
    BY <2>3, EmptySeq DEF Range
  <2> QED BY <1>1, <2>1, <2>2, <2>4 DEF TypeOK
<1>3. StreamsIntact'
  BY <1>1, <1>2 DEF StreamsIntact, TypeOK
<1>4. LimitsAreFlagged'
  <2>1. \A t \in Types : MaxQueueSize(t)' \in Nat \ {0}
    <3>1. setup'.syncSize \in [Types -> Nat \ {0}] /\ NormalSize \in Nat \ {0}
      BY SetupFacts DEF TypeOK
    <3> QED BY <3>1 DEF MaxQueueSize, MaxNormal
  <2> QED BY <1>1, <2>1 DEF LimitsAreFlagged
<1>5. EmptyIsFlagged' /\ OneRound' /\ MinimumIsThere' /\ BuiltForOutput'
  BY <1>1 DEF EmptyIsFlagged, OneRound, MinimumIsThere, NonEmpty, BuiltForOutput, Configure,
     UpdateConfig, EnableFrameSync, ClearAllFrameQueue, MayConfigure
<1> QED BY <1>2, <1>3, <1>4, <1>5

(* pushFrame up to its call of tryAggregator.                              *)
LEMMA PushStep ==
  ASSUME AggregatorInv, setup' = setup, NEW t \in Types, NEW stamp \in Nat, PushFrame(t, stamp)
  PROVE  AggregatorInv'
<1> USE DEF AggregatorInv, flagVars, miniVars
<1> DEFINE frame == [number |-> pushed[t] + 1, stamp |-> stamp]
           q == IF t \in mapped THEN Append(queue[t], frame) ELSE queue[t]
           over == t \in mapped /\ Full(t, Len(q))
<1>1. /\ pc = "rest" /\ pc' = "loop" /\ pushed[t] < MaxFrames
      /\ pushed' = [pushed EXCEPT ![t] = pushed[t] + 1]
      /\ queue' = [queue EXCEPT ![t] = q]
      /\ gone' = IF t \in mapped THEN gone ELSE [gone EXCEPT ![t] = pushed'[t]]
      /\ withEmpty' = \E u \in mapped \ {t} : queue[u] = <<>>
      /\ withOverflow' = (withOverflow \/ over)
      /\ overflowType' = IF over THEN t ELSE overflowType
      /\ overflowed' = (overflowed \/ over)
      /\ IF KeepsMinimum(t, stamp)
           THEN miniStamp' = miniStamp /\ miniType' = miniType
           ELSE miniStamp' = stamp /\ miniType' = t
      /\ UNCHANGED <<mapped, sync, outputMode, frameset, emptied>>
  BY DEF PushFrame
<1>2. /\ mapped \subseteq Types /\ queue \in [Types -> Seq(Frames)]
      /\ pushed \in [Types -> 0..MaxFrames] /\ gone \in [Types -> 0..MaxFrames]
      /\ MaxFrames \in Nat /\ pushed[t] \in Nat /\ \A u \in Types : gone[u] \in Nat
  <2>1. /\ mapped \subseteq Types /\ queue \in [Types -> Seq(Frames)]
        /\ pushed \in [Types -> 0..MaxFrames] /\ gone \in [Types -> 0..MaxFrames]
    BY DEF TypeOK
  <2>2. MaxFrames \in Nat
    BY SetupFacts DEF TypeOK
  <2> QED BY <2>1, <2>2
<1>3. frame \in Frames
  BY <1>1, <1>2 DEF Frames
<1>4. /\ q \in Seq(Frames)
      /\ t \in mapped => /\ Len(q) = Len(queue[t]) + 1 /\ q # <<>>
                         /\ \A i \in DOMAIN q :
                              \/ i \in DOMAIN queue[t] /\ q[i] = queue[t][i]
                              \/ i = Len(queue[t]) + 1 /\ q[i] = frame
  <2>1. queue[t] \in Seq(Frames)
    BY <1>2
  <2>2. CASE t \in mapped
    <3>1. q = Append(queue[t], frame)
      BY <2>2
    <3> HIDE DEF q, frame
    <3>2. /\ q \in Seq(Frames) /\ q # <<>> /\ Len(q) = Len(queue[t]) + 1
          /\ \A i \in 1..Len(queue[t]) : q[i] = queue[t][i]
          /\ q[Len(queue[t]) + 1] = frame
      BY <1>3, <2>1, <3>1, AppendProperties
    <3>3. DOMAIN q = 1..Len(queue[t]) + 1 /\ DOMAIN queue[t] = 1..Len(queue[t])
          /\ Len(queue[t]) \in Nat
      BY <2>1, <3>2, LenProperties
    <3>4. ASSUME NEW i \in DOMAIN q
          PROVE  \/ i \in DOMAIN queue[t] /\ q[i] = queue[t][i]
                 \/ i = Len(queue[t]) + 1 /\ q[i] = frame
      <4>1. i \in 1..Len(queue[t]) \/ i = Len(queue[t]) + 1
        BY <3>3
      <4> QED BY <3>2, <3>3, <4>1
    <3> QED BY <2>2, <3>2, <3>3, <3>4
  <2>3. CASE t \notin mapped
    BY <2>1, <2>3
  <2> QED BY <2>2, <2>3
<1>5. /\ queue'[t] = q /\ pushed'[t] = pushed[t] + 1
      /\ \A u \in Types \ {t} : /\ queue'[u] = queue[u] /\ pushed'[u] = pushed[u]
                                /\ gone'[u] = gone[u]
      /\ t \in mapped => gone'[t] = gone[t]
  BY <1>1, <1>2
<1> HIDE DEF frame, q
<1>6. TypeOK'
  <2>1. queue' \in [Types -> Seq(Frames)]
    BY <1>1, <1>2, <1>4
  <2>2. pushed' \in [Types -> 0..MaxFrames] /\ gone' \in [Types -> 0..MaxFrames]
    BY <1>1, <1>2
  <2>3. \A u \in Types \ mapped : queue'[u] = <<>>
    BY <1>2, <1>5 DEF TypeOK, q
  <2>4. /\ withEmpty' \in BOOLEAN /\ overflowType' \in Types \cup {NoType}
        /\ miniStamp' \in Nat /\ miniType' \in Types \cup {NoType}
    BY <1>1 DEF TypeOK
  <2>5. withOverflow' \in BOOLEAN /\ overflowed' \in BOOLEAN
    BY <1>1 DEF TypeOK
  <2> QED BY <1>1, <2>1, <2>2, <2>3, <2>4, <2>5 DEF TypeOK
<1>7. StreamsIntact'
  <2> SUFFICES ASSUME NEW u \in mapped
               PROVE  /\ Len(queue'[u]) = pushed'[u] - gone'[u]
                      /\ \A i \in DOMAIN queue'[u] : queue'[u][i].number = gone'[u] + i
    BY <1>1 DEF StreamsIntact
  <2>1. /\ Len(queue[u]) = pushed[u] - gone[u]
        /\ \A i \in DOMAIN queue[u] : queue[u][i].number = gone[u] + i
    BY DEF StreamsIntact
  <2>2. CASE u = t
    <3>1. frame.number = gone[t] + (Len(queue[t]) + 1)
      BY <1>2, <2>1, <2>2 DEF frame
    <3>2. Len(q) = pushed[t] + 1 - gone[t]
      BY <1>2, <1>4, <2>1, <2>2
    <3>3. queue'[u] = q /\ pushed'[u] = pushed[t] + 1 /\ gone'[u] = gone[t]
      BY <1>5, <2>2
    <3>4. \A i \in DOMAIN q : q[i].number = gone[t] + i
      BY <1>4, <2>1, <2>2, <3>1
    <3>5. Len(queue'[u]) = pushed'[u] - gone'[u]
      BY <1>2, <3>2, <3>3
    <3>6. \A i \in DOMAIN queue'[u] : queue'[u][i].number = gone'[u] + i
      BY <3>3, <3>4
    <3> QED BY <3>5, <3>6
  <2>3. CASE u # t
    BY <1>2, <1>5, <2>1, <2>3
  <2> QED BY <2>2, <2>3
<1>8. withOverflow = FALSE /\ \A u \in mapped : Len(queue[u]) < MaxQueueSize(u)
  BY <1>1 DEF LimitsAreFlagged, TypeOK
<1>9. /\ \A u \in Types : MaxQueueSize(u)' = MaxQueueSize(u) /\ MaxQueueSize(u) \in Nat \ {0}
      /\ Synchronous' = Synchronous /\ ByRate' = ByRate /\ ByPrecision' = ByPrecision
  BY <1>1, SameModes, LimitFacts
<1>10. LimitsAreFlagged'
  <2>1. t \in mapped => Len(q) = Len(queue[t]) + 1 /\ Len(queue[t]) \in Nat
    BY <1>2, <1>4
  <2>2. over => Len(q) = MaxQueueSize(t)
    BY <1>8, <1>9, <2>1 DEF Full
  <2>3. t \in mapped /\ ~over => Len(q) < MaxQueueSize(t)
    BY <1>9, <2>1 DEF Full
  <2> HIDE DEF over
  <2>4. \A u \in mapped' : \/ Len(queue'[u]) < MaxQueueSize(u)'
                           \/ withOverflow' /\ overflowType' = u
    BY <1>1, <1>2, <1>5, <1>8, <1>9, <2>3
  <2>5. withOverflow' => over
    BY <1>1, <1>8
  <2>6. over => t \in mapped
    BY DEF over
  <2> QED BY <1>1, <1>2, <1>5, <1>9, <2>2, <2>4, <2>5, <2>6 DEF LimitsAreFlagged
<1>11. mapped # {} => \E u \in mapped : queue[u] = <<>>
  BY <1>1 DEF EmptyIsFlagged, NonEmpty
<1>12. withEmpty' = FALSE /\ mapped # {} => t \in mapped /\ queue[t] = <<>>
  BY <1>1, <1>11
<1>13. EmptyIsFlagged'
  <2>1. t \in mapped => queue'[t] # <<>>
    BY <1>4, <1>5
  <2>2. withEmpty' => \E u \in mapped : queue'[u] = <<>>
    BY <1>1, <1>2, <1>5
  <2>3. ~withEmpty' /\ mapped # {} => \A u \in mapped : queue'[u] # <<>>
    BY <1>1, <1>2, <1>5, <1>12, <2>1
  <2> QED BY <1>1, <2>2, <2>3 DEF EmptyIsFlagged, NonEmpty
<1>14. OneRound'
  <2>1. ~withEmpty' /\ mapped # {} => t \in mapped /\ Len(queue'[t]) <= 1
    BY <1>4, <1>5, <1>6, <1>12, EmptySeq, SMTT(30) DEF TypeOK
  <2>2. withOverflow' /\ withEmpty' /\ ~Synchronous => ~sync
    <3>1. withOverflow' => t \in mapped
      BY <1>1, <1>8
    <3>2. withEmpty' => mapped # {t}
      BY <1>1
    <3> QED BY <3>1, <3>2, MappedFinite DEF Synchronous
  <2> QED BY <1>1, <1>9, <2>1, <2>2 DEF OneRound
<1>15. MinimumIsThere'
  <2> SUFFICES ASSUME ByPrecision
               PROVE  (miniStamp' # 0 => miniType' \in NonEmpty')
                      /\ (LoopAgain' => miniType' \in NonEmpty')
    BY <1>9 DEF MinimumIsThere
  <2>1. \A u \in NonEmpty : u \in NonEmpty'
    BY <1>1, <1>2, <1>4, <1>5 DEF NonEmpty
  <2>2. mapped # {}
    BY MappedFinite DEF ByPrecision, Synchronous
  <2>3. t \in mapped => t \in NonEmpty'
    BY <1>1, <1>4, <1>5 DEF NonEmpty
  <2>4. CASE KeepsMinimum(t, stamp)
    <3>1. miniStamp' = miniStamp /\ miniType' = miniType
      BY <1>1, <2>4
    <3>2. miniStamp # 0 => miniType' \in NonEmpty'
      BY <2>1, <3>1 DEF MinimumIsThere
    <3>3. t \in mapped => miniStamp # 0
      BY <2>4 DEF KeepsMinimum
    <3>4. t \notin mapped => withEmpty' /\ ~withOverflow'
      BY <1>1, <1>8, <1>12, <2>2
    <3> QED BY <3>1, <3>2, <3>3, <3>4 DEF LoopAgain
  <2>5. CASE ~KeepsMinimum(t, stamp)
    BY <1>1, <2>3, <2>5 DEF KeepsMinimum
  <2> QED BY <2>4, <2>5
<1>16. BuiltForOutput'
  BY <1>1 DEF BuiltForOutput
<1> QED BY <1>6, <1>7, <1>10, <1>13, <1>14, <1>15, <1>16

-----------------------------------------------------------------------------
(* The front frames of some queues that have one leave for the frameset.   *)
LEMMA CutFacts ==
  ASSUME TypeOK, StreamsIntact, NEW matched \in SUBSET NonEmpty, Cut(matched)
  PROVE  /\ matched \subseteq mapped /\ mapped \subseteq Types
         /\ queue' \in [Types -> Seq(Frames)]
         /\ \A t \in Types \ matched : queue'[t] = queue[t] /\ gone'[t] = gone[t]
         /\ \A t \in matched :
              /\ Len(queue[t]) \in Nat \ {0} /\ Len(queue'[t]) = Len(queue[t]) - 1
              /\ \A i \in DOMAIN queue'[t] :
                   i + 1 \in DOMAIN queue[t] /\ queue'[t][i] = queue[t][i + 1]
              /\ gone'[t] = gone[t] + 1
         /\ gone' \in [Types -> 0..MaxFrames]
         /\ DOMAIN frameset' = matched /\ Range(frameset') \subseteq Frames
         /\ pc' = "output"
         /\ UNCHANGED <<mapped, sync, outputMode, overflowType, pushed, overflowed, emptied>>
<1>1. /\ matched \subseteq mapped /\ mapped \subseteq Types /\ queue \in [Types -> Seq(Frames)]
      /\ gone \in [Types -> 0..MaxFrames] /\ \A t \in matched : queue[t] # <<>>
  BY DEF TypeOK, NonEmpty
<1>2. /\ queue' = [t \in Types |-> IF t \in matched THEN Tail(queue[t]) ELSE queue[t]]
      /\ gone' = [t \in Types |-> IF t \in matched THEN Head(queue[t]).number ELSE gone[t]]
      /\ frameset' = [t \in matched |-> Head(queue[t])]
      /\ pc' = "output"
      /\ UNCHANGED <<mapped, sync, outputMode, overflowType, pushed, overflowed, emptied>>
  BY DEF Cut, Popped
<1>3. ASSUME NEW t \in matched
      PROVE  /\ Head(queue[t]) \in Frames /\ Head(queue[t]) = queue[t][1]
             /\ Tail(queue[t]) \in Seq(Frames)
             /\ Len(queue[t]) \in Nat \ {0} /\ Len(Tail(queue[t])) = Len(queue[t]) - 1
             /\ \A i \in DOMAIN Tail(queue[t]) :
                  i + 1 \in DOMAIN queue[t] /\ Tail(queue[t])[i] = queue[t][i + 1]
             /\ 1 \in DOMAIN queue[t]
  <2>1. queue[t] \in Seq(Frames) /\ queue[t] # <<>>
    BY <1>1
  <2> DEFINE q == queue[t]
  <2> HIDE DEF q
  <2>2. q \in Seq(Frames) /\ q # <<>>
    BY <2>1 DEF q
  <2>3. /\ Head(q) \in Frames /\ Tail(q) \in Seq(Frames) /\ Len(Tail(q)) = Len(q) - 1
        /\ Len(q) \in Nat \ {0} /\ DOMAIN q = 1..Len(q) /\ Head(q) = q[1]
        /\ DOMAIN Tail(q) = 1..Len(q) - 1
    BY <2>2, HeadTailProperties, EmptySeq, LenProperties
  <2>4. \A i \in DOMAIN Tail(q) : i + 1 \in DOMAIN q /\ Tail(q)[i] = q[i + 1]
    BY <2>2, <2>3, HeadTailProperties
  <2>5. 1 \in DOMAIN q
    BY <2>3
  <2> QED BY <2>3, <2>4, <2>5 DEF q
<1>4. ASSUME NEW t \in matched PROVE gone'[t] = gone[t] + 1 /\ gone'[t] \in 0..MaxFrames
  <2>1. gone'[t] = queue[t][1].number /\ queue[t][1] \in Frames
    BY <1>1, <1>2, <1>3
  <2>2. queue[t][1].number = gone[t] + 1
    BY <1>1, <1>3 DEF StreamsIntact
  <2>3. MaxFrames \in Nat
    BY SetupFacts DEF TypeOK
  <2> QED BY <2>1, <2>2, <2>3 DEF Frames
<1>5. queue' \in [Types -> Seq(Frames)]
  BY <1>1, <1>2, <1>3
<1>6. gone' \in [Types -> 0..MaxFrames]
  <2>1. \A t \in Types : gone'[t] \in 0..MaxFrames
    BY <1>1, <1>2, <1>4
  <2> QED BY <1>2, <2>1
<1>7. DOMAIN frameset' = matched /\ Range(frameset') \subseteq Frames
  BY <1>2, <1>3 DEF Range
<1>8. \A t \in matched : queue'[t] = Tail(queue[t])
  BY <1>1, <1>2
<1>9. \A t \in Types \ matched : queue'[t] = queue[t] /\ gone'[t] = gone[t]
  BY <1>2
<1>10. ASSUME NEW t \in matched
       PROVE  /\ Len(queue[t]) \in Nat \ {0} /\ Len(queue'[t]) = Len(queue[t]) - 1
              /\ \A i \in DOMAIN queue'[t] :
                   i + 1 \in DOMAIN queue[t] /\ queue'[t][i] = queue[t][i + 1]
              /\ gone'[t] = gone[t] + 1
  <2>1. queue'[t] = Tail(queue[t]) /\ gone'[t] = gone[t] + 1
    BY <1>4, <1>8
  <2>2. /\ Len(queue[t]) \in Nat \ {0} /\ Len(Tail(queue[t])) = Len(queue[t]) - 1
        /\ \A i \in DOMAIN Tail(queue[t]) :
             i + 1 \in DOMAIN queue[t] /\ Tail(queue[t])[i] = queue[t][i + 1]
    BY <1>3
  <2> QED BY <2>1, <2>2
<1> QED BY <1>1, <1>2, <1>5, <1>6, <1>7, <1>9, <1>10

(* What a round does to the flags, in each of the three branches.          *)
LEMMA MatchFacts ==
  ASSUME AggregatorInv, MatchByRate \/ MatchByPrecision \/ MatchAsync
  PROVE  \E matched \in SUBSET NonEmpty :
           /\ Cut(matched) /\ pc = "loop" /\ LoopAgain
           /\ Synchronous =>
                /\ withOverflow' = (withOverflow /\ overflowType \notin matched)
                /\ withEmpty' <=> withEmpty \/ \E t \in mapped : queue'[t] = <<>>
           /\ ~Synchronous =>
                /\ withEmpty' = TRUE /\ withOverflow' = FALSE
                /\ \A t \in mapped : ~withEmpty \/ Len(queue[t]) >= MaxNormal => t \in matched
           /\ IF ByPrecision
                THEN /\ miniStamp' = NewMinimum(queue').stamp
                     /\ miniType' = NewMinimum(queue').type
                ELSE miniStamp' = miniStamp /\ miniType' = miniType
<1> USE DEF AggregatorInv
<1>1. CASE MatchByRate
  <2>1. PICK s \in SortedFronts :
          /\ Cut(Chain(s))
          /\ withOverflow' = (withOverflow /\ overflowType \notin Chain(s))
          /\ withEmpty' = (withEmpty \/ \E t \in Chain(s) : queue'[t] = <<>>)
    BY <1>1 DEF MatchByRate
  <2>2. /\ pc = "loop" /\ LoopAgain /\ Synchronous /\ ~ByPrecision /\ mapped # {}
        /\ miniStamp' = miniStamp /\ miniType' = miniType
    BY <1>1 DEF MatchByRate, ByRate, ByPrecision, NonEmpty, miniVars
  <2>3. Chain(s) \in SUBSET NonEmpty
    BY DEF Chain, SortedFronts
  <2>4. /\ Chain(s) \subseteq mapped
        /\ \A t \in mapped \ Chain(s) : queue'[t] = queue[t]
    BY <2>1, <2>3, CutFacts
  <2>5. ~withEmpty => \A t \in mapped : queue[t] # <<>>
    BY <2>2 DEF EmptyIsFlagged, NonEmpty
  <2>6. withEmpty' <=> withEmpty \/ \E t \in mapped : queue'[t] = <<>>
    BY <2>1, <2>4, <2>5
  <2> QED BY <2>1, <2>2, <2>3, <2>6
<1>2. CASE MatchByPrecision
  <2> DEFINE matched == {t \in NonEmpty : Within(FrontStamp(t), FrontStamp(miniType),
                                                 MinGap(t, miniType))}
  <2>1. /\ Cut(matched) /\ pc = "loop" /\ LoopAgain /\ Synchronous /\ ByPrecision
        /\ withOverflow' = (withOverflow /\ overflowType \notin matched)
        /\ withEmpty' = (withEmpty \/ \E t \in mapped : queue'[t] = <<>>)
        /\ miniStamp' = NewMinimum(queue').stamp /\ miniType' = NewMinimum(queue').type
    BY <1>2 DEF MatchByPrecision, ByPrecision
  <2>2. matched \in SUBSET NonEmpty
    OBVIOUS
  <2> HIDE DEF matched
  <2> QED BY <2>1, <2>2
<1>3. CASE MatchAsync
  <2> DEFINE matched == {t \in mapped : ~withEmpty \/ Len(queue[t]) >= MaxNormal}
  <2>1. /\ Cut(matched) /\ pc = "loop" /\ LoopAgain /\ ~Synchronous /\ ~ByPrecision
        /\ withEmpty' = TRUE /\ withOverflow' = FALSE
        /\ miniStamp' = miniStamp /\ miniType' = miniType
        /\ ~withEmpty => NonEmpty = mapped
    BY <1>3 DEF MatchAsync, ByPrecision, miniVars
  <2>2. MaxNormal \in Nat \ {0} /\ Len(<<>>) = 0
    BY LimitFacts, EmptySeq
  <2>3. matched \in SUBSET NonEmpty
    BY <2>1, <2>2 DEF NonEmpty
  <2>4. \A t \in mapped : ~withEmpty \/ Len(queue[t]) >= MaxNormal => t \in matched
    OBVIOUS
  <2> HIDE DEF matched
  <2> QED BY <2>1, <2>3, <2>4
<1> QED BY <1>1, <1>2, <1>3

(* One round of the loop.                                                  *)
LEMMA MatchStep ==
  ASSUME AggregatorInv, setup' = setup, MatchByRate \/ MatchByPrecision \/ MatchAsync
  PROVE  AggregatorInv'
<1> USE DEF AggregatorInv
<1>1. PICK matched \in SUBSET NonEmpty :
           /\ Cut(matched) /\ pc = "loop" /\ LoopAgain
           /\ Synchronous =>
                /\ withOverflow' = (withOverflow /\ overflowType \notin matched)
                /\ withEmpty' <=> withEmpty \/ \E t \in mapped : queue'[t] = <<>>
           /\ ~Synchronous =>
                /\ withEmpty' = TRUE /\ withOverflow' = FALSE
                /\ \A t \in mapped : ~withEmpty \/ Len(queue[t]) >= MaxNormal => t \in matched
           /\ IF ByPrecision
                THEN /\ miniStamp' = NewMinimum(queue').stamp
                     /\ miniType' = NewMinimum(queue').type
                ELSE miniStamp' = miniStamp /\ miniType' = miniType
  BY MatchFacts
<1>2. /\ matched \subseteq mapped /\ mapped \subseteq Types
      /\ queue' \in [Types -> Seq(Frames)]
      /\ \A t \in Types \ matched : queue'[t] = queue[t] /\ gone'[t] = gone[t]
      /\ \A t \in matched :
           /\ Len(queue[t]) \in Nat \ {0} /\ Len(queue'[t]) = Len(queue[t]) - 1
           /\ \A i \in DOMAIN queue'[t] :
                i + 1 \in DOMAIN queue[t] /\ queue'[t][i] = queue[t][i + 1]
           /\ gone'[t] = gone[t] + 1
      /\ gone' \in [Types -> 0..MaxFrames]
      /\ DOMAIN frameset' = matched /\ Range(frameset') \subseteq Frames
      /\ pc' = "output"
      /\ UNCHANGED <<mapped, sync, outputMode, overflowType, pushed, overflowed, emptied>>
  BY <1>1, CutFacts
<1>3. /\ \A t \in Types : MaxQueueSize(t)' = MaxQueueSize(t) /\ MaxQueueSize(t) \in Nat \ {0}
      /\ MaxNormal \in Nat \ {0}
      /\ Synchronous' = Synchronous /\ ByRate' = ByRate /\ ByPrecision' = ByPrecision
  BY <1>2, SameModes, LimitFacts
<1>4. /\ \A t \in Types : /\ Len(queue[t]) \in Nat /\ Len(queue'[t]) \in Nat
                          /\ Len(queue'[t]) <= Len(queue[t])
      /\ \A t \in Types : queue[t] = <<>> <=> Len(queue[t]) = 0
      /\ \A t \in Types : queue'[t] = <<>> <=> Len(queue'[t]) = 0
  <2>1. queue \in [Types -> Seq(Frames)]
    BY DEF TypeOK
  <2>2. \A t \in Types : queue[t] \in Seq(Frames) /\ queue'[t] \in Seq(Frames)
    BY <1>2, <2>1
  <2>3. \A t \in Types : Len(queue[t]) \in Nat /\ Len(queue'[t]) \in Nat
    BY <2>2, LenProperties
  <2>4. \A t \in Types : Len(queue'[t]) <= Len(queue[t])
    BY <1>2, <2>3
  <2> QED BY <2>2, <2>3, <2>4, EmptySeq
<1>5. TypeOK'
  <2>1. miniStamp' \in Nat /\ miniType' \in Types \cup {NoType}
    <3>1. CASE ByPrecision
      <4>1. NewMinimum(queue').stamp \in Nat
        BY <1>2, NewMinimumIsLeft
      <4>2. NewMinimum(queue').type \in mapped \/ NewMinimum(queue').type = miniType
        BY <1>2, NewMinimumIsLeft
      <4> QED BY <1>1, <1>2, <3>1, <4>1, <4>2 DEF TypeOK
    <3>2. CASE ~ByPrecision
      BY <1>1, <3>2 DEF TypeOK
    <3> QED BY <3>1, <3>2
  <2>2. withEmpty' \in BOOLEAN
    BY DEF MatchByRate, MatchByPrecision, MatchAsync, TypeOK
  <2>3. withOverflow' \in BOOLEAN
    BY <1>1 DEF TypeOK
  <2>4. \A t \in Types \ mapped : queue'[t] = <<>>
    BY <1>2 DEF TypeOK
  <2> QED BY <1>2, <2>1, <2>2, <2>3, <2>4 DEF TypeOK
<1>6. StreamsIntact'
  <2> SUFFICES ASSUME NEW t \in mapped
               PROVE  /\ Len(queue'[t]) = pushed[t] - gone'[t]
                      /\ \A i \in DOMAIN queue'[t] : queue'[t][i].number = gone'[t] + i
    BY <1>2 DEF StreamsIntact
  <2>1. /\ Len(queue[t]) = pushed[t] - gone[t] /\ pushed[t] \in Nat /\ gone[t] \in Nat
        /\ \A i \in DOMAIN queue[t] : queue[t][i].number = gone[t] + i
    <3>1. pushed \in [Types -> 0..MaxFrames] /\ gone \in [Types -> 0..MaxFrames]
      BY DEF TypeOK
    <3> QED BY <1>2, <3>1 DEF StreamsIntact
  <2>2. CASE t \in matched
    <3>1. Len(queue'[t]) = pushed[t] - gone'[t]
      BY <1>2, <2>1, <2>2
    <3>2. ASSUME NEW i \in DOMAIN queue'[t] PROVE queue'[t][i].number = gone'[t] + i
      <4>1. DOMAIN queue'[t] = 1..Len(queue'[t])
        BY <1>2, LenProperties
      <4>2. i \in Nat
        BY <1>4, <4>1
      <4>3. queue'[t][i].number = gone[t] + (i + 1)
        BY <1>2, <2>1, <2>2
      <4>4. gone'[t] = gone[t] + 1
        BY <1>2, <2>2
      <4> DEFINE g == gone[t]
      <4>5. g \in Nat
        BY <2>1
      <4> HIDE DEF g
      <4>6. g + (i + 1) = (g + 1) + i
        BY <4>2, <4>5
      <4> QED BY <4>3, <4>4, <4>6 DEF g
    <3> QED BY <3>1, <3>2
  <2>3. CASE t \notin matched
    BY <1>2, <2>1, <2>3
  <2> QED BY <2>2, <2>3
<1>7. LimitsAreFlagged'
  <2>1. \A t \in mapped : t \in matched => Len(queue'[t]) < MaxQueueSize(t)
    <3> SUFFICES ASSUME NEW t \in matched PROVE Len(queue'[t]) < MaxQueueSize(t)
      OBVIOUS
    <3>1. Len(queue[t]) <= MaxQueueSize(t)
      BY <1>2, <1>3, <1>4 DEF LimitsAreFlagged
    <3> QED BY <1>2, <1>3, <3>1
  <2>2. CASE Synchronous
    <3>1. withOverflow' = (withOverflow /\ overflowType \notin matched)
      BY <1>1, <2>2
    <3>2. \A t \in mapped \ matched :
            Len(queue'[t]) < MaxQueueSize(t) \/ (withOverflow' /\ overflowType' = t)
      BY <1>2, <3>1 DEF LimitsAreFlagged
    <3>3. withOverflow' => /\ overflowType \in mapped
                           /\ Len(queue'[overflowType]) = MaxQueueSize(overflowType)
      BY <1>2, <3>1 DEF LimitsAreFlagged
    <3> QED BY <1>2, <1>3, <2>1, <3>2, <3>3 DEF LimitsAreFlagged
  <2>3. CASE ~Synchronous
    <3>1. /\ withOverflow' = FALSE
          /\ \A t \in mapped : ~withEmpty \/ Len(queue[t]) >= MaxNormal => t \in matched
      BY <1>1, <2>3
    <3>2. ASSUME NEW t \in mapped, t \notin matched PROVE Len(queue[t]) < MaxQueueSize(t)
      <4>1. withEmpty /\ Len(queue[t]) < MaxNormal
        BY <1>2, <1>3, <1>4, <3>1, <3>2
      <4>2. withOverflow => MaxQueueSize(t) = MaxNormal
        <5>1. withOverflow => ~sync
          BY <2>3, <4>1 DEF OneRound
        <5> QED BY <5>1 DEF MaxQueueSize, MaxNormal
      <4> QED BY <4>1, <4>2 DEF LimitsAreFlagged
    <3>3. \A t \in mapped : Len(queue'[t]) < MaxQueueSize(t)
      BY <1>2, <2>1, <3>2
    <3> QED BY <1>2, <1>3, <3>1, <3>3 DEF LimitsAreFlagged
  <2> QED BY <2>2, <2>3
<1>8. mapped # {} /\ withEmpty => \E t \in mapped : queue[t] = <<>>
  BY DEF EmptyIsFlagged, NonEmpty
<1>9. EmptyIsFlagged'
  <2> SUFFICES ASSUME mapped # {}
               PROVE  /\ withEmpty' => \E t \in mapped : queue'[t] = <<>>
                      /\ ~withEmpty' => \A t \in mapped : queue'[t] # <<>>
    BY <1>2 DEF EmptyIsFlagged, NonEmpty
  <2>1. \A t \in mapped : queue[t] = <<>> => queue'[t] = <<>>
    BY <1>2, <1>4
  <2>2. CASE Synchronous
    BY <1>1, <1>8, <2>1, <2>2
  <2>3. CASE ~Synchronous
    <3>1. withEmpty' = TRUE
      BY <1>1, <2>3
    <3>2. CASE withEmpty
      BY <1>8, <2>1, <3>1, <3>2
    <3>3. CASE ~withEmpty
      <4>1. PICK t \in mapped : Len(queue[t]) <= 1
        BY <1>1, <2>3, <3>3 DEF OneRound
      <4>2. t \in matched
        BY <1>1, <2>3, <3>3
      <4>3. Len(queue'[t]) = 0
        BY <1>2, <4>1, <4>2
      <4> QED BY <1>2, <1>4, <3>1, <4>3
    <3> QED BY <3>2, <3>3
  <2> QED BY <2>2, <2>3
<1>10. OneRound'
  BY <1>1, <1>2, <1>3 DEF OneRound
<1>11. MinimumIsThere'
  <2> SUFFICES ASSUME ByPrecision
               PROVE  (miniStamp' # 0 => miniType' \in NonEmpty')
                      /\ (LoopAgain' => miniType' \in NonEmpty')
    BY <1>3 DEF MinimumIsThere
  <2>1. Synchronous /\ mapped # {}
    BY MappedFinite DEF ByPrecision, Synchronous
  <2>2. NonEmpty' = {t \in mapped : queue'[t] # <<>>}
    BY <1>2 DEF NonEmpty
  <2>3. NonEmpty' # {} => miniType' \in NonEmpty'
    BY <1>1, <1>2, <2>2, NewMinimumIsLeft
  <2>4. NonEmpty' = {} => miniStamp' = 0
    BY <1>1, <1>2, <2>2, NewMinimumIsLeft
  <2>5. LoopAgain' => NonEmpty' # {}
    <3>1. ~withEmpty' => NonEmpty' # {}
      BY <1>1, <2>1, <2>2
    <3>2. withOverflow' => overflowType \in mapped /\ queue'[overflowType] # <<>>
      BY <1>1, <1>2, <1>3, <1>4, <2>1, ZenonT(30) DEF LimitsAreFlagged
    <3> QED BY <2>2, <3>1, <3>2 DEF LoopAgain
  <2> QED BY <2>3, <2>4, <2>5
<1>12. BuiltForOutput'
  BY <1>2 DEF BuiltForOutput
<1> QED BY <1>5, <1>6, <1>7, <1>9, <1>10, <1>11, <1>12

(* outputFrameset: the callback returns, having done nothing to the        *)
(* aggregator or having changed the synchronisation.                       *)
LEMMA OutputStep ==
  ASSUME AggregatorInv, setup' = setup, OutputFrameset
  PROVE  AggregatorInv'
<1> USE DEF AggregatorInv, flagVars, miniVars
<1>1. /\ pc = "output" /\ pc' = "loop" /\ frameset' = <<>>
      /\ UNCHANGED <<mapped, outputMode, pushed, overflowed>>
      /\ \/ UNCHANGED <<queue, sync, flagVars, miniVars, gone, emptied>>
         \/ sync' = ~sync /\ ClearQueues /\ emptied' = (emptied \/ ~withEmpty)
  BY DEF OutputFrameset
<1>2. BuiltForOutput' /\ DOMAIN frameset' = {} /\ Range(frameset') = {}
  BY <1>1, EmptySeq DEF BuiltForOutput, Range
<1>3. CASE UNCHANGED <<queue, sync, flagVars, miniVars, gone, emptied>>
  <2>1. /\ \A t \in Types : MaxQueueSize(t)' = MaxQueueSize(t)
        /\ Synchronous' = Synchronous /\ ByPrecision' = ByPrecision
        /\ NonEmpty' = NonEmpty /\ LoopAgain' = LoopAgain
    BY <1>1, <1>3, SameModes DEF NonEmpty, LoopAgain
  <2>2. TypeOK'
    BY <1>1, <1>2, <1>3 DEF TypeOK
  <2>3. StreamsIntact'
    BY <1>1, <1>3 DEF StreamsIntact
  <2>4. LimitsAreFlagged'
    BY <1>1, <1>3, <2>1 DEF LimitsAreFlagged, TypeOK
  <2>5. EmptyIsFlagged' /\ MinimumIsThere'
    BY <1>1, <1>3, <2>1 DEF EmptyIsFlagged, MinimumIsThere
  <2>6. OneRound'
    BY <1>1, <1>3, <2>1 DEF OneRound
  <2> QED BY <1>2, <2>2, <2>3, <2>4, <2>5, <2>6
<1>4. CASE sync' = ~sync /\ ClearQueues /\ emptied' = (emptied \/ ~withEmpty)
  <2>1. /\ queue' = NoFrames /\ gone' = pushed /\ withOverflow' = FALSE /\ miniStamp' = 0
        /\ withEmpty' = withEmpty /\ overflowType' = overflowType /\ miniType' = miniType
    BY <1>4 DEF ClearQueues
  <2>2. \A t \in Types : queue'[t] = <<>> /\ Len(queue'[t]) = 0 /\ DOMAIN queue'[t] = {}
    BY <2>1, EmptySeq DEF NoFrames
  <2>3. mapped' = mapped /\ mapped \subseteq Types /\ NonEmpty' = {}
    BY <1>1, <2>2 DEF TypeOK, NonEmpty
  <2>4. TypeOK'
    <3>1. queue' \in [Types -> Seq(Frames)]
      BY <2>1, EmptySeq DEF NoFrames
    <3>2. sync' \in BOOLEAN /\ emptied' \in BOOLEAN
      BY <1>4
    <3> QED BY <1>1, <1>2, <2>1, <2>2, <3>1, <3>2 DEF TypeOK
  <2>5. StreamsIntact'
    BY <1>1, <2>1, <2>2, <2>3 DEF StreamsIntact, TypeOK
  <2>6. LimitsAreFlagged'
    <3>1. setup'.syncSize \in [Types -> Nat \ {0}] /\ NormalSize \in Nat \ {0}
      BY SetupFacts DEF TypeOK
    <3>2. \A t \in Types : MaxQueueSize(t)' \in Nat \ {0}
      BY <3>1 DEF MaxQueueSize, MaxNormal
    <3> QED BY <2>1, <2>2, <2>3, <3>2 DEF LimitsAreFlagged
  <2>7. /\ ~withEmpty => Synchronous /\ ~Synchronous'
        /\ Synchronous' => withEmpty /\ ~LoopAgain'
    <3>1. Synchronous => sync
      BY DEF Synchronous
    <3>2. Synchronous' => sync'
      BY DEF Synchronous
    <3>3. ~Synchronous => withEmpty
      BY <1>1 DEF OneRound
    <3> QED BY <1>4, <2>1, <3>1, <3>2, <3>3 DEF LoopAgain
  <2>8. EmptyIsFlagged'
    BY <1>1, <1>4, <2>1, <2>3, <2>7 DEF EmptyIsFlagged
  <2>9. OneRound'
    <3>1. mapped # {} => \E t \in mapped : Len(queue'[t]) <= 1
      BY <2>2, <2>3
    <3> QED BY <1>1, <2>1, <2>3, <3>1 DEF OneRound
  <2>10. MinimumIsThere'
    BY <2>1, <2>7 DEF MinimumIsThere, ByPrecision
  <2> QED BY <1>2, <2>4, <2>5, <2>6, <2>8, <2>9, <2>10
<1> QED BY <1>1, <1>3, <1>4

(* The end of tryAggregator.                                               *)
LEMMA LoopEndStep ==
  ASSUME AggregatorInv, setup' = setup, LoopEnd
  PROVE  AggregatorInv'
<1> USE DEF AggregatorInv, flagVars, miniVars
<1>1. /\ pc = "loop" /\ withEmpty /\ ~withOverflow /\ pc' = "rest"
      /\ UNCHANGED <<mapped, queue, sync, outputMode, flagVars, miniVars, frameset, pushed,
                     gone, overflowed, emptied>>
  BY DEF LoopEnd, LoopAgain, TypeOK
<1>2. /\ \A t \in Types : MaxQueueSize(t)' = MaxQueueSize(t)
      /\ Synchronous' = Synchronous /\ ByPrecision' = ByPrecision /\ NonEmpty' = NonEmpty
  BY <1>1, SameModes DEF NonEmpty
<1>3. TypeOK' /\ StreamsIntact' /\ BuiltForOutput'
  BY <1>1 DEF TypeOK, StreamsIntact, BuiltForOutput
<1>4. LimitsAreFlagged'
  BY <1>1, <1>2 DEF LimitsAreFlagged, TypeOK
<1>5. EmptyIsFlagged' /\ MinimumIsThere' /\ OneRound'
  BY <1>1, <1>2 DEF EmptyIsFlagged, MinimumIsThere, OneRound
<1> QED BY <1>3, <1>4, <1>5

LEMMA StutterStep ==
  ASSUME AggregatorInv, UNCHANGED vars
  PROVE  AggregatorInv'
<1> USE DEF AggregatorInv
<1>1. /\ UNCHANGED <<setup, mapped, queue, sync, outputMode, withEmpty, withOverflow>>
      /\ UNCHANGED <<overflowType, miniStamp, miniType, pc, frameset, pushed, gone, emptied>>
  BY DEF vars, flagVars, miniVars
<1>2. /\ \A t \in Types : MaxQueueSize(t)' = MaxQueueSize(t)
      /\ Synchronous' = Synchronous /\ ByPrecision' = ByPrecision /\ NonEmpty' = NonEmpty
      /\ LoopAgain' = LoopAgain
  BY <1>1, SameModes DEF NonEmpty, LoopAgain
<1>3. TypeOK' /\ StreamsIntact' /\ BuiltForOutput'
  <2>1. overflowed' = overflowed /\ Range(frameset') = Range(frameset)
    BY DEF vars, Range
  <2>2. TypeOK'
    BY <1>1, <2>1 DEF TypeOK
  <2> QED BY <1>1, <2>2 DEF StreamsIntact, BuiltForOutput
<1>4. LimitsAreFlagged'
  BY <1>1, <1>2 DEF LimitsAreFlagged, TypeOK
<1>5. EmptyIsFlagged' /\ MinimumIsThere' /\ OneRound'
  BY <1>1, <1>2 DEF EmptyIsFlagged, MinimumIsThere, OneRound
<1> QED BY <1>3, <1>4, <1>5

-----------------------------------------------------------------------------
LEMMA InitInv ==
  ASSUME Init
  PROVE  AggregatorInv
<1> USE DEF Init
<1>1. \A t \in Types : queue[t] = <<>> /\ Len(queue[t]) = 0 /\ DOMAIN queue[t] = {}
  BY EmptySeq DEF NoFrames
<1>2. TypeOK
  <2>1. queue \in [Types -> Seq(Frames)]
    BY EmptySeq DEF NoFrames
  <2>2. DOMAIN frameset = {} /\ Range(frameset) = {}
    BY EmptySeq DEF Range
  <2>3. MaxFrames \in Nat
    BY AggregatorAssumption
  <2>4. pushed \in [Types -> 0..MaxFrames] /\ gone \in [Types -> 0..MaxFrames]
    BY <2>3
  <2>5. mapped \subseteq Types /\ miniStamp \in Nat
    OBVIOUS
  <2> QED BY <1>1, <2>1, <2>2, <2>4, <2>5 DEF TypeOK
<1>3. /\ StreamsIntact /\ LimitsAreFlagged /\ EmptyIsFlagged /\ OneRound /\ MinimumIsThere
      /\ BuiltForOutput
  BY DEF StreamsIntact, LimitsAreFlagged, EmptyIsFlagged, OneRound, MinimumIsThere,
     BuiltForOutput, ByPrecision, Synchronous
<1> QED BY <1>2, <1>3 DEF AggregatorInv

(* Whatever is pushed and configured, also from inside the callback, the   *)
(* aggregator stays within its invariant.                                  *)
THEOREM AggregatorInvHolds == Spec => []AggregatorInv
<1>1. Init => AggregatorInv
  BY InitInv
<1>2. AggregatorInv /\ [Next]_vars => AggregatorInv'
  <2> SUFFICES ASSUME AggregatorInv, [Next]_vars PROVE AggregatorInv'
    OBVIOUS
  <2>1. CASE setup' = setup /\ Configure
    BY <2>1, ConfigureStep
  <2>2. CASE setup' = setup /\ Push
    <3>1. PICK t \in Types : /\ pushed[t] < Len(setup.stamps)
                             /\ \E stamp \in setup.stamps[pushed[t] + 1] : PushFrame(t, stamp)
      BY <2>2 DEF Push
    <3>2. setup.stamps \in Seq(SUBSET Nat) /\ pushed[t] \in Nat
      <4>1. pushed \in [Types -> 0..MaxFrames] /\ MaxFrames \in Nat
        BY SetupFacts DEF AggregatorInv, TypeOK
      <4> QED BY <4>1, SetupFacts DEF AggregatorInv, TypeOK
    <3>3. setup.stamps[pushed[t] + 1] \subseteq Nat
      BY <3>1, <3>2
    <3> QED BY <2>2, <3>1, <3>3, PushStep
  <2>3. CASE setup' = setup /\ Aggregate
    BY <2>3, LoopEndStep, MatchStep, OutputStep DEF Aggregate
  <2>4. CASE UNCHANGED vars
    BY <2>4, StutterStep
  <2> QED BY <2>1, <2>2, <2>3, <2>4 DEF Next
<1> QED BY <1>1, <1>2, PTL DEF Spec

(* The aggregator's state keeps its types.                                 *)
THEOREM TypeCorrect == Spec => []TypeOK
<1>1. AggregatorInv => TypeOK
  BY DEF AggregatorInv
<1> QED BY <1>1, AggregatorInvHolds, PTL

(* Every frame of an enabled stream leaves its queue once and in order.    *)
THEOREM StreamsIntactHolds == Spec => []StreamsIntact
<1>1. AggregatorInv => StreamsIntact
  BY DEF AggregatorInv
<1> QED BY <1>1, AggregatorInvHolds, PTL

(* When pushFrame returns no queue is at its limit and some queue is       *)
(* empty, also when the callback changed the synchronisation.              *)
THEOREM RestIsSettledHolds == Spec => []RestIsSettled
<1>1. AggregatorInv => RestIsSettled
  BY DEF AggregatorInv, RestIsSettled, LimitsAreFlagged, EmptyIsFlagged
<1> QED BY <1>1, AggregatorInvHolds, PTL

(* tryAggregator takes no front of an empty queue, for any queue limits    *)
(* and also when the callback switches the synchronisation, unless that    *)
(* empties queues that each still had a frame.                             *)
THEOREM FrontsExistHolds == Spec => []FrontsExist
<1>1. AggregatorInv => FrontsExist
  <2> SUFFICES ASSUME AggregatorInv, pc = "loop", LoopAgain, ~emptied
               PROVE  /\ ByRate => NonEmpty # {}
                      /\ ByPrecision => miniType \in NonEmpty
                      /\ (~Synchronous /\ ~withEmpty) => NonEmpty = mapped
    BY DEF FrontsExist
  <2>1. TypeOK
    BY DEF AggregatorInv
  <2>2. ByPrecision => miniType \in NonEmpty
    BY DEF AggregatorInv, MinimumIsThere
  <2>3. ~withEmpty => NonEmpty = mapped
    <3>1. NonEmpty \subseteq mapped
      BY DEF NonEmpty
    <3> QED BY <3>1 DEF AggregatorInv, EmptyIsFlagged
  <2>4. ByRate => NonEmpty # {}
    <3>1. ByRate => mapped # {}
      BY <2>1, MappedFinite DEF ByRate, Synchronous
    <3>2. withOverflow => overflowType \in NonEmpty
      <4>1. withOverflow => /\ overflowType \in mapped
                            /\ Len(queue[overflowType]) = MaxQueueSize(overflowType)
        BY DEF AggregatorInv, LimitsAreFlagged
      <4>2. \A t \in mapped : MaxQueueSize(t) \in Nat \ {0}
        BY <2>1, LimitFacts DEF TypeOK
      <4> QED BY <4>1, <4>2, EmptySeq DEF NonEmpty
    <3> QED BY <2>3, <3>1, <3>2 DEF LoopAgain
  <2> QED BY <2>2, <2>3, <2>4
<1> QED BY <1>1, AggregatorInvHolds, PTL

-----------------------------------------------------------------------------
(* Streams of one rate.  A frame's stamp tells its number; as long as no   *)
(* queue has overflowed the streams have lost the same frames (InStep) and *)
(* the minimum the precise matching starts from is the earliest front.     *)
InPeriod(f) == f.number * Period <= f.stamp /\ f.stamp <= f.number * Period + Jitter
Stamped == \A t \in mapped : \A i \in DOMAIN queue[t] : InPeriod(queue[t][i])

OverflowIsNoted == withOverflow => overflowed
InStep == ~overflowed => \A t, u \in mapped : gone[t] = gone[u]

MinimumIsLeast ==
  ByPrecision /\ ~overflowed =>
    /\ NonEmpty = {} => miniStamp = 0
    /\ \A t \in NonEmpty : /\ miniType \in NonEmpty
                           /\ miniStamp = FrontStamp(miniType)
                           /\ miniStamp <= FrontStamp(t)

PeriodicInv ==
  setup = Periodic =>
    /\ Stamped
    /\ OverflowIsNoted
    /\ InStep
    /\ MinimumIsLeast
    /\ NeverMixesPeriods
    /\ CompleteUnlessOverflow

(* Half of the period is more than the jitter, and leaves more than it.    *)
LEMMA PeriodFacts ==
  /\ Period \in Nat \ {0} /\ Jitter \in Nat /\ Period \div 2 \in Nat
  /\ Jitter <= Period \div 2 /\ Jitter + Period \div 2 < Period
<1>1. Period \in Nat \ {0} /\ Jitter \in Nat /\ 2 * Jitter < Period
  BY PeriodicAssumption
<1>2. PICK h \in Nat : h = Period \div 2 /\ (Period = 2 * h \/ Period = 2 * h + 1)
  <2>1. Period \in Int /\ 2 \in Int /\ 0 < 2
    BY <1>1
  <2>2. /\ Period \div 2 \in Int /\ Period % 2 \in 0..1
        /\ Period = 2 * (Period \div 2) + (Period % 2)
    BY <2>1, SMT
  <2>3. Period \div 2 \in Nat
    BY <1>1, <2>2
  <2>4. Period % 2 = 0 \/ Period % 2 = 1
    BY <2>2
  <2> QED BY <2>2, <2>3, <2>4
<1>3. Jitter <= h /\ Jitter + h < Period
  BY <1>1, <1>2
<1> QED BY <1>1, <1>2, <1>3

LEMMA LaterPeriod ==
  ASSUME NEW m \in Nat, NEW n \in Nat, m < n
  PROVE  /\ m * Period \in Nat /\ n * Period \in Nat
         /\ m * Period + Period <= n * Period
<1>1. Period \in Nat
  BY PeriodFacts
<1>2. PICK d \in Nat : n = (m + 1) + d
  <2>1. n - (m + 1) \in Nat /\ n = (m + 1) + (n - (m + 1))
    OBVIOUS
  <2> QED BY <2>1
<1>3. n * Period = m * Period + Period + d * Period
  BY <1>1, <1>2
<1>4. m * Period \in Nat /\ d * Period \in Nat /\ n * Period \in Nat
  BY <1>1
<1> QED BY <1>1, <1>3, <1>4

(* Of two frames within half a period of each other, both are of one       *)
(* period; and two of one period are, the later against the earlier.       *)
LEMMA PeriodsApart ==
  ASSUME NEW f \in Frames, NEW g \in Frames, InPeriod(f), InPeriod(g)
  PROVE  /\ f.stamp \in Nat \ {0} /\ g.stamp \in Nat \ {0}
         /\ f.number < g.number => f.stamp < g.stamp
         /\ Within(f.stamp, g.stamp, Period \div 2) => f.number = g.number
         /\ f.number = g.number /\ g.stamp <= f.stamp =>
              Within(f.stamp, g.stamp, Period \div 2)
<1> DEFINE h == Period \div 2
           m == f.number
           n == g.number
           a == f.stamp
           b == g.stamp
<1>1. /\ m \in Nat \ {0} /\ n \in Nat \ {0} /\ a \in Nat /\ b \in Nat
  BY AggregatorAssumption DEF Frames
<1>2. /\ m * Period <= a /\ a <= m * Period + Jitter
      /\ n * Period <= b /\ b <= n * Period + Jitter
  BY DEF InPeriod
<1>3. /\ Period \in Nat \ {0} /\ Jitter \in Nat /\ h \in Nat
      /\ Jitter <= h /\ Jitter + h < Period
  BY PeriodFacts
<1>4. m < n => m * Period + Period <= n * Period
  BY <1>1, LaterPeriod
<1>5. n < m => n * Period + Period <= m * Period
  BY <1>1, LaterPeriod
<1>6. 0 * Period + Period <= m * Period /\ 0 * Period + Period <= n * Period
  <2>1. 0 \in Nat /\ 0 < m /\ 0 < n
    BY <1>1
  <2> QED BY <1>1, <2>1, LaterPeriod
<1>7. 0 * Period = 0 /\ m * Period \in Nat /\ n * Period \in Nat
  BY <1>1, <1>3
<1>8. Within(a, b, h) <=> b <= a /\ a - b <= h
  BY <1>1, <1>3 DEF Within
<1> HIDE DEF h, m, n, a, b
<1>9. PICK mP, nP \in Nat : mP = m * Period /\ nP = n * Period
  BY <1>7
<1>10. /\ mP <= a /\ a <= mP + Jitter /\ nP <= b /\ b <= nP + Jitter
       /\ m < n => mP + Period <= nP
       /\ n < m => nP + Period <= mP
       /\ Period <= mP /\ Period <= nP
  BY <1>2, <1>3, <1>4, <1>5, <1>6, <1>7, <1>9
<1>11. a # 0 /\ b # 0
  BY <1>1, <1>3, <1>10
<1>12. m < n => a < b
  BY <1>1, <1>3, <1>10
<1>13. b <= a /\ a - b <= h => m = n
  BY <1>1, <1>3, <1>10
<1>14. m = n /\ b <= a => a - b <= h
  <2>1. m = n => mP = nP
    BY <1>9
  <2> QED BY <1>1, <1>3, <1>10, <2>1
<1> QED BY <1>1, <1>8, <1>11, <1>12, <1>13, <1>14 DEF h, m, n, a, b

(* The front of a queue whose frames follow on the last that left.         *)
LEMMA FrontFacts ==
  ASSUME NEW q \in Seq(Frames), q # <<>>, NEW last,
         \A i \in DOMAIN q : q[i].number = last + i,
         \A i \in DOMAIN q : InPeriod(q[i])
  PROVE  /\ Head(q) \in Frames /\ Head(q) = q[1] /\ 1 \in DOMAIN q
         /\ Head(q).number = last + 1 /\ InPeriod(Head(q))
<1>1. Head(q) \in Frames /\ Head(q) = q[1] /\ 1 \in DOMAIN q
  BY HeadTailProperties, EmptySeq, LenProperties
<1> QED BY <1>1

(* The same of the queues of the aggregator.                               *)
LEMMA Fronts ==
  ASSUME TypeOK, StreamsIntact, Stamped
  PROVE  \A t \in NonEmpty :
           /\ t \in mapped /\ queue[t] # <<>> /\ queue[t] \in Seq(Frames)
           /\ Head(queue[t]) \in Frames /\ InPeriod(Head(queue[t]))
           /\ Head(queue[t]) = queue[t][1] /\ 1 \in DOMAIN queue[t]
           /\ Head(queue[t]).number = gone[t] + 1
<1> SUFFICES ASSUME NEW t \in NonEmpty
             PROVE  /\ t \in mapped /\ queue[t] # <<>> /\ queue[t] \in Seq(Frames)
                    /\ Head(queue[t]) \in Frames /\ InPeriod(Head(queue[t]))
                    /\ Head(queue[t]) = queue[t][1] /\ 1 \in DOMAIN queue[t]
                    /\ Head(queue[t]).number = gone[t] + 1
  OBVIOUS
<1>1. t \in mapped /\ queue[t] # <<>> /\ queue[t] \in Seq(Frames)
  BY DEF NonEmpty, TypeOK
<1>2. /\ \A i \in DOMAIN queue[t] : queue[t][i].number = gone[t] + i
      /\ \A i \in DOMAIN queue[t] : InPeriod(queue[t][i])
  BY <1>1 DEF StreamsIntact, Stamped
<1> QED BY <1>1, <1>2, FrontFacts

LEMMA GapIsHalf ==
  ASSUME TypeOK, setup = Periodic, NEW t \in Types, NEW u \in Types
  PROVE  MinGap(t, u) = Period \div 2
BY DEF MinGap, Periodic

(* Neighbours of the sorted fronts that follow closely are of one period,  *)
(* so that all of the frameset is; and when all fronts are of one period   *)
(* none is left out.                                                       *)
LEMMA ChainIsOfOnePeriod ==
  ASSUME TypeOK, StreamsIntact, Stamped, setup = Periodic, NEW s \in SortedFronts
  PROVE  \A t, u \in Chain(s) : Head(queue[t]).number = Head(queue[u]).number
<1> DEFINE n == Cardinality(NonEmpty)
           N(i) == Head(queue[s[i]]).number
<1>1. s \in [1..n -> NonEmpty] /\ DOMAIN s = 1..n /\ n \in Nat
  <2>1. IsFiniteSet(NonEmpty)
    BY MappedFinite, FS_Subset DEF NonEmpty
  <2> QED BY <2>1, FS_CardinalityType DEF SortedFronts
<1>2. ASSUME NEW j \in 1..n,
             \A m \in 2..j : Within(FrontStamp(s[m]), FrontStamp(s[m-1]), MinGap(s[m], s[m-1]))
      PROVE  N(j) = N(1)
  <2> DEFINE Bad == {m \in 1..j : N(m) # N(1)}
  <2> SUFFICES ASSUME Bad # {} PROVE FALSE
    BY <1>1
  <2>1. PICK m \in Bad : \A k \in Bad : m <= k
    <3>1. Bad \in SUBSET Nat
      BY <1>1
    <3> HIDE DEF Bad
    <3> QED BY <3>1, Least
  <2>2. m \in 1..j /\ m # 1 /\ N(m) # N(1)
    BY <2>1
  <2>3. m \in 2..j /\ m - 1 \in 1..j /\ m \in 1..n /\ m - 1 \in 1..n /\ m \in Nat
    BY <1>1, <2>2
  <2>4. N(m - 1) = N(1)
    <3>1. m - 1 \notin Bad
      <4>1. m - 1 \in Bad => m <= m - 1
        BY <2>1
      <4> HIDE DEF Bad
      <4> QED BY <2>3, <4>1
    <3> QED BY <2>3, <3>1
  <2>5. s[m] \in NonEmpty /\ s[m-1] \in NonEmpty
    BY <1>1, <2>3
  <2>6. MinGap(s[m], s[m-1]) = Period \div 2
    BY <2>5, GapIsHalf DEF NonEmpty, TypeOK
  <2>7. Within(Head(queue[s[m]]).stamp, Head(queue[s[m-1]]).stamp, Period \div 2)
    BY <1>2, <2>3, <2>6 DEF FrontStamp
  <2>8. N(m) = N(m-1)
    BY <2>5, <2>7, Fronts, PeriodsApart
  <2> QED BY <2>2, <2>4, <2>8
<1>3. ASSUME NEW t \in Chain(s) PROVE Head(queue[t]).number = N(1)
  <2>1. PICK j \in DOMAIN s :
          /\ t = s[j]
          /\ \A m \in 2..j : Within(FrontStamp(s[m]), FrontStamp(s[m-1]), MinGap(s[m], s[m-1]))
    BY DEF Chain
  <2> QED BY <1>1, <1>2, <2>1
<1> QED BY <1>3

LEMMA ChainIsWhole ==
  ASSUME TypeOK, StreamsIntact, Stamped, setup = Periodic, NEW s \in SortedFronts,
         \A t, u \in NonEmpty : gone[t] = gone[u]
  PROVE  Chain(s) = NonEmpty
<1> DEFINE n == Cardinality(NonEmpty)
<1>1. IsFiniteSet(NonEmpty) /\ n \in Nat
  <2>1. IsFiniteSet(NonEmpty)
    BY MappedFinite, FS_Subset DEF NonEmpty
  <2> QED BY <2>1, FS_CardinalityType
<1>2. /\ s \in [1..n -> NonEmpty] /\ DOMAIN s = 1..n
      /\ \A i, j \in 1..n : i # j => s[i] # s[j]
      /\ \A i, j \in 1..n : i < j => FrontStamp(s[i]) <= FrontStamp(s[j])
  BY DEF SortedFronts
<1>3. ASSUME NEW t \in NonEmpty PROVE \E i \in 1..n : s[i] = t
  <2>1. s \in Injection(1..n, NonEmpty)
    BY <1>2, Fun_IsInj
  <2>2. IsFiniteSet(1..n) /\ Cardinality(1..n) = n
    BY <1>1, FS_Interval
  <2>3. s \in Surjection(1..n, NonEmpty)
    BY <1>1, <2>1, <2>2, FS_Injection
  <2> QED BY <2>3 DEF Surjection
<1>4. ASSUME NEW j \in 1..n, NEW m \in 2..j
      PROVE  Within(FrontStamp(s[m]), FrontStamp(s[m-1]), MinGap(s[m], s[m-1]))
  <2>1. m \in 1..n /\ m - 1 \in 1..n /\ m - 1 < m
    BY <1>1
  <2>2. s[m] \in NonEmpty /\ s[m-1] \in NonEmpty /\ FrontStamp(s[m-1]) <= FrontStamp(s[m])
    BY <1>2, <2>1
  <2>3. MinGap(s[m], s[m-1]) = Period \div 2
    BY <2>2, GapIsHalf DEF NonEmpty, TypeOK
  <2>4. gone[s[m]] = gone[s[m-1]]
    BY <2>2
  <2>5. Head(queue[s[m]]).number = Head(queue[s[m-1]]).number
    BY <2>2, <2>4, Fronts
  <2> DEFINE f == Head(queue[s[m]])
             g == Head(queue[s[m-1]])
  <2>6. f \in Frames /\ g \in Frames /\ InPeriod(f) /\ InPeriod(g) /\ f.number = g.number
    BY <2>2, <2>5, Fronts
  <2>7. g.stamp <= f.stamp
    BY <2>2 DEF FrontStamp
  <2> HIDE DEF f, g
  <2>8. Within(f.stamp, g.stamp, Period \div 2)
    BY <2>6, <2>7, PeriodsApart
  <2> QED BY <2>3, <2>8 DEF FrontStamp, f, g
<1>5. Chain(s) = {s[i] : i \in 1..n}
  BY <1>2, <1>4 DEF Chain
<1> QED BY <1>2, <1>3, <1>5

(* The streams of one rate are only configured before the first push.      *)
LEMMA PeriodicConfigure ==
  ASSUME TypeOK, setup = Periodic, setup' = setup, Configure
  PROVE  PeriodicInv'
<1>1. /\ \A t \in Types : pushed[t] = 0
      /\ queue' = NoFrames /\ gone' = pushed /\ withOverflow' = FALSE /\ miniStamp' = 0
      /\ pc' = "rest"
  BY DEF Configure, UpdateConfig, EnableFrameSync, ClearAllFrameQueue, ClearQueues,
     MayConfigure, Periodic
<1>2. mapped' \subseteq Types
  BY DEF Configure, UpdateConfig, EnableFrameSync, ClearAllFrameQueue, TypeOK
<1>3. \A t \in Types : queue'[t] = <<>> /\ DOMAIN queue'[t] = {} /\ gone'[t] = 0
  BY <1>1, EmptySeq DEF NoFrames
<1>4. Stamped' /\ InStep' /\ OverflowIsNoted'
  BY <1>1, <1>2, <1>3 DEF Stamped, InStep, OverflowIsNoted
<1>5. NonEmpty' = {}
  BY <1>2, <1>3 DEF NonEmpty
<1>6. MinimumIsLeast' /\ NeverMixesPeriods' /\ CompleteUnlessOverflow'
  BY <1>1, <1>5 DEF MinimumIsLeast, NeverMixesPeriods, CompleteUnlessOverflow
<1> QED BY <1>4, <1>6 DEF PeriodicInv

(* What a push adds: a frame stamped in its period, behind the others.     *)
LEMMA PushAdds ==
  ASSUME TypeOK, setup = Periodic, setup' = setup, NEW t \in Types, NEW stamp,
         pushed[t] < Len(setup.stamps), stamp \in setup.stamps[pushed[t] + 1],
         PushFrame(t, stamp)
  PROVE  \E frame \in Frames :
           /\ frame.stamp = stamp /\ frame.number = pushed[t] + 1 /\ InPeriod(frame)
           /\ t \in mapped => /\ queue'[t] = Append(queue[t], frame)
                              /\ DOMAIN queue'[t] = 1..Len(queue[t]) + 1
                              /\ queue'[t][Len(queue[t]) + 1] = frame
                              /\ Len(queue[t]) \in Nat
           /\ t \notin mapped => queue'[t] = queue[t]
           /\ \A i \in DOMAIN queue[t] : i \in DOMAIN queue'[t] /\ queue'[t][i] = queue[t][i]
           /\ \A u \in Types \ {t} : queue'[u] = queue[u]
<1>1. /\ queue \in [Types -> Seq(Frames)] /\ pushed \in [Types -> 0..MaxFrames]
      /\ MaxFrames \in Nat /\ pushed[t] \in Nat /\ pushed[t] < MaxFrames
  <2>1. queue \in [Types -> Seq(Frames)] /\ pushed \in [Types -> 0..MaxFrames]
    BY DEF TypeOK
  <2>2. MaxFrames \in Nat /\ pushed[t] < MaxFrames
    BY AggregatorAssumption DEF PushFrame
  <2> QED BY <2>1, <2>2
<1> DEFINE k == pushed[t] + 1
           frame == [number |-> k, stamp |-> stamp]
<1>2. k \in 1..MaxFrames
  BY <1>1
<1>3. setup.stamps[k] = {k * Period + j : j \in 0..Jitter}
  BY <1>2 DEF Periodic
<1>4. PICK j \in 0..Jitter : stamp = k * Period + j
  BY <1>3
<1>5. k * Period \in Nat /\ Period \in Nat /\ Jitter \in Nat
  <2>1. k \in Nat /\ Period \in Nat /\ Jitter \in Nat
    BY <1>2, PeriodFacts
  <2> QED BY <2>1
<1>6. stamp \in Nat /\ k * Period <= stamp /\ stamp <= k * Period + Jitter
  BY <1>4, <1>5
<1>7. frame \in Frames /\ InPeriod(frame) /\ frame.stamp = stamp /\ frame.number = pushed[t] + 1
  BY <1>2, <1>6 DEF Frames, InPeriod
<1>8. queue' = [queue EXCEPT ![t] = IF t \in mapped THEN Append(queue[t], frame)
                                                   ELSE queue[t]]
  BY DEF PushFrame
<1> HIDE DEF frame, k
<1>9. /\ queue'[t] = IF t \in mapped THEN Append(queue[t], frame) ELSE queue[t]
      /\ \A u \in Types \ {t} : queue'[u] = queue[u]
  BY <1>1, <1>8
<1>10. CASE t \in mapped
  <2> DEFINE q == queue[t]
  <2>1. q \in Seq(Frames)
    BY <1>1
  <2>2. queue'[t] = Append(q, frame)
    BY <1>9, <1>10
  <2> HIDE DEF q
  <2>3. /\ Append(q, frame) \in Seq(Frames) /\ Len(Append(q, frame)) = Len(q) + 1
        /\ \A i \in 1..Len(q) : Append(q, frame)[i] = q[i]
        /\ Append(q, frame)[Len(q) + 1] = frame
    BY <1>7, <2>1, AppendProperties
  <2>4. /\ Len(q) \in Nat /\ DOMAIN q = 1..Len(q)
        /\ DOMAIN Append(q, frame) = 1..Len(q) + 1
    BY <2>1, <2>3, LenProperties
  <2>5. \A i \in DOMAIN q : i \in DOMAIN Append(q, frame) /\ Append(q, frame)[i] = q[i]
    BY <2>3, <2>4
  <2> QED BY <1>7, <1>9, <1>10, <2>2, <2>3, <2>4, <2>5 DEF q
<1>11. CASE t \notin mapped
  BY <1>7, <1>9, <1>11
<1> QED BY <1>10, <1>11

LEMMA PeriodicPush ==
  ASSUME AggregatorInv, AggregatorInv', PeriodicInv, setup = Periodic, setup' = setup,
         NEW t \in Types, NEW stamp,
         pushed[t] < Len(setup.stamps), stamp \in setup.stamps[pushed[t] + 1],
         PushFrame(t, stamp)
  PROVE  PeriodicInv'
<1>1. /\ TypeOK /\ StreamsIntact /\ Stamped /\ OverflowIsNoted /\ InStep /\ MinimumIsLeast
      /\ mapped \subseteq Types /\ queue \in [Types -> Seq(Frames)]
      /\ queue' \in [Types -> Seq(Frames)]
  BY DEF AggregatorInv, PeriodicInv, TypeOK
<1>2. PICK frame \in Frames :
           /\ frame.stamp = stamp /\ frame.number = pushed[t] + 1 /\ InPeriod(frame)
           /\ t \in mapped => /\ queue'[t] = Append(queue[t], frame)
                              /\ DOMAIN queue'[t] = 1..Len(queue[t]) + 1
                              /\ queue'[t][Len(queue[t]) + 1] = frame
                              /\ Len(queue[t]) \in Nat
           /\ t \notin mapped => queue'[t] = queue[t]
           /\ \A i \in DOMAIN queue[t] : i \in DOMAIN queue'[t] /\ queue'[t][i] = queue[t][i]
           /\ \A u \in Types \ {t} : queue'[u] = queue[u]
  BY <1>1, PushAdds
<1>3. /\ mapped' = mapped /\ sync' = sync /\ outputMode' = outputMode /\ pc' = "loop"
      /\ gone' = IF t \in mapped THEN gone ELSE [gone EXCEPT ![t] = pushed'[t]]
      /\ overflowed => overflowed'
      /\ withOverflow' => withOverflow \/ overflowed'
      /\ IF KeepsMinimum(t, stamp)
           THEN miniStamp' = miniStamp /\ miniType' = miniType
           ELSE miniStamp' = stamp /\ miniType' = t
  BY DEF PushFrame, miniVars
<1>4. \A u \in mapped : gone'[u] = gone[u]
  BY <1>1, <1>3 DEF TypeOK
<1>5. InStep'
  BY <1>1, <1>3, <1>4 DEF InStep
<1>6. OverflowIsNoted'
  BY <1>1, <1>3 DEF OverflowIsNoted
<1>7. Stamped'
  <2> SUFFICES ASSUME NEW u \in mapped, NEW i \in DOMAIN queue'[u] PROVE InPeriod(queue'[u][i])
    BY <1>3 DEF Stamped
  <2>1. \A k \in DOMAIN queue[u] : InPeriod(queue[u][k])
    BY <1>1 DEF Stamped
  <2>2. CASE u = t
    <3>1. DOMAIN queue[u] = 1..Len(queue[u]) /\ Len(queue[u]) \in Nat
      BY <1>1, LenProperties
    <3>2. i \in 1..Len(queue[u]) + 1
      BY <1>2, <2>2
    <3>3. CASE i = Len(queue[u]) + 1
      BY <1>2, <2>2, <3>3
    <3>4. CASE i # Len(queue[u]) + 1
      <4>1. i \in DOMAIN queue[u]
        BY <3>1, <3>2, <3>4
      <4> QED BY <1>2, <2>1, <2>2, <4>1
    <3> QED BY <3>3, <3>4
  <2>3. CASE u # t
    BY <1>1, <1>2, <2>1, <2>3
  <2> QED BY <2>2, <2>3
<1>8. NeverMixesPeriods' /\ CompleteUnlessOverflow'
  BY <1>3 DEF NeverMixesPeriods, CompleteUnlessOverflow
<1>9. MinimumIsLeast'
  <2> SUFFICES ASSUME ByPrecision, ~overflowed'
               PROVE  /\ NonEmpty' = {} => miniStamp' = 0
                      /\ \A u \in NonEmpty' : /\ miniType' \in NonEmpty'
                                              /\ miniStamp' = FrontStamp(miniType)'
                                              /\ miniStamp' <= FrontStamp(u)'
    <3>1. ByPrecision' = ByPrecision
      BY <1>3, SameModes
    <3> QED BY <3>1 DEF MinimumIsLeast
  <2>1. /\ NonEmpty = {} => miniStamp = 0
        /\ \A u \in NonEmpty : /\ miniType \in NonEmpty
                               /\ miniStamp = Head(queue[miniType]).stamp
                               /\ miniStamp <= Head(queue[u]).stamp
    BY <1>1, <1>3 DEF MinimumIsLeast, FrontStamp
  <2>2. \A u, v \in mapped : gone[u] = gone[v]
    BY <1>1, <1>3 DEF InStep
  <2>3. ASSUME NEW u \in NonEmpty
        PROVE  u \in NonEmpty' /\ Head(queue'[u]) = Head(queue[u])
    <3>1. /\ u \in mapped /\ queue[u] # <<>> /\ queue[u] \in Seq(Frames)
          /\ Head(queue[u]) = queue[u][1] /\ 1 \in DOMAIN queue[u]
      BY <1>1, Fronts
    <3>2. 1 \in DOMAIN queue'[u] /\ queue'[u][1] = queue[u][1]
      BY <1>1, <1>2, <3>1, SMTT(30)
    <3>3. queue'[u] \in Seq(Frames)
      BY <1>1, <3>1
    <3>4. queue'[u] # <<>>
      BY <3>2, EmptySeq
    <3>5. Head(queue'[u]) = queue'[u][1]
      BY <3>3, <3>4, HeadTailProperties
    <3> QED BY <1>3, <3>1, <3>2, <3>4, <3>5 DEF NonEmpty
  <2>4. ASSUME NEW u \in NonEmpty', u \notin NonEmpty
        PROVE  u = t /\ t \in mapped /\ Head(queue'[u]) = frame
    <3>1. u \in mapped /\ queue[u] = <<>> /\ queue'[u] # <<>>
      BY <1>3, <2>4 DEF NonEmpty
    <3>2. u = t
      BY <1>1, <1>2, <3>1
    <3>3. Len(queue[u]) = 0
      BY <3>1, EmptySeq
    <3>4. queue'[u][1] = frame
      <4>1. queue'[u][0 + 1] = frame
        BY <1>2, <3>1, <3>2, <3>3
      <4> QED BY <4>1
    <3>5. queue'[u] \in Seq(Frames)
      BY <1>1, <3>2
    <3> QED BY <3>1, <3>2, <3>4, <3>5, HeadTailProperties
  <2>5. t \in mapped => t \in NonEmpty'
    <3>1. t \in mapped => queue'[t] # <<>>
      BY <1>1, <1>2, AppendProperties
    <3> QED BY <1>3, <3>1 DEF NonEmpty
  <2>6. stamp \in Nat \ {0} /\ miniStamp \in Nat
    BY <1>1, <1>2, PeriodsApart DEF TypeOK
  (* A frame behind another one is later than all the fronts.              *)
  <2>7. ASSUME t \in NonEmpty, NEW u \in NonEmpty PROVE Head(queue[u]).stamp < stamp
    <3>1. /\ Head(queue[u]) \in Frames /\ InPeriod(Head(queue[u]))
          /\ Head(queue[u]).number = gone[u] + 1 /\ u \in mapped /\ t \in mapped
      BY <1>1, <2>7, Fronts
    <3>2. /\ Len(queue[t]) = pushed[t] - gone[t] /\ Len(queue[t]) \in Nat \ {0}
          /\ pushed[t] \in Nat /\ gone[t] \in Nat
      <4>1. queue[t] \in Seq(Frames) /\ queue[t] # <<>>
        BY <1>1, <2>7, Fronts
      <4>2. Len(queue[t]) \in Nat \ {0}
        BY <4>1, EmptySeq, LenProperties
      <4>3. pushed \in [Types -> 0..MaxFrames] /\ gone \in [Types -> 0..MaxFrames]
        BY <1>1 DEF TypeOK
      <4>4. MaxFrames \in Nat
        BY AggregatorAssumption
      <4>5. pushed[t] \in Nat /\ gone[t] \in Nat
        BY <4>3, <4>4
      <4> QED BY <1>1, <3>1, <4>2, <4>5 DEF StreamsIntact
    <3>3. gone[u] = gone[t]
      BY <2>2, <3>1
    <3>4. Head(queue[u]).number < frame.number
      BY <1>2, <3>1, <3>2, <3>3, SMTT(30)
    <3> QED BY <1>2, <3>1, <3>4, PeriodsApart
  <2>8. CASE KeepsMinimum(t, stamp)
    <3>1. miniStamp' = miniStamp /\ miniType' = miniType
      BY <1>3, <2>8
    <3>2. t \in mapped => miniStamp # 0 /\ ~(stamp < miniStamp)
      BY <2>8 DEF KeepsMinimum
    <3>3. t \in mapped => NonEmpty # {}
      BY <2>1, <3>2
    <3>4. ASSUME NEW u \in NonEmpty'
          PROVE  /\ miniType \in NonEmpty /\ miniStamp = Head(queue[miniType]).stamp
                 /\ miniStamp <= Head(queue'[u]).stamp
      <4>1. CASE u \in NonEmpty
        BY <2>1, <2>3, <4>1
      <4>2. CASE u \notin NonEmpty
        <5>1. t \in mapped /\ Head(queue'[u]) = frame
          BY <2>4, <4>2
        <5>2. miniStamp <= stamp
          BY <2>6, <3>2, <5>1
        <5> QED BY <1>2, <2>1, <3>3, <5>1, <5>2
      <4> QED BY <4>1, <4>2
    <3>5. ASSUME NonEmpty' = {} PROVE miniStamp = 0
      BY <2>1, <2>3, <3>5
    <3> QED BY <2>3, <3>1, <3>4, <3>5 DEF FrontStamp
  <2>9. CASE ~KeepsMinimum(t, stamp)
    <3>1. /\ miniStamp' = stamp /\ miniType' = t /\ t \in mapped
          /\ miniStamp = 0 \/ stamp < miniStamp
      BY <1>3, <2>9 DEF KeepsMinimum
    <3>2. ASSUME NEW u \in NonEmpty PROVE stamp < Head(queue[u]).stamp
      <4>1. /\ miniStamp <= Head(queue[u]).stamp /\ Head(queue[u]).stamp \in Nat
            /\ miniType \in NonEmpty /\ miniStamp = Head(queue[miniType]).stamp
        BY <1>1, <2>1, Fronts DEF Frames
      <4>2. miniStamp # 0
        BY <1>1, <4>1, Fronts, PeriodsApart
      <4> QED BY <2>6, <3>1, <4>1, <4>2
    <3>3. t \notin NonEmpty
      <4> SUFFICES ASSUME t \in NonEmpty PROVE FALSE
        OBVIOUS
      <4>1. Head(queue[t]).stamp < stamp /\ stamp < Head(queue[t]).stamp
        BY <2>7, <3>2
      <4>2. Head(queue[t]).stamp \in Nat
        BY <1>1, Fronts DEF Frames
      <4> QED BY <2>6, <4>1, <4>2
    <3>4. t \in NonEmpty' /\ Head(queue'[t]) = frame
      BY <2>4, <2>5, <3>1, <3>3
    <3>5. ASSUME NEW u \in NonEmpty' PROVE stamp <= Head(queue'[u]).stamp
      <4>1. CASE u \in NonEmpty
        <5>1. Head(queue'[u]).stamp = Head(queue[u]).stamp /\ Head(queue[u]).stamp \in Nat
          BY <1>1, <2>3, <4>1, Fronts DEF Frames
        <5>2. stamp < Head(queue[u]).stamp
          BY <3>2, <4>1
        <5> QED BY <2>6, <5>1, <5>2
      <4>2. CASE u \notin NonEmpty
        <5>1. Head(queue'[u]).stamp = stamp
          BY <1>2, <2>4, <4>2
        <5> QED BY <2>6, <5>1
      <4> QED BY <4>1, <4>2
    <3> QED BY <1>2, <3>1, <3>4, <3>5 DEF FrontStamp
  <2> QED BY <2>8, <2>9
<1> QED BY <1>5, <1>6, <1>7, <1>8, <1>9 DEF PeriodicInv

(* One round: the frameset is of one period, and whole unless a queue has  *)
(* overflowed.                                                             *)
LEMMA PeriodicRound ==
  ASSUME TypeOK, StreamsIntact, PeriodicInv, EmptyIsFlagged, setup = Periodic,
         MatchByRate \/ MatchByPrecision \/ MatchAsync
  PROVE  \E matched \in SUBSET NonEmpty :
           /\ Cut(matched)
           /\ Synchronous => \A t, u \in matched : Head(queue[t]).number = Head(queue[u]).number
           /\ ~overflowed => matched = mapped
           /\ withOverflow' => withOverflow
           /\ ByPrecision => /\ miniStamp' = NewMinimum(queue').stamp
                             /\ miniType' = NewMinimum(queue').type
<1>1. /\ Stamped /\ OverflowIsNoted /\ InStep /\ MinimumIsLeast /\ mapped \subseteq Types
      /\ NonEmpty \subseteq mapped
  BY DEF PeriodicInv, TypeOK, NonEmpty
<1>2. ~overflowed => ~withEmpty /\ ~withOverflow
  <2>1. ~overflowed => ~withOverflow
    BY <1>1 DEF OverflowIsNoted
  <2>2. LoopAgain
    BY DEF MatchByRate, MatchByPrecision, MatchAsync
  <2> QED BY <2>1, <2>2 DEF LoopAgain
<1>3. ~overflowed => NonEmpty = mapped
  <2>1. pc = "loop" /\ (Synchronous \/ (~withEmpty => NonEmpty = mapped))
    BY DEF MatchByRate, MatchByPrecision, MatchAsync, ByRate, ByPrecision
  <2>2. mapped = {} => NonEmpty = mapped
    BY <1>1
  <2> QED BY <1>2, <2>1, <2>2 DEF EmptyIsFlagged
<1>4. ~overflowed => \A t, u \in NonEmpty : gone[t] = gone[u]
  BY <1>1 DEF InStep
<1>5. CASE MatchByRate
  <2>1. PICK s \in SortedFronts :
          /\ Cut(Chain(s))
          /\ withOverflow' = (withOverflow /\ overflowType \notin Chain(s))
    BY <1>5 DEF MatchByRate
  <2>2. Chain(s) \in SUBSET NonEmpty
    BY DEF Chain, SortedFronts
  <2>3. \A t, u \in Chain(s) : Head(queue[t]).number = Head(queue[u]).number
    BY <1>1, ChainIsOfOnePeriod
  <2>4. ~overflowed => Chain(s) = mapped
    BY <1>1, <1>3, <1>4, ChainIsWhole
  <2>5. ~ByPrecision
    BY <1>5 DEF MatchByRate, ByPrecision
  <2> QED BY <2>1, <2>2, <2>3, <2>4, <2>5
<1>6. CASE MatchByPrecision
  <2> DEFINE matched == {t \in NonEmpty : Within(FrontStamp(t), FrontStamp(miniType),
                                                 MinGap(t, miniType))}
  <2>1. /\ Cut(matched) /\ Synchronous /\ ByPrecision /\ miniType \in NonEmpty
        /\ withOverflow' = (withOverflow /\ overflowType \notin matched)
        /\ miniStamp' = NewMinimum(queue').stamp /\ miniType' = NewMinimum(queue').type
    BY <1>6 DEF MatchByPrecision, ByPrecision
  <2>2. \A t \in NonEmpty : MinGap(t, miniType) = Period \div 2
    BY <1>1, <2>1, GapIsHalf
  <2>3. ASSUME NEW t \in matched
        PROVE  Head(queue[t]).number = Head(queue[miniType]).number
    <3>1. t \in NonEmpty
      OBVIOUS
    <3>2. Within(Head(queue[t]).stamp, Head(queue[miniType]).stamp, Period \div 2)
      BY <2>2 DEF FrontStamp
    <3> HIDE DEF matched
    <3>3. /\ Head(queue[t]) \in Frames /\ InPeriod(Head(queue[t]))
          /\ Head(queue[miniType]) \in Frames /\ InPeriod(Head(queue[miniType]))
      BY <1>1, <2>1, <3>1, Fronts
    <3> QED BY <3>2, <3>3, PeriodsApart
  <2>4. ASSUME ~overflowed, NEW t \in NonEmpty PROVE t \in matched
    <3>1. /\ Head(queue[t]) \in Frames /\ InPeriod(Head(queue[t]))
          /\ Head(queue[miniType]) \in Frames /\ InPeriod(Head(queue[miniType]))
          /\ Head(queue[t]).number = gone[t] + 1
          /\ Head(queue[miniType]).number = gone[miniType] + 1
      BY <1>1, <2>1, Fronts
    <3>2. gone[t] = gone[miniType]
      BY <1>4, <2>1, <2>4
    <3>3. Head(queue[miniType]).stamp <= Head(queue[t]).stamp
      BY <1>1, <2>1, <2>4 DEF MinimumIsLeast, FrontStamp
    <3>4. Within(Head(queue[t]).stamp, Head(queue[miniType]).stamp, Period \div 2)
      BY <3>1, <3>2, <3>3, PeriodsApart
    <3> QED BY <2>2, <3>4 DEF FrontStamp
  <2>5. matched \in SUBSET NonEmpty
    OBVIOUS
  <2> HIDE DEF matched
  <2>6. ~overflowed => matched = mapped
    BY <1>3, <2>4, <2>5
  <2>7. \A t, u \in matched : Head(queue[t]).number = Head(queue[u]).number
    BY <2>3
  <2> QED BY <2>1, <2>5, <2>6, <2>7
<1>7. CASE MatchAsync
  <2> DEFINE matched == {t \in mapped : ~withEmpty \/ Len(queue[t]) >= MaxNormal}
  <2>1. /\ Cut(matched) /\ ~Synchronous /\ ~ByPrecision /\ withOverflow' = FALSE
        /\ ~withEmpty => NonEmpty = mapped
    BY <1>7 DEF MatchAsync, ByPrecision
  <2>2. MaxNormal \in Nat \ {0} /\ Len(<<>>) = 0
    BY LimitFacts, EmptySeq
  <2>3. matched \in SUBSET NonEmpty
    BY <2>1, <2>2 DEF NonEmpty
  <2>4. ~overflowed => matched = mapped
    BY <1>2
  <2> HIDE DEF matched
  <2> QED BY <2>1, <2>3, <2>4
<1> QED BY <1>5, <1>6, <1>7

LEMMA PeriodicMatch ==
  ASSUME AggregatorInv, AggregatorInv', PeriodicInv, setup = Periodic, setup' = setup,
         MatchByRate \/ MatchByPrecision \/ MatchAsync
  PROVE  PeriodicInv'
<1>1. /\ TypeOK /\ StreamsIntact /\ EmptyIsFlagged
      /\ Stamped /\ OverflowIsNoted /\ InStep /\ MinimumIsLeast
      /\ queue' \in [Types -> Seq(Frames)] /\ mapped \subseteq Types
  BY DEF AggregatorInv, PeriodicInv, TypeOK
<1>2. PICK matched \in SUBSET NonEmpty :
           /\ Cut(matched)
           /\ Synchronous => \A t, u \in matched : Head(queue[t]).number = Head(queue[u]).number
           /\ ~overflowed => matched = mapped
           /\ withOverflow' => withOverflow
           /\ ByPrecision => /\ miniStamp' = NewMinimum(queue').stamp
                             /\ miniType' = NewMinimum(queue').type
  BY <1>1, PeriodicRound
<1>3. /\ matched \subseteq mapped
      /\ \A t \in Types \ matched : queue'[t] = queue[t] /\ gone'[t] = gone[t]
      /\ \A t \in matched :
           /\ \A i \in DOMAIN queue'[t] :
                i + 1 \in DOMAIN queue[t] /\ queue'[t][i] = queue[t][i + 1]
           /\ gone'[t] = gone[t] + 1
      /\ UNCHANGED <<mapped, sync, outputMode, overflowed>>
  BY <1>1, <1>2, CutFacts
<1>4. frameset' = [t \in matched |-> Head(queue[t])]
  BY <1>2 DEF Cut
<1>5. Synchronous' = Synchronous /\ ByPrecision' = ByPrecision
  BY <1>3, SameModes
<1>6. Stamped'
  <2> SUFFICES ASSUME NEW t \in mapped, NEW i \in DOMAIN queue'[t] PROVE InPeriod(queue'[t][i])
    BY <1>3 DEF Stamped
  <2>1. \A k \in DOMAIN queue[t] : InPeriod(queue[t][k])
    BY <1>1 DEF Stamped
  <2>2. CASE t \in matched
    BY <1>3, <2>1, <2>2
  <2>3. CASE t \notin matched
    BY <1>1, <1>3, <2>1, <2>3
  <2> QED BY <2>2, <2>3
<1>7. OverflowIsNoted'
  BY <1>1, <1>2, <1>3 DEF OverflowIsNoted
<1>8. InStep'
  <2>1. ~overflowed => \A t, u \in mapped : gone[t] = gone[u]
    BY <1>1 DEF InStep
  <2>2. ~overflowed => \A t \in mapped : gone'[t] = gone[t] + 1
    BY <1>2, <1>3
  <2> QED BY <1>3, <2>1, <2>2 DEF InStep
<1>9. NeverMixesPeriods' /\ CompleteUnlessOverflow'
  BY <1>2, <1>3, <1>4, <1>5 DEF NeverMixesPeriods, CompleteUnlessOverflow
<1>10. MinimumIsLeast'
  <2> DEFINE left == {t \in mapped : queue'[t] # <<>>}
  <2> SUFFICES ASSUME ByPrecision
               PROVE  /\ left = {} => miniStamp' = 0
                      /\ \A t \in left : /\ miniType' \in left
                                         /\ miniStamp' = FrontStamp(miniType)'
                                         /\ miniStamp' <= FrontStamp(t)'
    BY <1>3, <1>5 DEF MinimumIsLeast, NonEmpty
  <2>1. miniStamp' = NewMinimum(queue').stamp /\ miniType' = NewMinimum(queue').type
    BY <1>2
  <2>2. \A t \in left : Head(queue'[t]).stamp # 0
    <3> SUFFICES ASSUME NEW t \in left PROVE Head(queue'[t]).stamp # 0
      OBVIOUS
    <3>1. queue'[t] \in Seq(Frames) /\ queue'[t] # <<>>
      BY <1>1
    <3>2. Head(queue'[t]) = queue'[t][1] /\ 1 \in DOMAIN queue'[t] /\ Head(queue'[t]) \in Frames
      BY <3>1, HeadTailProperties, EmptySeq, LenProperties
    <3>3. InPeriod(Head(queue'[t]))
      BY <1>3, <1>6, <3>2 DEF Stamped
    <3> QED BY <3>2, <3>3, PeriodsApart
  <2>3. /\ left # {} =>
             /\ NewMinimum(queue').type \in left
             /\ NewMinimum(queue').stamp = Head(queue'[NewMinimum(queue').type]).stamp
             /\ \A t \in left : NewMinimum(queue').stamp <= Head(queue'[t]).stamp
        /\ left = {} => NewMinimum(queue').stamp = 0
    <3>1. /\ left # {} =>
               /\ NewMinimum(queue').type \in left
               /\ NewMinimum(queue').stamp = Head(queue'[NewMinimum(queue').type]).stamp
               /\ (\A t \in left : Head(queue'[t]).stamp # 0) =>
                     \A t \in left : NewMinimum(queue').stamp <= Head(queue'[t]).stamp
          /\ left = {} => NewMinimum(queue') = [stamp |-> 0, type |-> miniType]
      BY <1>1, NewMinimumIsLeft
    <3> HIDE DEF left
    <3> QED BY <2>2, <3>1
  <2> HIDE DEF left
  <2> QED BY <2>1, <2>3 DEF FrontStamp
<1> QED BY <1>6, <1>7, <1>8, <1>9, <1>10 DEF PeriodicInv

(* The callback, the end of the loop, and steps of others change nothing.  *)
LEMMA PeriodicRest ==
  ASSUME PeriodicInv, setup = Periodic, setup' = setup,
         OutputFrameset \/ LoopEnd \/ UNCHANGED vars
  PROVE  PeriodicInv'
<1>1. /\ UNCHANGED <<mapped, queue, sync, outputMode, withOverflow, overflowed, gone>>
      /\ UNCHANGED <<miniStamp, miniType>>
      /\ pc' # "output" \/ (pc' = pc /\ frameset' = frameset)
  <2>1. ~setup.reentrant
    BY DEF Periodic
  <2> QED BY <2>1 DEF OutputFrameset, LoopEnd, vars, flagVars, miniVars
<1>2. /\ Synchronous' = Synchronous /\ ByPrecision' = ByPrecision /\ NonEmpty' = NonEmpty
  BY <1>1, SameModes DEF NonEmpty
<1>3. Stamped' /\ OverflowIsNoted' /\ InStep'
  BY <1>1 DEF PeriodicInv, Stamped, OverflowIsNoted, InStep
<1>4. MinimumIsLeast'
  BY <1>1, <1>2 DEF PeriodicInv, MinimumIsLeast, FrontStamp
<1>5. NeverMixesPeriods' /\ CompleteUnlessOverflow'
  BY <1>1, <1>2 DEF PeriodicInv, NeverMixesPeriods, CompleteUnlessOverflow
<1> QED BY <1>3, <1>4, <1>5 DEF PeriodicInv

LEMMA PeriodicInit ==
  ASSUME Init
  PROVE  PeriodicInv
<1>1. NonEmpty = {} /\ mapped = {} /\ miniStamp = 0 /\ pc = "rest" /\ ~withOverflow
  BY DEF Init, NonEmpty
<1> QED BY <1>1 DEF PeriodicInv, Stamped, OverflowIsNoted, InStep, MinimumIsLeast,
    NeverMixesPeriods, CompleteUnlessOverflow

THEOREM PeriodicInvHolds == Spec => []PeriodicInv
<1>1. Init => PeriodicInv
  BY PeriodicInit
<1>2. AggregatorInv /\ AggregatorInv' /\ PeriodicInv /\ [Next]_vars => PeriodicInv'
  <2> SUFFICES ASSUME AggregatorInv, AggregatorInv', PeriodicInv, [Next]_vars PROVE PeriodicInv'
    OBVIOUS
  <2>1. setup' = setup
    BY DEF Next, vars
  <2>2. CASE setup # Periodic
    BY <2>1, <2>2 DEF PeriodicInv, Periodic
  <2>3. CASE setup = Periodic
    <3>1. CASE Configure
      BY <2>1, <2>3, <3>1, PeriodicConfigure DEF AggregatorInv
    <3>2. CASE Push
      BY <2>1, <2>3, <3>2, PeriodicPush DEF Push
    <3>3. CASE Aggregate
      BY <2>1, <2>3, <3>3, PeriodicMatch, PeriodicRest DEF Aggregate
    <3>4. CASE UNCHANGED vars
      BY <2>1, <2>3, <3>4, PeriodicRest
    <3> QED BY <3>1, <3>2, <3>3, <3>4 DEF Next
  <2> QED BY <2>2, <2>3
<1> QED BY <1>1, <1>2, AggregatorInvHolds, PTL DEF Spec

(* A synchronised frameset of streams of one rate never mixes two periods, *)
(* for any number of streams, in both matching modes and whatever was      *)
(* delayed or lost before, when the jitter is below half of the period.    *)
THEOREM NeverMixesPeriodsHolds == Spec => []NeverMixesPeriods
<1>1. PeriodicInv => NeverMixesPeriods
  BY DEF PeriodicInv, NeverMixesPeriods
<1> QED BY <1>1, PeriodicInvHolds, PTL

(* And as long as no queue has overflowed, every frameset has a frame of   *)
(* every stream, in whatever order the frames come.                        *)
THEOREM CompleteUnlessOverflowHolds == Spec => []CompleteUnlessOverflow
<1>1. PeriodicInv => CompleteUnlessOverflow
  BY DEF PeriodicInv, CompleteUnlessOverflow
<1> QED BY <1>1, PeriodicInvHolds, PTL
-----------------------------------------------------------------------------
(* Both ways of matching start from the earliest front they take, and add  *)
(* what follows one already taken closely enough.                          *)
LEMMA CoherentMatch ==
  ASSUME TypeOK, MatchByRate \/ MatchByPrecision
  PROVE  \E matched \in SUBSET NonEmpty :
           /\ Cut(matched) /\ matched # {}
           /\ \A t \in matched :
                \/ \A u \in matched : FrontStamp(t) <= FrontStamp(u)
                \/ \E u \in matched \ {t} : Within(FrontStamp(t), FrontStamp(u), MinGap(t, u))
<1>1. /\ IsFiniteSet(NonEmpty) /\ Cardinality(NonEmpty) \in Nat
      /\ NonEmpty \subseteq mapped /\ mapped \subseteq Types
  <2>1. IsFiniteSet(NonEmpty)
    BY MappedFinite, FS_Subset DEF NonEmpty
  <2> QED BY <2>1, FS_CardinalityType DEF NonEmpty, TypeOK
<1>2. ASSUME NEW t \in NonEmpty PROVE FrontStamp(t) \in Nat
  <2>1. queue[t] \in Seq(Frames) /\ queue[t] # <<>>
    BY <1>1 DEF NonEmpty, TypeOK
  <2>2. Head(queue[t]) \in Frames
    BY <2>1, HeadTailProperties
  <2> QED BY <2>2 DEF Frames, FrontStamp
<1>3. CASE MatchByRate
  <2>1. PICK s \in SortedFronts : Cut(Chain(s))
    BY <1>3 DEF MatchByRate
  <2> DEFINE n == Cardinality(NonEmpty)
             Follows(m) == Within(FrontStamp(s[m]), FrontStamp(s[m-1]), MinGap(s[m], s[m-1]))
  <2>2. /\ s \in [1..n -> NonEmpty] /\ DOMAIN s = 1..n
        /\ \A i, j \in 1..n : i # j => s[i] # s[j]
        /\ \A i, j \in 1..n : i < j => FrontStamp(s[i]) <= FrontStamp(s[j])
    BY DEF SortedFronts
  <2>3. Chain(s) = {s[i] : i \in {j \in 1..n : \A m \in 2..j : Follows(m)}}
    BY <2>2 DEF Chain
  <2> HIDE DEF Follows
  <2>4. Chain(s) \in SUBSET NonEmpty
    BY <2>2, <2>3
  <2>5. ASSUME NEW t \in Chain(s)
        PROVE  \/ \A u \in Chain(s) : FrontStamp(t) <= FrontStamp(u)
               \/ \E u \in Chain(s) \ {t} : Within(FrontStamp(t), FrontStamp(u), MinGap(t, u))
    <3>1. PICK j \in 1..n : t = s[j] /\ \A m \in 2..j : Follows(m)
      BY <2>3
    <3>2. CASE j = 1
      <4>1. ASSUME NEW u \in Chain(s) PROVE FrontStamp(t) <= FrontStamp(u)
        <5>1. PICK k \in 1..n : u = s[k]
          BY <2>3
        <5>2. k = 1 \/ 1 < k
          BY <1>1
        <5> QED BY <1>1, <1>2, <2>2, <3>1, <3>2, <5>1, <5>2
      <4> QED BY <4>1
    <3>3. CASE j # 1
      <4>1. /\ j - 1 \in 1..n /\ j - 1 # j /\ j \in 2..j
            /\ \A m \in 2..(j - 1) : m \in 2..j
        BY <1>1, <3>3
      <4>2. s[j-1] \in Chain(s) /\ s[j-1] # t
        BY <2>2, <2>3, <3>1, <4>1
      <4>3. Follows(j)
        BY <3>1, <4>1
      <4> QED BY <3>1, <4>2, <4>3 DEF Follows
    <3> QED BY <3>2, <3>3
  <2>6. Chain(s) # {}
    <3>1. NonEmpty # {}
      BY <1>3 DEF MatchByRate
    <3>2. 1 \in 1..n
      BY <1>1, <3>1, FS_EmptySet
    <3>3. \A m \in 2..1 : Follows(m)
      OBVIOUS
    <3> QED BY <2>3, <3>2, <3>3
  <2> QED BY <2>1, <2>4, <2>5, <2>6
<1>4. CASE MatchByPrecision
  <2> DEFINE matched == {t \in NonEmpty : Within(FrontStamp(t), FrontStamp(miniType),
                                                 MinGap(t, miniType))}
  <2>1. Cut(matched) /\ miniType \in NonEmpty
    BY <1>4 DEF MatchByPrecision
  <2>2. matched \in SUBSET NonEmpty
    OBVIOUS
  <2>3. \A u \in matched : FrontStamp(miniType) <= FrontStamp(u)
    BY <1>2, <2>1 DEF Within
  <2>4. miniType \in matched
    <3>1. setup.halfGap[miniType] \in Nat
      BY <1>1, <2>1, AggregatorAssumption DEF TypeOK
    <3> QED BY <1>2, <2>1, <3>1 DEF Within, MinGap
  <2>5. \A t \in matched : Within(FrontStamp(t), FrontStamp(miniType), MinGap(t, miniType))
    OBVIOUS
  <2> HIDE DEF matched
  <2> QED BY <2>1, <2>2, <2>3, <2>4, <2>5
<1> QED BY <1>3, <1>4

(* No frame of a synchronised frameset stands alone: but for the earliest, *)
(* each follows another within the smaller of their half gaps, for streams *)
(* of any rates and any stamps.                                            *)
THEOREM FramesetCoherentHolds == Spec => []FramesetCoherent
<1>1. Init => FramesetCoherent
  BY DEF Init, FramesetCoherent
<1>2. TypeOK /\ FramesetCoherent /\ [Next]_vars => FramesetCoherent'
  <2> SUFFICES ASSUME TypeOK, FramesetCoherent, [Next]_vars PROVE FramesetCoherent'
    OBVIOUS
  <2>1. setup' = setup
    BY DEF Next, vars
  <2>2. CASE MatchByRate \/ MatchByPrecision
    <3>1. PICK matched \in SUBSET NonEmpty :
            /\ Cut(matched)
            /\ \A t \in matched :
                 \/ \A u \in matched : FrontStamp(t) <= FrontStamp(u)
                 \/ \E u \in matched \ {t} : Within(FrontStamp(t), FrontStamp(u), MinGap(t, u))
      BY <2>2, CoherentMatch
    <3>2. /\ DOMAIN frameset' = matched
          /\ \A t \in matched : frameset'[t].stamp = FrontStamp(t)
      BY <3>1 DEF Cut, FrontStamp
    <3>3. \A t, u \in matched : MinGap(t, u)' = MinGap(t, u)
      BY <2>1 DEF MinGap
    <3> QED BY <3>1, <3>2, <3>3 DEF FramesetCoherent
  <2>3. CASE MatchAsync
    <3>1. ~Synchronous /\ Synchronous' = Synchronous
      BY <2>3 DEF MatchAsync, Cut, Synchronous
    <3> QED BY <3>1 DEF FramesetCoherent
  <2>4. CASE pc' # "output"
    BY <2>4 DEF FramesetCoherent
  <2>5. CASE UNCHANGED vars
    <3>1. Synchronous' = Synchronous /\ pc' = pc /\ frameset' = frameset
      BY <2>5 DEF vars, Synchronous
    <3>2. \A t, u : MinGap(t, u)' = MinGap(t, u)
      BY <2>1 DEF MinGap
    <3> QED BY <3>1, <3>2 DEF FramesetCoherent
  <2>6. CASE Configure \/ Push \/ LoopEnd \/ OutputFrameset
    <3>1. pc' # "output"
      BY <2>6 DEF Configure, UpdateConfig, EnableFrameSync, ClearAllFrameQueue, MayConfigure,
         Push, PushFrame, LoopEnd, OutputFrameset
    <3> QED BY <2>4, <3>1
  <2> QED BY <2>2, <2>3, <2>5, <2>6 DEF Next, Aggregate
<1> QED BY <1>1, <1>2, TypeCorrect, PTL DEF Spec
=============================================================================
