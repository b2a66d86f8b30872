--------------------------- MODULE PlaybackProofs ---------------------------
(***************************************************************************)
(* What holds of the player for any file, any sensors, any capacity of the *)
(* frame queues and any number of calls, on two threads and against the    *)
(* loop: what a stop leaves behind is bounded, and a stopped player stands *)
(* at the beginning of the file.                                           *)
(***************************************************************************)
EXTENDS Playback, SequenceTheorems, WellFoundedInduction, TLAPS

(* activeSensors_ are sensors whose queue is served; the one stopStream    *)
(* works on is none of them any more.                                      *)
Served ==
  /\ \A s \in active : server[s] = "serving"
  /\ app.at = "flush" => server[app.sensor] = "flushing"

(* A read is begun before the end of the file; the frame read is kept to   *)
(* the end of the round, and the one of a seek until it is enqueued.       *)
Placed ==
  /\ loop = "read" => position <= Len(File)
  /\ loop \in {"time", "doze", "check", "test", "enqueue"} => hand \in 1..Len(File)
  /\ control = "preview_enqueue" => previews # {}

(* A rewinding forgets that the file was moved only when no seek is under  *)
(* way and none is left for the loop to see.                               *)
Settled == ~moved => ~seekOccurred /\ control \in {"idle", "enter"}

(* The loop begins no round on a stopped player, so that it takes at most  *)
(* what it was about to read.                                              *)
Rewound ==
  status = "stopped" /\ ~moved =>
    /\ position <= 2
    /\ loop \in {"load", "clear", "eof", "read"} => position = 1

(* Frames that have passed the test of activeSensors_: they may come into  *)
(* the queue although nobody serves it any more.                           *)
OfLoop(s) == IF loop = "enqueue" /\ File[hand] = s THEN 1 ELSE 0
OfSeek(s) == IF control = "preview_enqueue" /\ File[First] = s THEN 1 ELSE 0
Few == \A s \in Sensors : server[s] = "none" => Len(queue[s]) + OfLoop(s) + OfSeek(s) <= 2

PlaybackInv == TypeOK /\ Served /\ Placed /\ Settled /\ Rewound /\ Few
-----------------------------------------------------------------------------
(* The file has a frame.                                                   *)
LEMMA FileFacts ==
  /\ Len(File) \in Nat \ {0} /\ End = Len(File) + 1
  /\ \A f \in 1..Len(File) : File[f] \in Sensors
  /\ 0 \in 0..Len(File) /\ 1 \in 1..End /\ 1 \in 1..Len(File)
  /\ \A p \in 1..Len(File) : p \in 0..Len(File) /\ p \in 1..End /\ p + 1 \in 1..End
<1>1. File \in Seq(Sensors) /\ File # <<>>
  BY PlaybackAssumption
<1>2. Len(File) \in Nat /\ Len(File) # 0 /\ DOMAIN File = 1..Len(File)
  BY <1>1, LenProperties, EmptySeq
<1> QED BY <1>1, <1>2 DEF End

LEMMA FirstIsMember ==
  ASSUME TypeOK, previews # {}
  PROVE  First \in previews /\ First \in 1..Len(File)
<1> DEFINE R == OpToRel(<, Nat)
<1>1. IsWellFoundedOn(R, Nat)
  BY NatLessThanWellFounded
<1>2. \A x, y \in Nat : y < x => <<y, x>> \in R
  BY DEF OpToRel
<1> HIDE DEF R
<1>3. previews \subseteq Nat /\ previews \subseteq 1..Len(File)
  BY DEF TypeOK
<1>4. PICK x \in previews : \A y \in previews : <<y, x>> \notin R
  BY <1>1, <1>3, WFMin
<1>5. ASSUME NEW y \in previews PROVE x <= y
  <2>1. ~(y < x)
    BY <1>2, <1>3, <1>4
  <2>2. x \in Nat /\ y \in Nat
    BY <1>3
  <2> QED BY <2>1, <2>2
<1>6. First \in previews
  BY <1>5 DEF First
<1> QED BY <1>3, <1>6

(* FrameQueue::enqueue adds a frame to one queue at most.                  *)
LEMMA EnqueuedFacts ==
  ASSUME TypeOK, NEW f \in 1..Len(File)
  PROVE  /\ Enqueued(f) \in [Sensors -> Seq(1..Len(File))]
         /\ \A s \in Sensors : /\ Len(Enqueued(f)[s]) <= Capacity
                               /\ Len(queue[s]) \in Nat
                               /\ Len(Enqueued(f)[s]) \in Nat
                               /\ Len(Enqueued(f)[s]) <= Len(queue[s]) + 1
                               /\ s # File[f] => Enqueued(f)[s] = queue[s]
<1> DEFINE s == File[f]
           q == queue[s]
<1>1. s \in Sensors /\ Capacity \in Nat
  BY FileFacts, PlaybackAssumption
<1>2. queue \in [Sensors -> Seq(1..Len(File))] /\ \A x \in Sensors : Len(queue[x]) \in Nat
  BY LenProperties DEF TypeOK
<1>3. Append(q, f) \in Seq(1..Len(File)) /\ Len(Append(q, f)) = Len(q) + 1 /\ Len(q) \in Nat
  BY <1>1, <1>2, AppendProperties
<1>4. CASE server[s] # "flushing" /\ Len(q) < Capacity
  <2>1. Enqueued(f) = [queue EXCEPT ![s] = Append(q, f)]
    BY <1>4 DEF Enqueued
  <2>2. /\ Enqueued(f) \in [Sensors -> Seq(1..Len(File))]
        /\ Enqueued(f)[s] = Append(q, f)
        /\ \A x \in Sensors : x # s => Enqueued(f)[x] = queue[x]
    BY <1>1, <1>2, <1>3, <2>1
  <2> HIDE DEF s, q
  <2>3. ASSUME NEW x \in Sensors
        PROVE  /\ Len(Enqueued(f)[x]) <= Capacity /\ Len(Enqueued(f)[x]) \in Nat
               /\ Len(Enqueued(f)[x]) <= Len(queue[x]) + 1
    <3>1. CASE x = s
      BY <1>1, <1>3, <1>4, <2>2, <3>1 DEF q
    <3>2. CASE x # s
      BY <1>1, <1>2, <2>2, <3>2 DEF TypeOK
    <3> QED BY <3>1, <3>2
  <2> QED BY <1>2, <2>2, <2>3 DEF s
<1>5. CASE ~(server[s] # "flushing" /\ Len(q) < Capacity)
  <2>1. Enqueued(f) = queue
    BY <1>5 DEF Enqueued
  <2> QED BY <1>2, <2>1 DEF TypeOK
<1> QED BY <1>4, <1>5

(* The types in three parts.                                               *)
QueueTypes ==
  /\ queue \in [Sensors -> Seq(1..Len(File))]
  /\ \A s \in Sensors : Len(queue[s]) <= Capacity
  /\ server \in [Sensors -> {"none", "serving", "flushing"}]

LoopTypes ==
  /\ position \in 1..End /\ lastTime \in 1..End /\ hand \in 0..Len(File)
  /\ loop \in LoopState
  /\ seeking \in BOOLEAN

CallTypes ==
  /\ status \in {"stopped", "playing", "paused"}
  /\ active \subseteq Sensors /\ started \subseteq Sensors
  /\ seekOccurred \in BOOLEAN /\ looping \in BOOLEAN
  /\ moved \in BOOLEAN /\ unnoticed \in BOOLEAN
  /\ app \in [at : {"started", "play", "enter", "flush"}, sensor : Sensors]
              \cup [at : {"idle", "join", "destroyed"}]
  /\ control \in {"idle", "enter", "sought", "preview", "preview_enqueue", "flag", "notify"}
  /\ previews \subseteq 1..Len(File)
  /\ starts \in 0..MaxStarts /\ controls \in 0..MaxControls

LEMMA TypeParts ==
  /\ TypeOK <=> QueueTypes /\ LoopTypes /\ CallTypes
  /\ QueueTypes' /\ LoopTypes' /\ CallTypes' => TypeOK'
<1>1. TypeOK <=> QueueTypes /\ LoopTypes /\ CallTypes
  BY DEF TypeOK, QueueTypes, LoopTypes, CallTypes
<1>2. QueueTypes' /\ LoopTypes' /\ CallTypes' => TypeOK'
  BY DEF TypeOK, QueueTypes, LoopTypes, CallTypes
<1> QED BY <1>1, <1>2

LEMMA InitInv == Init => PlaybackInv
<1> SUFFICES ASSUME Init PROVE PlaybackInv
  OBVIOUS
<1> USE FileFacts, PlaybackAssumption DEF Init
<1>1. QueueTypes
  <2>1. \A s \in Sensors : queue[s] \in Seq(1..Len(File)) /\ Len(queue[s]) = 0
    BY EmptySeq
  <2> QED BY <2>1 DEF QueueTypes
<1>2. LoopTypes
  BY DEF LoopTypes, LoopState
<1>3. CallTypes
  <2>1. starts \in 0..MaxStarts /\ controls \in 0..MaxControls
    OBVIOUS
  <2>2. app = [at |-> "idle"] /\ app \in [at : {"idle", "join", "destroyed"}]
    BY DEF Idle
  <2> QED BY <2>1, <2>2 DEF CallTypes
<1>4. Served /\ Placed /\ Settled /\ Rewound
  BY DEF Served, Placed, Settled, Rewound, Idle
<1>5. Few
  BY EmptySeq DEF Few, OfLoop, OfSeek
<1> QED BY <1>1, <1>2, <1>3, <1>4, <1>5, TypeParts DEF PlaybackInv

(* Every step keeps the types.                                             *)
LEMMA QueueTypesStep ==
  ASSUME TypeOK, QueueTypes, LoopTypes, CallTypes, Placed, [Next]_vars
  PROVE  QueueTypes'
<1> USE PlaybackAssumption, FileFacts DEF QueueTypes, LoopTypes, CallTypes,
     queueVars, fileVars, loopVars, countVars, Idle, Calling, End
<1>1. ASSUME NEW s \in Sensors, StartStream(s) PROVE QueueTypes'
  BY <1>1 DEF StartStream, Free
<1>2. ASSUME NEW s \in Sensors, StopStream(s) PROVE QueueTypes'
  BY <1>2 DEF StopStream, Free
<1>3. CASE Destroy
  BY <1>3 DEF Destroy, Free, Notify
<1>4. CASE StartReadsStatus
  BY <1>4 DEF StartReadsStatus
<1>5. CASE StartPlays
  BY <1>5 DEF StartPlays
<1>6. CASE StartEnters
  BY <1>6 DEF StartEnters, Entered, Notify
<1>7. CASE StopReturns
  BY <1>7 DEF StopReturns, Rewind, Notify
<1>8. CASE Joined
  BY <1>8 DEF Joined
<1>9. CASE Pause
  BY <1>9 DEF Pause, ControlCall, Notify
<1>10. CASE Resume
  BY <1>10 DEF Resume, ControlCall
<1>11. ASSUME NEW p \in 1..Len(File), Seek(p) PROVE QueueTypes'
  BY <1>11 DEF Seek, ControlCall
<1>12. CASE ResumeEnters
  BY <1>12 DEF ResumeEnters, Entered, Notify
<1>13. CASE SeekReadsStatus
  BY <1>13 DEF SeekReadsStatus, SeekMove
<1>14. CASE PreviewTests
  BY <1>14 DEF PreviewTests, SeekMove
<1>15. CASE PreviewEnqueues
  <2>1. queue' = Enqueued(First) /\ First \in 1..Len(File) /\ server' = server
    BY <1>15, FirstIsMember DEF PreviewEnqueues, SeekMove, Placed
  <2> QED BY <2>1, EnqueuedFacts
<1>16. CASE PreviewEnds \/ SeekThrows
  BY <1>16 DEF PreviewEnds, SeekThrows, SeekMove
<1>17. CASE SeekFlags
  BY <1>17 DEF SeekFlags, SeekMove
<1>18. CASE SeekNotifies
  BY <1>18 DEF SeekNotifies, SeekMove, Notify
<1>19. CASE LoopWaits
  BY <1>19 DEF LoopWaits, LoopMove, Keeps, NoEffect, HasWork
<1>20. CASE LoopSleeps
  BY <1>20 DEF LoopSleeps, LoopMove, Keeps, NoEffect
<1>21. CASE LoopLoads
  BY <1>21 DEF LoopLoads, LoopMove, NoEffect
<1>22. CASE LoopClears
  BY <1>22 DEF LoopClears, LoopMove, Keeps
<1>23. CASE LoopLooksForEnd
  BY <1>23 DEF LoopLooksForEnd, LoopMove, Keeps, NoEffect
<1>24. CASE ReadNextData
  BY <1>24 DEF ReadNextData, LoopReads, LoopReadsNothing, LoopMove, NextRound
<1>25. CASE LoopNotesTime
  BY <1>25 DEF LoopNotesTime, LoopMove, NoEffect
<1>26. CASE LoopWakes
  BY <1>26 DEF LoopWakes, LoopMove, KeepsUnless, NextRound, Keeps, NoEffect
<1>27. CASE LoopChecks
  BY <1>27 DEF LoopChecks, LoopMove, NoEffect
<1>28. CASE LoopTests
  BY <1>28 DEF LoopTests, LoopMove, KeepsUnless, NextRound, Keeps, NoEffect
<1>29. CASE LoopEnqueues
  <2>1. queue' = Enqueued(hand) /\ hand \in 1..Len(File) /\ server' = server
    BY <1>29 DEF LoopEnqueues, LoopMove, Placed
  <2> QED BY <2>1, EnqueuedFacts
<1>30. CASE StopAllStream
  BY <1>30 DEF StopAllStream, LoopMove, Rewind, NextRound
<1>31. ASSUME NEW s \in Sensors, Deliver(s) PROVE QueueTypes'
  <2>1. /\ queue[s] \in Seq(1..Len(File)) /\ queue[s] # <<>>
        /\ queue' = [queue EXCEPT ![s] = Tail(queue[s])] /\ server' = server
    BY <1>31 DEF Deliver
  <2>2. Tail(queue[s]) \in Seq(1..Len(File)) /\ Len(Tail(queue[s])) = Len(queue[s]) - 1
    BY <2>1, HeadTailProperties
  <2>3. Len(queue[s]) \in Nat /\ Len(queue[s]) <= Capacity /\ Capacity \in Nat
    BY <2>1, LenProperties
  <2> QED BY <2>1, <2>2, <2>3, SMTT(30)
<1>32. CASE UNCHANGED vars
  BY <1>32 DEF vars
<1> QED BY <1>1, <1>2, <1>3, <1>4, <1>5, <1>6, <1>7, <1>8, <1>9, <1>10, <1>11,
     <1>12, <1>13, <1>14, <1>15, <1>16, <1>17, <1>18, <1>19, <1>20, <1>21,
     <1>22, <1>23, <1>24, <1>25, <1>26, <1>27, <1>28, <1>29, <1>30, <1>31,
     <1>32 DEF Next, AppCalls, App, ControlCalls, Control, Loop

LEMMA LoopTypesStep ==
  ASSUME QueueTypes, LoopTypes, CallTypes, Placed, [Next]_vars
  PROVE  LoopTypes'
<1> USE FileFacts DEF LoopTypes, LoopState, CallTypes, queueVars, fileVars,
     loopVars, countVars, Idle, Calling
<1>1. ASSUME NEW s \in Sensors, StartStream(s) PROVE LoopTypes'
  BY <1>1 DEF StartStream, Free
<1>2. ASSUME NEW s \in Sensors, StopStream(s) PROVE LoopTypes'
  BY <1>2 DEF StopStream, Free
<1>3. CASE Destroy
  BY <1>3 DEF Destroy, Free, Notify
<1>4. CASE StartReadsStatus
  BY <1>4 DEF StartReadsStatus
<1>5. CASE StartPlays
  BY <1>5 DEF StartPlays
<1>6. CASE StartEnters
  BY <1>6 DEF StartEnters, Entered, Notify
<1>7. CASE StopReturns
  BY <1>7 DEF StopReturns, Rewind, Notify
<1>8. CASE Joined
  BY <1>8 DEF Joined
<1>9. CASE Pause
  BY <1>9 DEF Pause, ControlCall, Notify
<1>10. CASE Resume
  BY <1>10 DEF Resume, ControlCall
<1>11. ASSUME NEW p \in 1..Len(File), Seek(p) PROVE LoopTypes'
  BY <1>11 DEF Seek, ControlCall
<1>12. CASE ResumeEnters
  BY <1>12 DEF ResumeEnters, Entered, Notify
<1>13. CASE SeekReadsStatus
  BY <1>13 DEF SeekReadsStatus, SeekMove
<1>14. CASE PreviewTests
  BY <1>14 DEF PreviewTests, SeekMove
<1>15. CASE PreviewEnqueues
  BY <1>15 DEF PreviewEnqueues, SeekMove
<1>16. CASE PreviewEnds \/ SeekThrows
  BY <1>16 DEF PreviewEnds, SeekThrows, SeekMove
<1>17. CASE SeekFlags
  BY <1>17 DEF SeekFlags, SeekMove
<1>18. CASE SeekNotifies
  BY <1>18 DEF SeekNotifies, SeekMove, Notify
<1>19. CASE LoopWaits
  BY <1>19 DEF LoopWaits, LoopMove, Keeps, NoEffect, HasWork
<1>20. CASE LoopSleeps
  BY <1>20 DEF LoopSleeps, LoopMove, Keeps, NoEffect
<1>21. CASE LoopLoads
  BY <1>21 DEF LoopLoads, LoopMove, NoEffect
<1>22. CASE LoopClears
  BY <1>22 DEF LoopClears, LoopMove, Keeps
<1>23. CASE LoopLooksForEnd
  BY <1>23 DEF LoopLooksForEnd, LoopMove, Keeps, NoEffect
<1>24. CASE ReadNextData
  <2>1. position \in 1..Len(File) /\ position' = position + 1
    BY <1>24 DEF ReadNextData, LoopReads, LoopReadsNothing, LoopMove, Placed
  <2> QED BY <1>24, <2>1 DEF ReadNextData, LoopReads, LoopReadsNothing, LoopMove, NextRound
<1>25. CASE LoopNotesTime
  BY <1>25 DEF LoopNotesTime, LoopMove, NoEffect
<1>26. CASE LoopWakes
  BY <1>26 DEF LoopWakes, LoopMove, KeepsUnless, NextRound, Keeps, NoEffect
<1>27. CASE LoopChecks
  BY <1>27 DEF LoopChecks, LoopMove, NoEffect
<1>28. CASE LoopTests
  BY <1>28 DEF LoopTests, LoopMove, KeepsUnless, NextRound, Keeps, NoEffect
<1>29. CASE LoopEnqueues
  BY <1>29 DEF LoopEnqueues, LoopMove, NextRound
<1>30. CASE StopAllStream
  BY <1>30 DEF StopAllStream, LoopMove, Rewind, NextRound
<1>31. ASSUME NEW s \in Sensors, Deliver(s) PROVE LoopTypes'
  BY <1>31 DEF Deliver
<1>32. CASE UNCHANGED vars
  BY <1>32 DEF vars
<1> QED BY <1>1, <1>2, <1>3, <1>4, <1>5, <1>6, <1>7, <1>8, <1>9, <1>10, <1>11,
     <1>12, <1>13, <1>14, <1>15, <1>16, <1>17, <1>18, <1>19, <1>20, <1>21,
     <1>22, <1>23, <1>24, <1>25, <1>26, <1>27, <1>28, <1>29, <1>30, <1>31,
     <1>32 DEF Next, AppCalls, App, ControlCalls, Control, Loop

LEMMA CallTypesStep ==
  ASSUME QueueTypes, LoopTypes, CallTypes, Placed, [Next]_vars
  PROVE  CallTypes'
<1> USE PlaybackAssumption DEF LoopTypes, CallTypes, queueVars, fileVars,
     loopVars, countVars, Idle, Calling, End
<1>1. ASSUME NEW s \in Sensors, StartStream(s) PROVE CallTypes'
  BY <1>1 DEF StartStream, Free
<1>2. ASSUME NEW s \in Sensors, StopStream(s) PROVE CallTypes'
  BY <1>2 DEF StopStream, Free
<1>3. CASE Destroy
  BY <1>3 DEF Destroy, Free, Notify
<1>4. CASE StartReadsStatus
  BY <1>4 DEF StartReadsStatus
<1>5. CASE StartPlays
  BY <1>5 DEF StartPlays
<1>6. CASE StartEnters
  BY <1>6 DEF StartEnters, Entered, Notify
<1>7. CASE StopReturns
  BY <1>7 DEF StopReturns, Rewind, Notify
<1>8. CASE Joined
  BY <1>8 DEF Joined
<1>9. CASE Pause
  BY <1>9 DEF Pause, ControlCall, Notify
<1>10. CASE Resume
  BY <1>10 DEF Resume, ControlCall
<1>11. ASSUME NEW p \in 1..Len(File), Seek(p) PROVE CallTypes'
  BY <1>11 DEF Seek, ControlCall
<1>12. CASE ResumeEnters
  BY <1>12 DEF ResumeEnters, Entered, Notify
<1>13. CASE SeekReadsStatus
  <2>1. LastFrames(position) \subseteq 1..Len(File)
    BY FileFacts DEF LastFrames
  <2> QED BY <1>13, <2>1 DEF SeekReadsStatus, SeekMove
<1>14. CASE PreviewTests
  BY <1>14 DEF PreviewTests, SeekMove
<1>15. CASE PreviewEnqueues
  BY <1>15 DEF PreviewEnqueues, SeekMove
<1>16. CASE PreviewEnds \/ SeekThrows
  BY <1>16 DEF PreviewEnds, SeekThrows, SeekMove
<1>17. CASE SeekFlags
  BY <1>17 DEF SeekFlags, SeekMove
<1>18. CASE SeekNotifies
  BY <1>18 DEF SeekNotifies, SeekMove, Notify
<1>19. CASE LoopWaits
  BY <1>19 DEF LoopWaits, LoopMove, Keeps, NoEffect, HasWork
<1>20. CASE LoopSleeps
  BY <1>20 DEF LoopSleeps, LoopMove, Keeps, NoEffect
<1>21. CASE LoopLoads
  BY <1>21 DEF LoopLoads, LoopMove, NoEffect
<1>22. CASE LoopClears
  BY <1>22, ZenonT(30) DEF LoopClears, LoopMove, Keeps
<1>23. CASE LoopLooksForEnd
  BY <1>23 DEF LoopLooksForEnd, LoopMove, Keeps, NoEffect
<1>24. CASE ReadNextData
  BY <1>24, ZenonT(30) DEF ReadNextData, LoopReads, LoopReadsNothing, LoopMove, NextRound
<1>25. CASE LoopNotesTime
  BY <1>25 DEF LoopNotesTime, LoopMove, NoEffect
<1>26. CASE LoopWakes
  BY <1>26 DEF LoopWakes, LoopMove, KeepsUnless, NextRound, Keeps, NoEffect
<1>27. CASE LoopChecks
  BY <1>27 DEF LoopChecks, LoopMove, NoEffect
<1>28. CASE LoopTests
  BY <1>28 DEF LoopTests, LoopMove, KeepsUnless, NextRound, Keeps, NoEffect
<1>29. CASE LoopEnqueues
  BY <1>29 DEF LoopEnqueues, LoopMove, NextRound
<1>30. CASE StopAllStream
  BY <1>30 DEF StopAllStream, LoopMove, Rewind, NextRound
<1>31. ASSUME NEW s \in Sensors, Deliver(s) PROVE CallTypes'
  BY <1>31 DEF Deliver
<1>32. CASE UNCHANGED vars
  BY <1>32 DEF vars
<1> QED BY <1>1, <1>2, <1>3, <1>4, <1>5, <1>6, <1>7, <1>8, <1>9, <1>10, <1>11,
     <1>12, <1>13, <1>14, <1>15, <1>16, <1>17, <1>18, <1>19, <1>20, <1>21,
     <1>22, <1>23, <1>24, <1>25, <1>26, <1>27, <1>28, <1>29, <1>30, <1>31,
     <1>32 DEF Next, AppCalls, App, ControlCalls, Control, Loop

(* Only a sensor whose queue is served is active.                          *)
LEMMA ServedStep ==
  ASSUME TypeOK, Served, [Next]_vars
  PROVE  Served'
<1> USE  DEF Served, TypeOK, queueVars, fileVars, loopVars, countVars, Idle,
     Calling, End
<1>1. ASSUME NEW s \in Sensors, StartStream(s) PROVE Served'
  BY <1>1 DEF StartStream, Free
<1>2. ASSUME NEW s \in Sensors, StopStream(s) PROVE Served'
  BY <1>2 DEF StopStream, Free
<1>3. CASE Destroy
  BY <1>3 DEF Destroy, Free, Notify
<1>4. CASE StartReadsStatus
  BY <1>4 DEF StartReadsStatus
<1>5. CASE StartPlays
  BY <1>5 DEF StartPlays
<1>6. CASE StartEnters
  BY <1>6 DEF StartEnters, Entered, Notify
<1>7. CASE StopReturns
  BY <1>7 DEF StopReturns, Rewind, Notify
<1>8. CASE Joined
  BY <1>8 DEF Joined
<1>9. CASE Pause
  BY <1>9 DEF Pause, ControlCall, Notify
<1>10. CASE Resume
  BY <1>10 DEF Resume, ControlCall
<1>11. ASSUME NEW p \in 1..Len(File), Seek(p) PROVE Served'
  BY <1>11 DEF Seek, ControlCall
<1>12. CASE ResumeEnters
  BY <1>12 DEF ResumeEnters, Entered, Notify
<1>13. CASE SeekReadsStatus
  BY <1>13 DEF SeekReadsStatus, SeekMove
<1>14. CASE PreviewTests
  BY <1>14 DEF PreviewTests, SeekMove
<1>15. CASE PreviewEnqueues
  BY <1>15 DEF PreviewEnqueues, SeekMove
<1>16. CASE PreviewEnds \/ SeekThrows
  BY <1>16 DEF PreviewEnds, SeekThrows, SeekMove
<1>17. CASE SeekFlags
  BY <1>17 DEF SeekFlags, SeekMove
<1>18. CASE SeekNotifies
  BY <1>18 DEF SeekNotifies, SeekMove, Notify
<1>19. CASE LoopWaits
  BY <1>19 DEF LoopWaits, LoopMove, Keeps, NoEffect, HasWork
<1>20. CASE LoopSleeps
  BY <1>20 DEF LoopSleeps, LoopMove, Keeps, NoEffect
<1>21. CASE LoopLoads
  BY <1>21 DEF LoopLoads, LoopMove, NoEffect
<1>22. CASE LoopClears
  BY <1>22 DEF LoopClears, LoopMove, Keeps
<1>23. CASE LoopLooksForEnd
  BY <1>23 DEF LoopLooksForEnd, LoopMove, Keeps, NoEffect
<1>24. CASE ReadNextData
  BY <1>24 DEF ReadNextData, LoopReads, LoopReadsNothing, LoopMove, NextRound
<1>25. CASE LoopNotesTime
  BY <1>25 DEF LoopNotesTime, LoopMove, NoEffect
<1>26. CASE LoopWakes
  BY <1>26 DEF LoopWakes, LoopMove, KeepsUnless, NextRound, Keeps, NoEffect
<1>27. CASE LoopChecks
  BY <1>27 DEF LoopChecks, LoopMove, NoEffect
<1>28. CASE LoopTests
  BY <1>28 DEF LoopTests, LoopMove, KeepsUnless, NextRound, Keeps, NoEffect
<1>29. CASE LoopEnqueues
  BY <1>29 DEF LoopEnqueues, LoopMove, NextRound
<1>30. CASE StopAllStream
  BY <1>30 DEF StopAllStream, LoopMove, Rewind, NextRound
<1>31. ASSUME NEW s \in Sensors, Deliver(s) PROVE Served'
  BY <1>31 DEF Deliver
<1>32. CASE UNCHANGED vars
  BY <1>32 DEF vars
<1> QED BY <1>1, <1>2, <1>3, <1>4, <1>5, <1>6, <1>7, <1>8, <1>9, <1>10, <1>11,
     <1>12, <1>13, <1>14, <1>15, <1>16, <1>17, <1>18, <1>19, <1>20, <1>21,
     <1>22, <1>23, <1>24, <1>25, <1>26, <1>27, <1>28, <1>29, <1>30, <1>31,
     <1>32 DEF Next, AppCalls, App, ControlCalls, Control, Loop

(* A read is begun before the end, and what was read is kept to the end    *)
(* of the round.                                                           *)
LEMMA PlacedStep ==
  ASSUME TypeOK, Placed, [Next]_vars
  PROVE  Placed'
<1> USE FileFacts DEF Placed, TypeOK, queueVars, fileVars, loopVars,
     countVars, Idle, Calling, End
<1>1. ASSUME NEW s \in Sensors, StartStream(s) PROVE Placed'
  BY <1>1 DEF StartStream, Free
<1>2. ASSUME NEW s \in Sensors, StopStream(s) PROVE Placed'
  BY <1>2 DEF StopStream, Free
<1>3. CASE Destroy
  BY <1>3 DEF Destroy, Free, Notify
<1>4. CASE StartReadsStatus
  BY <1>4 DEF StartReadsStatus
<1>5. CASE StartPlays
  BY <1>5 DEF StartPlays
<1>6. CASE StartEnters
  BY <1>6 DEF StartEnters, Entered, Notify
<1>7. CASE StopReturns
  BY <1>7 DEF StopReturns, Rewind, Notify
<1>8. CASE Joined
  BY <1>8 DEF Joined
<1>9. CASE Pause
  BY <1>9 DEF Pause, ControlCall, Notify
<1>10. CASE Resume
  BY <1>10 DEF Resume, ControlCall
<1>11. ASSUME NEW p \in 1..Len(File), Seek(p) PROVE Placed'
  BY <1>11 DEF Seek, ControlCall
<1>12. CASE ResumeEnters
  BY <1>12 DEF ResumeEnters, Entered, Notify
<1>13. CASE SeekReadsStatus
  BY <1>13 DEF SeekReadsStatus, SeekMove
<1>14. CASE PreviewTests
  BY <1>14 DEF PreviewTests, SeekMove
<1>15. CASE PreviewEnqueues
  BY <1>15 DEF PreviewEnqueues, SeekMove
<1>16. CASE PreviewEnds \/ SeekThrows
  BY <1>16 DEF PreviewEnds, SeekThrows, SeekMove
<1>17. CASE SeekFlags
  BY <1>17 DEF SeekFlags, SeekMove
<1>18. CASE SeekNotifies
  BY <1>18 DEF SeekNotifies, SeekMove, Notify
<1>19. CASE LoopWaits
  BY <1>19 DEF LoopWaits, LoopMove, Keeps, NoEffect, HasWork
<1>20. CASE LoopSleeps
  BY <1>20 DEF LoopSleeps, LoopMove, Keeps, NoEffect
<1>21. CASE LoopLoads
  BY <1>21 DEF LoopLoads, LoopMove, NoEffect
<1>22. CASE LoopClears
  BY <1>22 DEF LoopClears, LoopMove, Keeps
<1>23. CASE LoopLooksForEnd
  BY <1>23 DEF LoopLooksForEnd, LoopMove, Keeps, NoEffect
<1>24. CASE ReadNextData
  BY <1>24 DEF ReadNextData, LoopReads, LoopReadsNothing, LoopMove, NextRound
<1>25. CASE LoopNotesTime
  BY <1>25 DEF LoopNotesTime, LoopMove, NoEffect
<1>26. CASE LoopWakes
  BY <1>26 DEF LoopWakes, LoopMove, KeepsUnless, NextRound, Keeps, NoEffect
<1>27. CASE LoopChecks
  BY <1>27 DEF LoopChecks, LoopMove, NoEffect
<1>28. CASE LoopTests
  BY <1>28 DEF LoopTests, LoopMove, KeepsUnless, NextRound, Keeps, NoEffect
<1>29. CASE LoopEnqueues
  BY <1>29 DEF LoopEnqueues, LoopMove, NextRound
<1>30. CASE StopAllStream
  BY <1>30 DEF StopAllStream, LoopMove, Rewind, NextRound
<1>31. ASSUME NEW s \in Sensors, Deliver(s) PROVE Placed'
  BY <1>31 DEF Deliver
<1>32. CASE UNCHANGED vars
  BY <1>32 DEF vars
<1> QED BY <1>1, <1>2, <1>3, <1>4, <1>5, <1>6, <1>7, <1>8, <1>9, <1>10, <1>11,
     <1>12, <1>13, <1>14, <1>15, <1>16, <1>17, <1>18, <1>19, <1>20, <1>21,
     <1>22, <1>23, <1>24, <1>25, <1>26, <1>27, <1>28, <1>29, <1>30, <1>31,
     <1>32 DEF Next, AppCalls, App, ControlCalls, Control, Loop

(* moved is taken back only when no seek is under way.                     *)
LEMMA SettledStep ==
  ASSUME TypeOK, Settled, [Next]_vars
  PROVE  Settled'
<1> USE  DEF Settled, TypeOK, queueVars, fileVars, loopVars, countVars, Idle,
     Calling, End
<1>1. ASSUME NEW s \in Sensors, StartStream(s) PROVE Settled'
  BY <1>1 DEF StartStream, Free
<1>2. ASSUME NEW s \in Sensors, StopStream(s) PROVE Settled'
  BY <1>2 DEF StopStream, Free
<1>3. CASE Destroy
  BY <1>3 DEF Destroy, Free, Notify
<1>4. CASE StartReadsStatus
  BY <1>4 DEF StartReadsStatus
<1>5. CASE StartPlays
  BY <1>5 DEF StartPlays
<1>6. CASE StartEnters
  BY <1>6 DEF StartEnters, Entered, Notify
<1>7. CASE StopReturns
  BY <1>7 DEF StopReturns, Rewind, Notify
<1>8. CASE Joined
  BY <1>8 DEF Joined
<1>9. CASE Pause
  BY <1>9 DEF Pause, ControlCall, Notify
<1>10. CASE Resume
  BY <1>10 DEF Resume, ControlCall
<1>11. ASSUME NEW p \in 1..Len(File), Seek(p) PROVE Settled'
  BY <1>11 DEF Seek, ControlCall
<1>12. CASE ResumeEnters
  BY <1>12 DEF ResumeEnters, Entered, Notify
<1>13. CASE SeekReadsStatus
  BY <1>13 DEF SeekReadsStatus, SeekMove
<1>14. CASE PreviewTests
  BY <1>14 DEF PreviewTests, SeekMove
<1>15. CASE PreviewEnqueues
  BY <1>15 DEF PreviewEnqueues, SeekMove
<1>16. CASE PreviewEnds \/ SeekThrows
  BY <1>16 DEF PreviewEnds, SeekThrows, SeekMove
<1>17. CASE SeekFlags
  BY <1>17 DEF SeekFlags, SeekMove
<1>18. CASE SeekNotifies
  BY <1>18 DEF SeekNotifies, SeekMove, Notify
<1>19. CASE LoopWaits
  BY <1>19 DEF LoopWaits, LoopMove, Keeps, NoEffect, HasWork
<1>20. CASE LoopSleeps
  BY <1>20 DEF LoopSleeps, LoopMove, Keeps, NoEffect
<1>21. CASE LoopLoads
  BY <1>21 DEF LoopLoads, LoopMove, NoEffect
<1>22. CASE LoopClears
  BY <1>22 DEF LoopClears, LoopMove, Keeps
<1>23. CASE LoopLooksForEnd
  BY <1>23 DEF LoopLooksForEnd, LoopMove, Keeps, NoEffect
<1>24. CASE ReadNextData
  BY <1>24 DEF ReadNextData, LoopReads, LoopReadsNothing, LoopMove, NextRound
<1>25. CASE LoopNotesTime
  BY <1>25 DEF LoopNotesTime, LoopMove, NoEffect
<1>26. CASE LoopWakes
  BY <1>26 DEF LoopWakes, LoopMove, KeepsUnless, NextRound, Keeps, NoEffect
<1>27. CASE LoopChecks
  BY <1>27 DEF LoopChecks, LoopMove, NoEffect
<1>28. CASE LoopTests
  BY <1>28 DEF LoopTests, LoopMove, KeepsUnless, NextRound, Keeps, NoEffect
<1>29. CASE LoopEnqueues
  BY <1>29 DEF LoopEnqueues, LoopMove, NextRound
<1>30. CASE StopAllStream
  BY <1>30 DEF StopAllStream, LoopMove, Rewind, NextRound
<1>31. ASSUME NEW s \in Sensors, Deliver(s) PROVE Settled'
  BY <1>31 DEF Deliver
<1>32. CASE UNCHANGED vars
  BY <1>32 DEF vars
<1> QED BY <1>1, <1>2, <1>3, <1>4, <1>5, <1>6, <1>7, <1>8, <1>9, <1>10, <1>11,
     <1>12, <1>13, <1>14, <1>15, <1>16, <1>17, <1>18, <1>19, <1>20, <1>21,
     <1>22, <1>23, <1>24, <1>25, <1>26, <1>27, <1>28, <1>29, <1>30, <1>31,
     <1>32 DEF Next, AppCalls, App, ControlCalls, Control, Loop

(* A loop that finds the player stopped reads nothing more than what it    *)
(* was about to read.                                                      *)
LEMMA RewoundStep ==
  ASSUME TypeOK, Settled, Rewound, [Next]_vars
  PROVE  Rewound'
<1> USE FileFacts DEF Rewound, Settled, TypeOK, queueVars, fileVars, loopVars,
     countVars, Idle, Calling, End
<1>1. ASSUME NEW s \in Sensors, StartStream(s) PROVE Rewound'
  BY <1>1 DEF StartStream, Free
<1>2. ASSUME NEW s \in Sensors, StopStream(s) PROVE Rewound'
  BY <1>2 DEF StopStream, Free
<1>3. CASE Destroy
  BY <1>3 DEF Destroy, Free, Notify
<1>4. CASE StartReadsStatus
  BY <1>4 DEF StartReadsStatus
<1>5. CASE StartPlays
  BY <1>5 DEF StartPlays
<1>6. CASE StartEnters
  BY <1>6 DEF StartEnters, Entered, Notify
<1>7. CASE StopReturns
  BY <1>7 DEF StopReturns, Rewind, Notify
<1>8. CASE Joined
  BY <1>8 DEF Joined
<1>9. CASE Pause
  BY <1>9 DEF Pause, ControlCall, Notify
<1>10. CASE Resume
  BY <1>10 DEF Resume, ControlCall
<1>11. ASSUME NEW p \in 1..Len(File), Seek(p) PROVE Rewound'
  BY <1>11 DEF Seek, ControlCall
<1>12. CASE ResumeEnters
  BY <1>12 DEF ResumeEnters, Entered, Notify
<1>13. CASE SeekReadsStatus
  BY <1>13 DEF SeekReadsStatus, SeekMove
<1>14. CASE PreviewTests
  BY <1>14 DEF PreviewTests, SeekMove
<1>15. CASE PreviewEnqueues
  BY <1>15 DEF PreviewEnqueues, SeekMove
<1>16. CASE PreviewEnds \/ SeekThrows
  BY <1>16 DEF PreviewEnds, SeekThrows, SeekMove
<1>17. CASE SeekFlags
  BY <1>17 DEF SeekFlags, SeekMove
<1>18. CASE SeekNotifies
  BY <1>18 DEF SeekNotifies, SeekMove, Notify
<1>19. CASE LoopWaits
  BY <1>19 DEF LoopWaits, LoopMove, Keeps, NoEffect, HasWork
<1>20. CASE LoopSleeps
  BY <1>20 DEF LoopSleeps, LoopMove, Keeps, NoEffect
<1>21. CASE LoopLoads
  BY <1>21 DEF LoopLoads, LoopMove, NoEffect
<1>22. CASE LoopClears
  BY <1>22 DEF LoopClears, LoopMove, Keeps
<1>23. CASE LoopLooksForEnd
  BY <1>23 DEF LoopLooksForEnd, LoopMove, Keeps, NoEffect
<1>24. CASE ReadNextData
  BY <1>24 DEF ReadNextData, LoopReads, LoopReadsNothing, LoopMove, NextRound
<1>25. CASE LoopNotesTime
  BY <1>25 DEF LoopNotesTime, LoopMove, NoEffect
<1>26. CASE LoopWakes
  BY <1>26 DEF LoopWakes, LoopMove, KeepsUnless, NextRound, Keeps, NoEffect
<1>27. CASE LoopChecks
  BY <1>27 DEF LoopChecks, LoopMove, NoEffect
<1>28. CASE LoopTests
  BY <1>28 DEF LoopTests, LoopMove, KeepsUnless, NextRound, Keeps, NoEffect
<1>29. CASE LoopEnqueues
  BY <1>29 DEF LoopEnqueues, LoopMove, NextRound
<1>30. CASE StopAllStream
  BY <1>30 DEF StopAllStream, LoopMove, Rewind, NextRound
<1>31. ASSUME NEW s \in Sensors, Deliver(s) PROVE Rewound'
  BY <1>31 DEF Deliver
<1>32. CASE UNCHANGED vars
  BY <1>32 DEF vars
<1> QED BY <1>1, <1>2, <1>3, <1>4, <1>5, <1>6, <1>7, <1>8, <1>9, <1>10, <1>11,
     <1>12, <1>13, <1>14, <1>15, <1>16, <1>17, <1>18, <1>19, <1>20, <1>21,
     <1>22, <1>23, <1>24, <1>25, <1>26, <1>27, <1>28, <1>29, <1>30, <1>31,
     <1>32 DEF Next, AppCalls, App, ControlCalls, Control, Loop

LEMMA FewQuiet ==
  ASSUME TypeOK, Few, queue' = queue,
         \A s \in Sensors : server'[s] = "none" => server[s] = "none",
         loop' = "enqueue" => loop = "enqueue" /\ hand' = hand,
         control' = "preview_enqueue" => control = "preview_enqueue" /\ previews' = previews
  PROVE  Few'
<1>1. \A s \in Sensors : /\ OfLoop(s)' \in {0, 1} /\ OfLoop(s) \in {0, 1}
                         /\ OfLoop(s)' <= OfLoop(s)
  BY DEF OfLoop
<1>2. \A s \in Sensors : /\ OfSeek(s)' \in {0, 1} /\ OfSeek(s) \in {0, 1}
                         /\ OfSeek(s)' <= OfSeek(s)
  <2>1. CASE control' = "preview_enqueue"
    <3>1. control = "preview_enqueue" /\ First' = First
      BY <2>1 DEF First
    <3> QED BY <2>1, <3>1 DEF OfSeek
  <2>2. CASE control' # "preview_enqueue"
    BY <2>2 DEF OfSeek
  <2> QED BY <2>1, <2>2
<1>3. \A s \in Sensors : Len(queue[s]) \in Nat
  BY LenProperties DEF TypeOK
<1>4. ASSUME NEW s \in Sensors, server'[s] = "none"
      PROVE  Len(queue'[s]) + OfLoop(s)' + OfSeek(s)' <= 2
  <2>1. server[s] = "none" /\ queue'[s] = queue[s]
    BY <1>4
  <2>2. Len(queue[s]) + OfLoop(s) + OfSeek(s) <= 2
    BY <2>1 DEF Few
  <2> QED BY <1>1, <1>2, <1>3, <2>1, <2>2
<1> QED BY <1>4 DEF Few

(* A frame comes into a queue nobody serves only when it was tested before *)
(* the stop: one of the loop and one of a seek.                            *)
LEMMA FewStep ==
  ASSUME TypeOK, Served, Placed, Few, [Next]_vars
  PROVE  Few'
<1>1. ASSUME NEW s \in Sensors, StartStream(s) PROVE Few'
  BY <1>1, FewQuiet DEF StartStream, Free, TypeOK, queueVars, fileVars, loopVars,
       countVars, Idle, Calling
<1>2. ASSUME NEW s \in Sensors, StopStream(s) PROVE Few'
  BY <1>2, FewQuiet DEF StopStream, Free, TypeOK, queueVars, fileVars, loopVars,
       countVars, Idle, Calling
<1>3. CASE Destroy
  BY <1>3, FewQuiet DEF Destroy, Free, Notify, TypeOK, queueVars, fileVars,
       loopVars, countVars, Idle, Calling
<1>4. CASE StartReadsStatus
  BY <1>4, FewQuiet DEF StartReadsStatus, TypeOK, queueVars, fileVars, loopVars,
       countVars, Idle, Calling
<1>5. CASE StartPlays
  BY <1>5, FewQuiet DEF StartPlays, TypeOK, queueVars, fileVars, loopVars,
       countVars, Idle, Calling
<1>6. CASE StartEnters
  BY <1>6, FewQuiet DEF StartEnters, Entered, Notify, TypeOK, queueVars,
       fileVars, loopVars, countVars, Idle, Calling
<1>7. CASE StopReturns
  <2> DEFINE x == app.sensor
  <2>1. /\ queue' = queue /\ queue[x] = <<>> /\ x \in Sensors
        /\ \A s \in Sensors \ {x} : server'[s] = server[s]
        /\ loop' = "enqueue" => loop = "enqueue" /\ hand' = hand
        /\ control' = control /\ previews' = previews
    BY <1>7 DEF StopReturns, Notify, TypeOK
  <2>2. Len(queue'[x]) = 0
    BY <2>1, EmptySeq
  <2>3. \A s \in Sensors : /\ OfLoop(s)' \in {0, 1} /\ OfSeek(s)' \in {0, 1}
                           /\ OfLoop(s) \in {0, 1} /\ OfSeek(s) \in {0, 1}
                           /\ OfLoop(s)' <= OfLoop(s) /\ OfSeek(s)' <= OfSeek(s)
    BY <2>1 DEF OfLoop, OfSeek, First
  <2>4. \A s \in Sensors : Len(queue[s]) \in Nat
    BY LenProperties DEF TypeOK
  <2> HIDE DEF x
  <2>5. ASSUME NEW s \in Sensors, server'[s] = "none"
        PROVE  Len(queue'[s]) + OfLoop(s)' + OfSeek(s)' <= 2
    <3>1. CASE s = x
      <4>1. Len(queue'[s]) = 0 /\ OfLoop(s)' \in {0, 1} /\ OfSeek(s)' \in {0, 1}
        BY <2>2, <2>3, <3>1
      <4> QED BY <4>1
    <3>2. CASE s # x
      <4>1. server[s] = "none" /\ queue'[s] = queue[s]
        BY <2>1, <2>5, <3>2
      <4>2. Len(queue[s]) + OfLoop(s) + OfSeek(s) <= 2
        BY <4>1 DEF Few
      <4> QED BY <2>3, <2>4, <4>1, <4>2
    <3> QED BY <3>1, <3>2
  <2> QED BY <2>5 DEF Few
<1>8. CASE Joined
  BY <1>8, FewQuiet DEF Joined, TypeOK, queueVars, fileVars, loopVars, countVars,
       Idle, Calling
<1>9. CASE Pause
  BY <1>9, FewQuiet DEF Pause, ControlCall, Notify, TypeOK, queueVars, fileVars,
       loopVars, countVars, Idle, Calling
<1>10. CASE Resume
  BY <1>10, FewQuiet DEF Resume, ControlCall, TypeOK, queueVars, fileVars,
       loopVars, countVars, Idle, Calling
<1>11. ASSUME NEW p \in 1..Len(File), Seek(p) PROVE Few'
  BY <1>11, FewQuiet DEF Seek, ControlCall, TypeOK, queueVars, fileVars, loopVars,
       countVars, Idle, Calling
<1>12. CASE ResumeEnters
  BY <1>12, FewQuiet DEF ResumeEnters, Entered, Notify, TypeOK, queueVars,
       fileVars, loopVars, countVars, Idle, Calling
<1>13. CASE SeekReadsStatus
  BY <1>13, FewQuiet DEF SeekReadsStatus, SeekMove, TypeOK, queueVars, fileVars,
       loopVars, countVars, Idle, Calling
<1>14. CASE PreviewTests
  <2>1. CASE File[First] \in active
    <3>1. /\ UNCHANGED <<queue, server, loop, hand, previews>> /\ control = "preview"
          /\ server[File[First]] = "serving"
      BY <1>14, <2>1 DEF PreviewTests, SeekMove, Served
    <3>2. First' = First
      BY <3>1 DEF First
    <3>3. \A s \in Sensors : /\ OfLoop(s)' = OfLoop(s) /\ OfLoop(s) \in {0, 1}
                             /\ OfSeek(s) = 0 /\ (s # File[First] => OfSeek(s)' = 0)
      BY <3>1, <3>2 DEF OfLoop, OfSeek
    <3> QED BY <3>1, <3>3 DEF Few
  <2>2. CASE File[First] \notin active
    BY <1>14, <2>2, FewQuiet DEF PreviewTests, SeekMove
  <2> QED BY <2>1, <2>2
<1>15. CASE PreviewEnqueues
  <2> DEFINE f == First
  <2>1. /\ queue' = Enqueued(f) /\ f \in 1..Len(File) /\ server' = server
        /\ loop' = loop /\ hand' = hand
    BY <1>15, FirstIsMember DEF PreviewEnqueues, SeekMove, Placed
  <2>2. \A s \in Sensors : /\ OfSeek(s)' = 0 /\ OfSeek(s) = (IF s = File[f] THEN 1 ELSE 0)
                           /\ OfLoop(s)' = OfLoop(s) /\ OfLoop(s) \in {0, 1}
    BY <1>15, <2>1 DEF PreviewEnqueues, SeekMove, OfLoop, OfSeek, First
  <2> HIDE DEF f
  <2>3. \A s \in Sensors : /\ Len(queue[s]) \in Nat /\ Len(queue'[s]) \in Nat
                           /\ Len(queue'[s]) <= Len(queue[s]) + 1
                           /\ s # File[f] => queue'[s] = queue[s]
    BY <2>1, EnqueuedFacts
  <2>4. ASSUME NEW s \in Sensors, server'[s] = "none"
        PROVE  Len(queue'[s]) + OfLoop(s)' + OfSeek(s)' <= 2
    <3>1. Len(queue[s]) + OfLoop(s) + OfSeek(s) <= 2
      BY <2>1, <2>4 DEF Few
    <3>2. Len(queue'[s]) <= Len(queue[s]) + OfSeek(s)
      BY <2>2, <2>3
    <3> QED BY <2>2, <2>3, <3>1, <3>2
  <2> QED BY <2>4 DEF Few
<1>16. CASE PreviewEnds \/ SeekThrows
  BY <1>16, FewQuiet DEF PreviewEnds, SeekThrows, SeekMove, TypeOK, queueVars, fileVars,
       loopVars, countVars, Idle, Calling
<1>17. CASE SeekFlags
  BY <1>17, FewQuiet DEF SeekFlags, SeekMove, TypeOK, queueVars, fileVars,
       loopVars, countVars, Idle, Calling
<1>18. CASE SeekNotifies
  BY <1>18, FewQuiet DEF SeekNotifies, SeekMove, Notify, TypeOK, queueVars,
       fileVars, loopVars, countVars, Idle, Calling
<1>19. CASE LoopWaits
  BY <1>19, FewQuiet DEF LoopWaits, LoopMove, Keeps, NoEffect, HasWork, TypeOK,
       queueVars, fileVars, loopVars, countVars, Idle, Calling
<1>20. CASE LoopSleeps
  BY <1>20, FewQuiet DEF LoopSleeps, LoopMove, Keeps, NoEffect, TypeOK, queueVars,
       fileVars, loopVars, countVars, Idle, Calling
<1>21. CASE LoopLoads
  BY <1>21, FewQuiet DEF LoopLoads, LoopMove, NoEffect, TypeOK, queueVars,
       fileVars, loopVars, countVars, Idle, Calling
<1>22. CASE LoopClears
  BY <1>22, FewQuiet DEF LoopClears, LoopMove, Keeps, TypeOK, queueVars, fileVars,
       loopVars, countVars, Idle, Calling
<1>23. CASE LoopLooksForEnd
  BY <1>23, FewQuiet DEF LoopLooksForEnd, LoopMove, Keeps, NoEffect, TypeOK,
       queueVars, fileVars, loopVars, countVars, Idle, Calling
<1>24. CASE ReadNextData
  BY <1>24, FewQuiet DEF ReadNextData, LoopReads, LoopReadsNothing, LoopMove,
       NextRound, TypeOK, queueVars, fileVars, loopVars, countVars, Idle,
       Calling
<1>25. CASE LoopNotesTime
  BY <1>25, FewQuiet DEF LoopNotesTime, LoopMove, NoEffect, TypeOK, queueVars,
       fileVars, loopVars, countVars, Idle, Calling
<1>26. CASE LoopWakes
  BY <1>26, FewQuiet DEF LoopWakes, LoopMove, KeepsUnless, NextRound, Keeps,
       NoEffect, TypeOK, queueVars, fileVars, loopVars, countVars, Idle,
       Calling
<1>27. CASE LoopChecks
  BY <1>27, FewQuiet DEF LoopChecks, LoopMove, NoEffect, TypeOK, queueVars,
       fileVars, loopVars, countVars, Idle, Calling
<1>28. CASE LoopTests
  <2>1. CASE File[hand] \in active
    <3>1. /\ UNCHANGED <<queue, server, control, previews, hand>> /\ loop = "test"
          /\ server[File[hand]] = "serving"
      BY <1>28, <2>1 DEF LoopTests, LoopMove, KeepsUnless, Keeps, NoEffect, Served
    <3>2. \A s \in Sensors : /\ OfSeek(s)' = OfSeek(s) /\ OfSeek(s) \in {0, 1}
                             /\ OfLoop(s) = 0 /\ (s # File[hand] => OfLoop(s)' = 0)
      BY <3>1 DEF OfLoop, OfSeek, First
    <3> QED BY <3>1, <3>2 DEF Few
  <2>2. CASE File[hand] \notin active
    BY <1>28, <2>2, FewQuiet DEF LoopTests, LoopMove, NoEffect
  <2> QED BY <2>1, <2>2
<1>29. CASE LoopEnqueues
  <2> DEFINE f == hand
  <2>1. /\ queue' = Enqueued(f) /\ f \in 1..Len(File) /\ server' = server
        /\ control' = control /\ previews' = previews
    BY <1>29 DEF LoopEnqueues, LoopMove, Placed
  <2>2. \A s \in Sensors : /\ OfLoop(s)' = 0 /\ OfLoop(s) = (IF s = File[f] THEN 1 ELSE 0)
                           /\ OfSeek(s)' = OfSeek(s) /\ OfSeek(s) \in {0, 1}
    BY <1>29, <2>1 DEF LoopEnqueues, LoopMove, OfLoop, OfSeek, First
  <2> HIDE DEF f
  <2>3. \A s \in Sensors : /\ Len(queue[s]) \in Nat /\ Len(queue'[s]) \in Nat
                           /\ Len(queue'[s]) <= Len(queue[s]) + 1
                           /\ s # File[f] => queue'[s] = queue[s]
    BY <2>1, EnqueuedFacts
  <2>4. ASSUME NEW s \in Sensors, server'[s] = "none"
        PROVE  Len(queue'[s]) + OfLoop(s)' + OfSeek(s)' <= 2
    <3>1. Len(queue[s]) + OfLoop(s) + OfSeek(s) <= 2
      BY <2>1, <2>4 DEF Few
    <3>2. Len(queue'[s]) <= Len(queue[s]) + OfLoop(s)
      BY <2>2, <2>3
    <3> QED BY <2>2, <2>3, <3>1, <3>2
  <2> QED BY <2>4 DEF Few
<1>30. CASE StopAllStream
  BY <1>30, FewQuiet DEF StopAllStream, LoopMove, Rewind, NextRound, TypeOK,
       queueVars, fileVars, loopVars, countVars, Idle, Calling
<1>31. ASSUME NEW s \in Sensors, Deliver(s) PROVE Few'
  <2>1. /\ UNCHANGED <<server, loop, hand, control, previews>> /\ server[s] # "none"
        /\ \A x \in Sensors \ {s} : queue'[x] = queue[x]
    BY <1>31 DEF Deliver, TypeOK, loopVars
  <2>2. \A x \in Sensors : OfLoop(x)' = OfLoop(x) /\ OfSeek(x)' = OfSeek(x)
    BY <2>1 DEF OfLoop, OfSeek, First
  <2> QED BY <2>1, <2>2 DEF Few
<1>32. CASE UNCHANGED vars
  BY <1>32, FewQuiet DEF vars, queueVars, loopVars
<1> QED BY <1>1, <1>2, <1>3, <1>4, <1>5, <1>6, <1>7, <1>8, <1>9, <1>10, <1>11,
     <1>12, <1>13, <1>14, <1>15, <1>16, <1>17, <1>18, <1>19, <1>20, <1>21,
     <1>22, <1>23, <1>24, <1>25, <1>26, <1>27, <1>28, <1>29, <1>30, <1>31,
     <1>32 DEF Next, AppCalls, App, ControlCalls, Control, Loop

-----------------------------------------------------------------------------
(* Whatever the application, the control and the loop do.                  *)
THEOREM PlaybackInvHolds == Spec => []PlaybackInv
<1>1. PlaybackInv /\ [Next]_vars => PlaybackInv'
  <2> SUFFICES ASSUME PlaybackInv, [Next]_vars PROVE PlaybackInv'
    OBVIOUS
  <2>1. TypeOK'
    BY TypeParts, QueueTypesStep, LoopTypesStep, CallTypesStep DEF PlaybackInv
  <2> QED BY <2>1, ServedStep, PlacedStep, SettledStep, RewoundStep, FewStep DEF PlaybackInv
<1> QED BY <1>1, InitInv, PTL DEF Spec

(* The player's variables keep their types.                                *)
THEOREM TypeCorrect == Spec => []TypeOK
<1>1. PlaybackInv => TypeOK
  BY DEF PlaybackInv
<1> QED BY <1>1, PlaybackInvHolds, PTL

(* A frame that was tested against activeSensors_ before stopStream may    *)
(* open the next session, but never more than one of the loop and one of a *)
(* seek.                                                                   *)
THEOREM StaleFramesAreFewHolds == Spec => []StaleFramesAreFew
<1>1. PlaybackInv => StaleFramesAreFew
  <2> SUFFICES ASSUME PlaybackInv, NEW s \in Sensors, server[s] = "none" PROVE Len(queue[s]) <= 2
    BY DEF StaleFramesAreFew
  <2>1. Len(queue[s]) + OfLoop(s) + OfSeek(s) <= 2
    BY DEF PlaybackInv, Few
  <2>2. Len(queue[s]) \in Nat
    BY LenProperties DEF PlaybackInv, TypeOK
  <2>3. OfLoop(s) \in {0, 1} /\ OfSeek(s) \in {0, 1}
    BY DEF OfLoop, OfSeek
  <2> QED BY <2>1, <2>2, <2>3
<1> QED BY <1>1, PlaybackInvHolds, PTL

(* A stopped player stands at the beginning of the file, or behind the     *)
(* frame its loop was on its way to read, unless a seek crossed.           *)
THEOREM RewoundWhenStoppedHolds == Spec => []RewoundWhenStopped
<1>1. PlaybackInv => RewoundWhenStopped
  BY DEF PlaybackInv, Rewound, RewoundWhenStopped
<1> QED BY <1>1, PlaybackInvHolds, PTL
=============================================================================
