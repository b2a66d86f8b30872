----------------------- MODULE FilterExtensionProofs -----------------------
(***************************************************************************)
(* Theorems about FilterExtension for every capacity, every number of      *)
(* frames and every number of configuration writes.  Those that hold only  *)
(* when pushFrame and reset do not overlap assume ~Overlap.                *)
(***************************************************************************)
EXTENDS FilterExtension, SequenceTheorems, TLAPS

(***************************************************************************)
(* Type correctness.                                                       *)
(***************************************************************************)
(* FilterExtension's constructor leaves every variable in its type.        *)
LEMMA TypeInit == Init => TypeOK
<1> SUFFICES ASSUME Init PROVE TypeOK
  OBVIOUS
<1>1. QueueTypeOK
  BY EmptySeq DEF Init, QueueInit, QueueTypeOK, ThreadState
<1>2. accepted \in Seq(Nat) /\ processed \in Seq(Nat)
  BY EmptySeq DEF Init
<1>3. pushConfig \in [1..MaxFrames -> 0..MaxConfig]
  BY FilterAssumption DEF Init
<1>4. pushed \in 0..MaxFrames /\ configMap \in 0..MaxConfig /\ applied \in 0..MaxConfig
  BY FilterAssumption DEF Init
<1> QED BY <1>1, <1>2, <1>3, <1>4, Zenon
        DEF Init, TypeOK, SourceState, ControlState, Step

(* The operations of the queue alone keep the queue's types.               *)
LEMMA QueueTypeStep ==
  ASSUME QueueTypeOK, NEW f \in Nat,
         \/ UNCHANGED queueVars
         \/ Enqueue(f) \/ StartFlags \/ StartThread
         \/ WorkerTake \/ WorkerCallback \/ WorkerLeave \/ WorkerEnd
         \/ SignalFlush \/ SignalStop \/ Join \/ Clear \/ ResetFlags
  PROVE  QueueTypeOK'
<1> USE DEF QueueTypeOK, ThreadState
<1>1. CASE UNCHANGED queueVars
  BY <1>1 DEF queueVars
<1>2. CASE Enqueue(f)
  BY <1>2 DEF Enqueue, Accepts
<1>3. CASE StartFlags \/ ResetFlags
  BY <1>3 DEF StartFlags, ResetFlags
<1>4. CASE StartThread
  BY <1>4, Zenon DEF StartThread
<1>5. CASE WorkerTake
  <2>1. Head(queue) \in Nat /\ Tail(queue) \in Seq(Nat)
    BY <1>5, HeadTailProperties DEF WorkerTake
  <2> QED BY <1>5, <2>1 DEF WorkerTake
<1>6. CASE WorkerCallback
  <2>1. inflight' \in Seq(Nat)
    BY <1>6, EmptySeq DEF WorkerCallback
  <2>2. crashed' \in BOOLEAN
    BY <1>6 DEF WorkerCallback
  <2> QED BY <1>6, <2>1, <2>2, Zenon DEF WorkerCallback
<1>7. CASE WorkerLeave \/ WorkerEnd
  BY <1>7, Zenon DEF WorkerLeave, WorkerEnd
<1>8. CASE SignalFlush \/ SignalStop
  BY <1>8 DEF SignalFlush, SignalStop
<1>9. CASE Join
  BY <1>9 DEF Join
<1>10. CASE Clear
  BY <1>10, EmptySeq DEF Clear
<1> QED BY <1>1, <1>2, <1>3, <1>4, <1>5, <1>6, <1>7, <1>8, <1>9, <1>10

(* pushFrame, from isStarted() to enqueue, keeps the types.                *)
LEMMA TypeSource == TypeOK /\ Source => TypeOK'
<1> SUFFICES ASSUME TypeOK, Source PROVE TypeOK'
  OBVIOUS
<1>0. pushed \in Nat
  BY FilterAssumption DEF TypeOK
<1>1. QueueTypeOK'
  BY <1>0, QueueTypeStep
  DEF TypeOK, Source, PushFrame, PushStartFlags, PushStartThread, PushEnqueue
<1> USE FilterAssumption DEF TypeOK, SourceState, ControlState, Step
<1>2. CASE PushFrame
  BY <1>1, <1>2 DEF PushFrame, configVars
<1>3. CASE PushStartFlags \/ PushStartThread
  BY <1>1, <1>3 DEF PushStartFlags, PushStartThread, historyVars, configVars
<1>4. CASE PushEnqueue
  <2>1. accepted' \in Seq(Nat)
    BY <1>0, <1>4 DEF PushEnqueue
  <2> QED BY <1>1, <1>4, <2>1, Zenon DEF PushEnqueue, configVars
<1> QED BY <1>2, <1>3, <1>4 DEF Source

(* The dequeue thread, with the configuration check, keeps the types.      *)
LEMMA TypeWorker == TypeOK /\ Worker => TypeOK'
<1> SUFFICES ASSUME TypeOK, Worker PROVE TypeOK'
  OBVIOUS
<1>1. QueueTypeOK'
  <2>1. CASE WorkerThrows
    BY <2>1 DEF WorkerThrows, TypeOK, QueueTypeOK
  <2> QED BY <2>1, QueueTypeStep
          DEF TypeOK, Worker, Take, WorkerCheckConfig, WorkerApplyConfig, WorkerProcess,
              WorkerDrop, WorkerClone, FrameDone, Leave
<1> USE DEF TypeOK, SourceState, ControlState, Step
<1>2. CASE Take
  BY <1>1, <1>2 DEF Take, historyVars, configVars
<1>3. CASE WorkerCheckConfig
  BY <1>1, <1>3 DEF WorkerCheckConfig, AfterCheck, historyVars, configVars
<1>4. CASE WorkerApplyConfig
  BY <1>1, <1>4 DEF WorkerApplyConfig, ApplyConfig, AfterCheck, historyVars
<1>5. CASE WorkerProcess \/ WorkerDrop \/ WorkerClone
  <2>1. processed' \in Seq(Nat)
    <3>1. processed' = processed \o inflight
      BY <1>5 DEF WorkerProcess, WorkerDrop, WorkerClone, FrameDone
    <3>2. processed \in Seq(Nat) /\ inflight \in Seq(Nat)
      BY DEF QueueTypeOK
    <3> QED BY <3>1, <3>2, ConcatProperties
  <2>2. /\ UNCHANGED <<source, control, tuner, step, pushed, accepted, pushConfig,
                      threw, configMap, configChanged, applied>>
    BY <1>5 DEF WorkerProcess, WorkerDrop, WorkerClone, FrameDone, configVars
  <2> QED BY <1>1, <2>1, <2>2
<1>6. CASE Leave
  BY <1>1, <1>6 DEF Leave, historyVars, configVars
<1>7. CASE WorkerThrows
  BY <1>1, <1>7 DEF WorkerThrows, configVars
<1> QED BY <1>2, <1>3, <1>4, <1>5, <1>6, <1>7 DEF Worker

(* reset (flush, stop, clear, flags) keeps the types.                      *)
LEMMA TypeControl == TypeOK /\ Control => TypeOK'
<1> SUFFICES ASSUME TypeOK, Control PROVE TypeOK'
  OBVIOUS
<1>1. QueueTypeOK'
  BY QueueTypeStep
  DEF TypeOK, Control, Reset, FlushJoin, ResetStop, StopJoin, ResetClear, ResetDone
<1> USE DEF TypeOK, SourceState, ControlState, Step
<1>2. CASE Reset
  BY <1>1, <1>2 DEF Reset, QueueTypeOK, historyVars, configVars
<1>3. CASE FlushJoin \/ ResetStop \/ StopJoin \/ ResetClear \/ ResetDone
  BY <1>1, <1>3 DEF FlushJoin, ResetStop, StopJoin, ResetClear, ResetDone, ResetMove,
                    historyVars, configVars
<1> QED BY <1>2, <1>3 DEF Control

(* setConfigValue and setConfigValueSync keep the types.                   *)
LEMMA TypeTuner == TypeOK /\ Tuner => TypeOK'
<1> SUFFICES ASSUME TypeOK, Tuner PROVE TypeOK'
  OBVIOUS
<1>1. QueueTypeOK'
  BY QueueTypeStep DEF TypeOK, Tuner, SetConfigValue, SyncCheck, SyncApply, SyncThrows
<1> USE FilterAssumption DEF TypeOK, SourceState, ControlState, Step
<1>2. CASE SetConfigValue
  BY <1>1, <1>2 DEF SetConfigValue, historyVars
<1>3. CASE SyncCheck
  BY <1>1, <1>3 DEF SyncCheck, historyVars, configVars
<1>4. CASE SyncApply
  BY <1>1, <1>4 DEF SyncApply, ApplyConfig, historyVars
<1>5. CASE SyncThrows
  BY <1>1, <1>5 DEF SyncThrows, historyVars, configVars
<1> QED BY <1>2, <1>3, <1>4, <1>5 DEF Tuner

(* Every step of the program, and a stutter, keeps the types.              *)
LEMMA TypeStep == TypeOK /\ [Next]_vars => TypeOK'
<1> SUFFICES ASSUME TypeOK, [Next]_vars PROVE TypeOK'
  OBVIOUS
<1>1. CASE UNCHANGED vars
  <2>1. QueueTypeOK'
    BY <1>1, QueueTypeStep DEF vars, TypeOK
  <2> QED BY <1>1, <2>1 DEF vars, historyVars, configVars, TypeOK
<1>2. CASE Next
  BY <1>2, TypeSource, TypeWorker, TypeControl, TypeTuner DEF Next
<1> QED BY <1>1, <1>2

(* Every variable keeps its type, whether or not calls overlap.            *)
THEOREM TypeCorrect == Spec => []TypeOK
<1> QED BY TypeInit, TypeStep, PTL DEF Spec

(***************************************************************************)
(* The capacity bound needs nothing but the guard of enqueue, and holds    *)
(* under overlapping calls too.                                            *)
(***************************************************************************)
(* No step makes srcFrameQueue_ longer than capacity_: only enqueue makes  *)
(* it longer, and it looks first.                                          *)
LEMMA CapacityStep == TypeOK /\ WithinCapacity /\ [Next]_vars => WithinCapacity'
<1> SUFFICES ASSUME TypeOK, WithinCapacity, [Next]_vars PROVE WithinCapacity'
  OBVIOUS
<1> USE CapacityAssumption DEF TypeOK, QueueTypeOK, WithinCapacity
<1>1. ASSUME queue' = queue PROVE WithinCapacity'
  BY <1>1
<1>2. CASE PushEnqueue
  BY <1>2 DEF PushEnqueue, Enqueue, Accepts
<1>3. CASE Take
  <2>1. queue # <<>> /\ queue' = Tail(queue)
    BY <1>3 DEF Take, WorkerTake
  <2>2. Len(queue') = Len(queue) - 1
    BY <2>1, HeadTailProperties
  <2> QED BY <2>2, LenProperties
<1>4. CASE ResetClear
  BY <1>4 DEF ResetClear, Clear
<1>5. CASE UNCHANGED vars
  BY <1>1, <1>5 DEF vars, queueVars
<1>6. CASE PushFrame \/ PushStartFlags \/ PushStartThread \/ Tuner
  BY <1>1, <1>6 DEF PushFrame, PushStartFlags, StartFlags, PushStartThread, StartThread,
                    Tuner, SetConfigValue, SyncCheck, SyncApply, SyncThrows, queueVars
<1>7. CASE WorkerCheckConfig \/ WorkerApplyConfig \/ WorkerProcess \/ WorkerDrop \/ WorkerClone
          \/ WorkerThrows \/ Leave
  BY <1>1, <1>7 DEF WorkerCheckConfig, WorkerApplyConfig, WorkerProcess, WorkerDrop,
                    WorkerClone, WorkerThrows, FrameDone, WorkerCallback, Leave, WorkerLeave,
                    WorkerEnd, queueVars
<1>8. CASE Reset \/ FlushJoin \/ ResetStop \/ StopJoin \/ ResetDone
  BY <1>1, <1>8 DEF Reset, SignalFlush, FlushJoin, ResetStop, StopJoin, ResetDone,
                    SignalStop, Join, ResetFlags
<1> QED BY <1>2, <1>3, <1>4, <1>5, <1>6, <1>7, <1>8 DEF Next, Source, Worker, Control

(* enqueue never lets srcFrameQueue_ grow beyond its capacity.             *)
THEOREM CapacityHolds == Spec => []WithinCapacity
<1>1. Init => WithinCapacity
  BY CapacityAssumption DEF Init, QueueInit, WithinCapacity
<1> QED BY <1>1, TypeCorrect, CapacityStep, PTL DEF Spec

(***************************************************************************)
(* The handshake of source, worker and control.  It is inductive together  *)
(* with the types when calls do not overlap.                               *)
(***************************************************************************)
(* A newly built queue is unstarted and has no thread.                     *)
LEMMA HandshakeInit == Init => Handshake
  BY DEF Init, QueueInit, Handshake, Fresh

(* pushFrame starts the thread only where reset has joined the last one.   *)
LEMMA HandshakeSource ==
  ASSUME TypeOK, Handshake, ~Overlap, Source, ~crashed
  PROVE  Handshake'
<1> USE DEF Handshake, Fresh, Live, Serving, historyVars
<1>1. CASE PushFrame
  BY <1>1 DEF PushFrame, SourceMayRun, queueVars
<1>2. CASE PushStartFlags
  BY <1>2 DEF PushStartFlags, StartFlags
<1>3. CASE PushStartThread
  BY <1>3 DEF PushStartThread, StartThread
<1>4. CASE PushEnqueue
  BY <1>4 DEF PushEnqueue, Enqueue
<1> QED BY <1>1, <1>2, <1>3, <1>4 DEF Source

(* The dequeue thread leaves only when a flag of reset tells it to.        *)
LEMMA HandshakeWorker ==
  ASSUME TypeOK, Handshake, ~Overlap, Worker
  PROVE  Handshake'
<1> USE DEF TypeOK, QueueTypeOK, SourceState, ControlState, Handshake, Fresh, Live, Serving,
            historyVars
<1>1. CASE Take
  BY <1>1 DEF Take, WorkerTake, MustLeave
<1>2. CASE WorkerCheckConfig \/ WorkerApplyConfig
  BY <1>2 DEF WorkerCheckConfig, WorkerApplyConfig, queueVars
<1>3. CASE WorkerProcess \/ WorkerDrop \/ WorkerClone
  <2>1. callback
    BY <1>3 DEF WorkerProcess, WorkerDrop, WorkerClone, FrameDone, WorkerCallback
  <2>2. /\ crashed' = crashed /\ threw' = threw /\ inflight' = <<>>
        /\ thread = "callback" /\ thread' = "loop"
    BY <1>3, <2>1 DEF WorkerProcess, WorkerDrop, WorkerClone, FrameDone, WorkerCallback
  <2>3. UNCHANGED <<source, control, queue, stopped, stopping, flushing, callback>>
    BY <1>3 DEF WorkerProcess, WorkerDrop, WorkerClone, FrameDone, WorkerCallback
  <2>4. Len(inflight') = 0
    BY <2>2, EmptySeq
  <2> QED BY <2>1, <2>2, <2>3, <2>4
<1>4. CASE Leave
  <2>1. CASE WorkerLeave
    BY <1>4, <2>1 DEF Leave, WorkerLeave, MustLeave
  <2>2. CASE WorkerEnd
    <3>1. thread = "exiting" /\ control = "flush_join" /\ source = "idle"
      BY <1>4, <2>2 DEF Leave, WorkerEnd
    <3> QED BY <1>4, <2>2, <3>1 DEF Leave, WorkerEnd
  <2> QED BY <1>4, <2>1, <2>2 DEF Leave
<1>5. CASE WorkerThrows
  BY <1>5 DEF WorkerThrows
<1> QED BY <1>1, <1>2, <1>3, <1>4, <1>5 DEF Worker

(* reset joins the thread before it puts the flags back.                   *)
LEMMA HandshakeControl ==
  ASSUME TypeOK, Handshake, ~Overlap, Control
  PROVE  Handshake'
<1> USE DEF TypeOK, QueueTypeOK, SourceState, ControlState, Handshake, Fresh, Live, Serving,
            historyVars
<1>1. CASE Reset
  BY <1>1 DEF Reset, SignalFlush, ControlMayRun
<1>2. CASE FlushJoin
  BY <1>2 DEF FlushJoin, ResetMove, Join
<1>3. CASE ResetStop
  BY <1>3 DEF ResetStop, ResetMove, SignalStop
<1>4. CASE StopJoin
  BY <1>4 DEF StopJoin, ResetMove, Join
<1>5. CASE ResetClear
  BY <1>5 DEF ResetClear, ResetMove, Clear
<1>6. CASE ResetDone
  BY <1>6 DEF ResetDone, ResetMove, ResetFlags
<1> QED BY <1>1, <1>2, <1>3, <1>4, <1>5, <1>6 DEF Control

(* Every step keeps the handshake when pushFrame and reset do not overlap. *)
LEMMA HandshakeStep ==
  ASSUME TypeOK, Handshake, ~Overlap, [Next]_vars
  PROVE  Handshake'
<1>1. CASE UNCHANGED vars \/ Tuner
  <2>1. UNCHANGED <<queueVars, source, control, threw>>
    BY <1>1 DEF vars, historyVars, Tuner, SetConfigValue, SyncCheck, SyncApply, SyncThrows
  <2> QED BY <2>1 DEF queueVars, Handshake, Fresh, Live, Serving
<1> QED BY <1>1, HandshakeSource, HandshakeWorker, HandshakeControl DEF Next

(* The handshake of pushFrame, the dequeue thread and reset holds at all   *)
(* times when the two calls do not overlap.                                *)
THEOREM HandshakeHolds ==
  ASSUME ~Overlap PROVE Spec => []Handshake
<1>1. TypeOK /\ Handshake /\ [Next]_vars => Handshake'
  BY HandshakeStep
<1> QED BY <1>1, HandshakeInit, TypeCorrect, PTL DEF Spec

(* A queue started, stopped and joined by threads that do not overlap      *)
(* never assigns over a joinable thread nor calls an empty callback: only  *)
(* an exception past pushFrame's try block terminates the process.         *)
THEOREM TerminatesOnlyByThrowHolds ==
  ASSUME ~Overlap PROVE Spec => []TerminatesOnlyByThrow
<1>1. Handshake => TerminatesOnlyByThrow
  BY DEF Handshake, TerminatesOnlyByThrow
<1> QED BY <1>1, HandshakeHolds, PTL

(* Between calls the flags of the queue tell the truth about its thread.   *)
THEOREM FlagsTellTheThreadHolds ==
  ASSUME ~Overlap PROVE Spec => []FlagsTellTheThread
<1>1. Handshake => FlagsTellTheThread
  BY DEF Handshake, Fresh, Live, Serving, FlagsTellTheThread
<1> QED BY <1>1, HandshakeHolds, PTL

(* flush() has had every frame called back before stop() clears the queue. *)
THEOREM ResetDiscardsNothingHolds ==
  ASSUME ~Overlap PROVE Spec => []ResetDiscardsNothing
<1>1. TypeOK /\ Handshake => ResetDiscardsNothing
  <2> SUFFICES ASSUME TypeOK, Handshake, control \in {"stop", "stop_join", "clear"}
               PROVE  Held = <<>>
    BY DEF ResetDiscardsNothing
  <2>1. queue = <<>> /\ thread = "none"
    BY DEF Handshake
  <2>2. inflight \in Seq(Nat) /\ Len(inflight) = 0
    BY <2>1 DEF Handshake, TypeOK, QueueTypeOK
  <2>3. inflight = <<>>
    BY <2>2, EmptySeq
  <2> QED BY <2>1, <2>2, <2>3, ConcatEmptySeq DEF Held
<1> QED BY <1>1, HandshakeHolds, TypeCorrect, PTL

(***************************************************************************)
(* Conservation: accepted = processed \o inflight \o queue.                *)
(***************************************************************************)
(* Moving the front of the queue to the worker's hands keeps the frames    *)
(* held and their order.                                                   *)
LEMMA TakeKeepsHeld ==
  ASSUME NEW q \in Seq(Nat), q # <<>>
  PROVE  <<Head(q)>> \o Tail(q) = <<>> \o q
<1>1. Head(q) \in Nat /\ Tail(q) \in Seq(Nat) /\ Len(Tail(q)) = Len(q) - 1
  BY HeadTailProperties
<1>2. Len(q) \in Nat \ {0}
  BY EmptySeq
<1>3. <<Head(q)>> \o Tail(q) = q
  <2> DEFINE s == <<Head(q)>> \o Tail(q)
  <2>1. s \in Seq(Nat) /\ Len(s) = Len(q)
    BY <1>1, <1>2
  <2>2. ASSUME NEW i \in 1..Len(s) PROVE s[i] = q[i]
    BY <1>1, <1>2, <2>1
  <2> HIDE DEF s
  <2>3. s = q
    BY <2>1, <2>2, SeqEqual
  <2> QED BY <2>3 DEF s
<1> QED BY <1>3, ConcatEmptySeq, Zenon

(* Moving a frame from the worker's hands to the processed ones keeps the  *)
(* whole and its order.                                                    *)
LEMMA ProcessKeepsAll ==
  ASSUME NEW p \in Seq(Nat), NEW i \in Seq(Nat), NEW q \in Seq(Nat)
  PROVE  (p \o i) \o (<<>> \o q) = p \o (i \o q)
<1>1. <<>> \o q = q
  BY ConcatEmptySeq, Zenon
<1>2. (p \o i) \o q = p \o (i \o q)
  BY ConcatAssociative, SMTT(60)
<1> QED BY <1>1, <1>2, Zenon

(* Appending to the queue appends to everything held and processed.        *)
LEMMA AppendThroughConcat ==
  ASSUME NEW p \in Seq(Nat), NEW i \in Seq(Nat), NEW q \in Seq(Nat), NEW f \in Nat
  PROVE  p \o (i \o Append(q, f)) = Append(p \o (i \o q), f)
<1>1. <<f>> \in Seq(Nat)
  OBVIOUS
<1>2. i \o q \in Seq(Nat) /\ p \o (i \o q) \in Seq(Nat)
  BY ConcatProperties
<1>3. i \o (q \o <<f>>) = (i \o q) \o <<f>>
  BY <1>1, ConcatAssociative, SMTT(60)
<1>4. p \o ((i \o q) \o <<f>>) = (p \o (i \o q)) \o <<f>>
  BY <1>1, <1>2, ConcatAssociative, SMTT(60)
<1>5. Append(q, f) = q \o <<f>>
  BY AppendIsConcat, Zenon
<1>6. Append(p \o (i \o q), f) = (p \o (i \o q)) \o <<f>>
  BY <1>2, AppendIsConcat, Zenon
<1> QED BY <1>3, <1>4, <1>5, <1>6, Zenon

(* Every step keeps accepted = processed, held: enqueue adds at the end of *)
(* both, the worker only moves the boundary, and clear finds the queue     *)
(* empty.                                                                  *)
LEMMA NothingLostStep ==
  ASSUME TypeOK, Handshake, ~Overlap, NothingLost, [Next]_vars
  PROVE  NothingLost'
<1> USE DEF NothingLost, Held
<1>0. /\ processed \in Seq(Nat) /\ inflight \in Seq(Nat) /\ queue \in Seq(Nat)
      /\ accepted \in Seq(Nat) /\ pushed \in Nat
  BY FilterAssumption DEF TypeOK, QueueTypeOK
<1>1. ASSUME UNCHANGED <<accepted, processed, inflight, queue>> PROVE NothingLost'
  BY <1>1
<1>2. CASE PushEnqueue
  <2>1. CASE Accepts
    <3>1. /\ queue' = Append(queue, pushed) /\ accepted' = Append(accepted, pushed)
          /\ UNCHANGED <<processed, inflight>>
      BY <1>2, <2>1 DEF PushEnqueue, Enqueue
    <3>2. processed \o (inflight \o Append(queue, pushed)) =
            Append(processed \o (inflight \o queue), pushed)
      <4> HIDE DEF NothingLost, Held
      <4> QED BY <1>0, AppendThroughConcat, ZenonT(30)
    <3> QED BY <3>1, <3>2
  <2>2. CASE ~Accepts
    BY <1>1, <1>2, <2>2 DEF PushEnqueue, Enqueue
  <2> QED BY <2>1, <2>2
<1>3. CASE Take
  <2>1. /\ queue # <<>> /\ inflight' = <<Head(queue)>> /\ queue' = Tail(queue)
        /\ UNCHANGED <<accepted, processed>>
    BY <1>3 DEF Take, WorkerTake, historyVars
  <2>2. inflight = <<>>
    BY <1>0, <1>3, EmptySeq DEF Take, WorkerTake, Handshake
  <2> QED BY <1>0, <2>1, <2>2, TakeKeepsHeld
<1>4. CASE WorkerProcess \/ WorkerDrop \/ WorkerClone
  <2>1. /\ processed' = processed \o inflight /\ inflight' = <<>>
        /\ UNCHANGED <<accepted, queue>>
    BY <1>4 DEF WorkerProcess, WorkerDrop, WorkerClone, FrameDone, WorkerCallback
  <2>2. (processed \o inflight) \o (<<>> \o queue) = processed \o (inflight \o queue)
    BY <1>0, ProcessKeepsAll, ZenonT(30)
  <2>3. accepted = processed \o (inflight \o queue)
    BY Zenon
  <2>4. /\ processed' = processed \o inflight /\ inflight' = <<>>
        /\ accepted' = accepted /\ queue' = queue
    BY <2>1
  <2> QED BY <2>2, <2>3, <2>4, Zenon
<1>5. CASE ResetClear
  <2>1. queue = <<>> /\ queue' = <<>> /\ UNCHANGED <<accepted, processed, inflight>>
    BY <1>5 DEF ResetClear, ResetMove, Clear, Handshake, historyVars
  <2> QED BY <1>1, <2>1
<1>6. CASE UNCHANGED vars \/ Tuner
  BY <1>1, <1>6 DEF vars, Tuner, SetConfigValue, SyncCheck, SyncApply, SyncThrows, queueVars,
                    historyVars
<1>7. CASE PushFrame \/ PushStartFlags \/ PushStartThread
  BY <1>1, <1>7 DEF PushFrame, PushStartFlags, StartFlags, PushStartThread, StartThread,
                    queueVars, historyVars
<1>8. CASE WorkerCheckConfig \/ WorkerApplyConfig \/ WorkerThrows \/ Leave
  BY <1>1, <1>8 DEF WorkerCheckConfig, WorkerApplyConfig, WorkerThrows, Leave, WorkerLeave,
                    WorkerEnd,
                    queueVars, historyVars
<1>9. CASE Reset \/ FlushJoin \/ ResetStop \/ StopJoin \/ ResetDone
  BY <1>1, <1>9 DEF Reset, SignalFlush, FlushJoin, ResetStop, StopJoin, ResetDone,
                    ResetMove, SignalStop, Join, ResetFlags, historyVars
<1> QED BY <1>2, <1>3, <1>4, <1>5, <1>6, <1>7, <1>8, <1>9
        DEF Next, Source, Worker, Control

(* No accepted frame is lost, duplicated or overtaken.                     *)
THEOREM NothingLostHolds ==
  ASSUME ~Overlap PROVE Spec => []NothingLost
<1>1. Init => NothingLost
  BY ConcatEmptySeq, EmptySeq DEF Init, QueueInit, NothingLost, Held
<1>2. TypeOK /\ Handshake /\ NothingLost /\ [Next]_vars => NothingLost'
  BY NothingLostStep
<1> QED BY <1>1, <1>2, TypeCorrect, HandshakeHolds, PTL DEF Spec

(***************************************************************************)
(* The configuration: holds whether or not calls overlap.  The strength    *)
(* lies in the third and in the last conjunct: versions only grow, and the *)
(* worker is past its first check only with a configuration at least as    *)
(* new as the frame it holds.                                              *)
(***************************************************************************)
HeldFramesPushed ==
  /\ queue \in Seq(1..pushed)
  /\ inflight \in Seq(1..pushed)
  /\ Len(inflight) = IF thread = "callback" THEN 1 ELSE 0
  /\ source # "idle" => pushed >= 1

ConfigInv ==
  /\ ClearFlagMeansApplied
  /\ applied <= configMap
  /\ \A f \in 1..MaxFrames : pushConfig[f] <= configMap
  /\ (thread = "callback" /\ step \in {"recheck", "reapply", "process"})
        => applied >= pushConfig[inflight[1]]

(* What the queue and the worker hold are frames pushFrame has pushed.     *)
LEMMA HeldFramesPushedStep ==
  ASSUME TypeOK, HeldFramesPushed, [Next]_vars
  PROVE  HeldFramesPushed'
<1> USE DEF HeldFramesPushed
<1>0. pushed \in Nat /\ pushed' \in Nat
  <2>1. TypeOK'
    BY TypeStep
  <2> QED BY <2>1, FilterAssumption DEF TypeOK
<1>1. ASSUME UNCHANGED <<queue, inflight, pushed>>,
             (thread' = "callback") <=> (thread = "callback"),
             source # "idle" \/ source' = "idle"
      PROVE  HeldFramesPushed'
  BY <1>1
<1>2. CASE PushFrame
  <2>1. /\ pushed' = pushed + 1 /\ UNCHANGED <<queue, inflight, thread>>
    BY <1>2 DEF PushFrame, queueVars
  <2>2. 1..pushed \subseteq 1..pushed'
    BY <1>0, <2>1
  <2>3. queue' \in Seq(1..pushed') /\ inflight' \in Seq(1..pushed')
    BY <2>1, <2>2, SeqMonotonic
  <2> QED BY <1>0, <2>1, <2>3
<1>3. CASE PushEnqueue
  <2>1. pushed \in 1..pushed
    BY <1>0, <1>3 DEF PushEnqueue
  <2>2. queue' \in Seq(1..pushed)
    <3>1. \A f \in 1..pushed : Append(queue, f) \in Seq(1..pushed)
      OBVIOUS
    <3>2. queue' = Append(queue, pushed) \/ queue' = queue
      BY <1>3 DEF PushEnqueue, Enqueue
    <3> QED BY <2>1, <3>1, <3>2
  <2> QED BY <1>3, <2>2 DEF PushEnqueue, Enqueue
<1>4. CASE Take
  <2>1. /\ queue # <<>> /\ inflight' = <<Head(queue)>> /\ queue' = Tail(queue)
        /\ thread' = "callback" /\ UNCHANGED <<pushed, source>>
    BY <1>4 DEF Take, WorkerTake
  <2>2. Head(queue) \in 1..pushed /\ Tail(queue) \in Seq(1..pushed)
    BY <2>1, HeadTailProperties
  <2> QED BY <2>1, <2>2
<1>5. CASE WorkerProcess \/ WorkerDrop \/ WorkerClone
  <2>1. /\ inflight' = <<>> /\ thread' = "loop" /\ UNCHANGED <<queue, pushed, source>>
    BY <1>5 DEF WorkerProcess, WorkerDrop, WorkerClone, FrameDone, WorkerCallback
  <2>2. inflight' \in Seq(1..pushed) /\ Len(inflight') = 0
    BY <2>1, EmptySeq
  <2> QED BY <2>1, <2>2
<1>6. CASE ResetClear
  <2>1. /\ queue' = <<>> /\ UNCHANGED <<inflight, thread, pushed, source>>
    BY <1>6 DEF ResetClear, ResetMove, Clear
  <2>2. queue' \in Seq(1..pushed)
    BY <2>1, EmptySeq
  <2> QED BY <2>1, <2>2
<1>7. CASE PushStartThread
  <2>1. thread' = "callback" <=> thread = "callback"
    BY <1>7 DEF PushStartThread, StartThread
  <2> QED BY <1>1, <1>7, <2>1 DEF PushStartThread, StartThread
<1>8. CASE PushStartFlags \/ Tuner \/ UNCHANGED vars
  BY <1>1, <1>8 DEF PushStartFlags, StartFlags, Tuner, SetConfigValue, SyncCheck,
                    SyncApply, SyncThrows, queueVars, vars
<1>9. CASE WorkerCheckConfig \/ WorkerApplyConfig \/ WorkerThrows \/ Leave
  BY <1>1, <1>9 DEF WorkerCheckConfig, WorkerApplyConfig, WorkerThrows, Leave, WorkerLeave,
                    WorkerEnd,
                    queueVars
<1>10. CASE Reset \/ FlushJoin \/ ResetStop \/ StopJoin \/ ResetDone
  BY <1>1, <1>10 DEF Reset, SignalFlush, FlushJoin, ResetStop, StopJoin, ResetDone,
                     ResetMove, SignalStop, Join, ResetFlags
<1> QED BY <1>2, <1>3, <1>4, <1>5, <1>6, <1>7, <1>8, <1>9, <1>10
        DEF Next, Source, Worker, Control

(* checkAndUpdateConfig and setConfigValue keep the relation of the flag   *)
(* configChanged_, the map and the values applied.                         *)
LEMMA ConfigInvStep ==
  ASSUME TypeOK, HeldFramesPushed, ConfigInv, [Next]_vars
  PROVE  ConfigInv'
<1> USE DEF ConfigInv, ClearFlagMeansApplied
<1>0. /\ configMap \in Nat /\ applied \in Nat /\ configChanged \in BOOLEAN
      /\ pushConfig \in [1..MaxFrames -> Nat] /\ pushed \in 0..MaxFrames
      /\ MaxFrames \in Nat
  BY FilterAssumption DEF TypeOK
<1>1. thread = "callback" => inflight[1] \in 1..pushed
  <2> SUFFICES ASSUME thread = "callback" PROVE inflight[1] \in 1..pushed
    OBVIOUS
  <2>1. inflight \in Seq(1..pushed) /\ Len(inflight) = 1
    BY DEF HeldFramesPushed
  <2>2. 1 \in 1..Len(inflight)
    BY <2>1
  <2> HIDE DEF ConfigInv
  <2> QED BY <2>1, <2>2, ElementOfSeq
<1>2. ASSUME UNCHANGED <<configVars, pushConfig>>,
             thread' = "callback" => /\ thread = "callback" /\ UNCHANGED inflight
                                     /\ step' = step \/ step' \in {"check", "apply"}
      PROVE  ConfigInv'
  BY <1>2 DEF configVars
<1>3. CASE PushFrame
  <2>1. /\ pushConfig' = [pushConfig EXCEPT ![pushed + 1] = configMap]
        /\ UNCHANGED <<configMap, configChanged, applied, thread, step, inflight>>
    BY <1>3 DEF PushFrame, queueVars, configVars
  <2>2. thread = "callback" => pushConfig'[inflight[1]] = pushConfig[inflight[1]]
    BY <1>0, <1>1, <2>1
  <2>3. \A f \in 1..MaxFrames : pushConfig'[f] <= configMap'
    BY <1>0, <2>1
  <2> QED BY <2>1, <2>2, <2>3
<1>4. CASE Take
  <2>1. step' = "check" /\ UNCHANGED <<configVars, pushConfig>>
    BY <1>4 DEF Take, historyVars
  <2> QED BY <2>1 DEF configVars
<1>5. CASE WorkerCheckConfig
  <2>1. /\ thread = "callback" /\ step' = AfterCheck(step) /\ step \in {"check", "recheck"}
        /\ UNCHANGED <<configMap, configChanged, applied, pushConfig, thread, inflight>>
    BY <1>5 DEF WorkerCheckConfig, queueVars, configVars, historyVars
  <2>2. pushConfig[inflight[1]] <= configMap
    BY <1>0, <1>1, <2>1
  <2>3. step' \in {"recheck", "process"} => ~configChanged
    BY <2>1 DEF AfterCheck
  <2>4. step' \in {"reapply"} => step = "recheck"
    BY <2>1 DEF AfterCheck
  <2> QED BY <2>1, <2>2, <2>3, <2>4
<1>6. CASE WorkerApplyConfig
  <2>1. /\ thread = "callback" /\ applied' = configMap
        /\ UNCHANGED <<configMap, pushConfig, thread, inflight>>
    BY <1>6 DEF WorkerApplyConfig, ApplyConfig, queueVars, historyVars
  <2>2. pushConfig[inflight[1]] <= configMap
    BY <1>0, <1>1, <2>1
  <2> QED BY <1>0, <2>1, <2>2
<1>7. CASE WorkerProcess \/ WorkerDrop \/ WorkerClone
  <2>1. thread' = "loop" /\ UNCHANGED <<configVars, pushConfig>>
    BY <1>7 DEF WorkerProcess, WorkerDrop, WorkerClone, FrameDone, WorkerCallback
  <2> QED BY <1>2, <2>1
<1>8. CASE SetConfigValue
  <2>1. /\ configMap' = configMap + 1 /\ configChanged' = TRUE
        /\ UNCHANGED <<applied, pushConfig, thread, step, inflight>>
    BY <1>8 DEF SetConfigValue, queueVars, historyVars
  <2> QED BY <1>0, <2>1
<1>9. CASE SyncApply
  <2>1. /\ applied' = configMap
        /\ UNCHANGED <<configMap, pushConfig, thread, step, inflight>>
    BY <1>9 DEF SyncApply, ApplyConfig, queueVars, historyVars
  <2>2. thread = "callback" => pushConfig[inflight[1]] <= configMap
    BY <1>0, <1>1
  <2> QED BY <1>0, <2>1, <2>2
<1>10. CASE SyncCheck \/ UNCHANGED vars
  BY <1>2, <1>10 DEF SyncCheck, queueVars, historyVars, vars
<1>11. CASE PushStartFlags \/ PushStartThread \/ PushEnqueue
  BY <1>2, <1>11 DEF PushStartFlags, StartFlags, PushStartThread, StartThread, PushEnqueue,
                     Enqueue, historyVars
<1>12. CASE Leave \/ WorkerThrows \/ SyncThrows
  BY <1>2, <1>12 DEF Leave, WorkerLeave, WorkerEnd, WorkerThrows, SyncThrows, historyVars,
                     queueVars, configVars
<1>13. CASE Control
  BY <1>2, <1>13 DEF Control, Reset, SignalFlush, FlushJoin, ResetStop, StopJoin, ResetClear,
                     ResetDone, ResetMove, SignalStop, Join, Clear, ResetFlags, historyVars
<1> QED BY <1>3, <1>4, <1>5, <1>6, <1>7, <1>8, <1>9, <1>10, <1>11, <1>12, <1>13
        DEF Next, Source, Worker, Tuner

(* The configuration invariant, inductive together with the types and the  *)
(* range of the frames held.                                               *)
THEOREM ConfigInvHolds == Spec => [](HeldFramesPushed /\ ConfigInv)
<1>1. Init => HeldFramesPushed /\ ConfigInv
  <2> SUFFICES ASSUME Init PROVE HeldFramesPushed /\ ConfigInv
    OBVIOUS
  <2>1. queue \in Seq(1..pushed) /\ inflight \in Seq(1..pushed) /\ Len(inflight) = 0
    BY EmptySeq DEF Init, QueueInit
  <2> QED BY <2>1, FilterAssumption
          DEF Init, QueueInit, HeldFramesPushed, ConfigInv, ClearFlagMeansApplied
<1>2. TypeOK /\ HeldFramesPushed /\ ConfigInv /\ [Next]_vars
        => (HeldFramesPushed /\ ConfigInv)'
  BY HeldFramesPushedStep, ConfigInvStep
<1> QED BY <1>1, <1>2, TypeCorrect, PTL DEF Spec

(* No frame is processed with a configuration older than the one that was  *)
(* set when the frame was pushed.                                          *)
THEOREM ConfigNotOlderHolds == Spec => []ConfigNotOlderThanFrame
<1>1. ConfigInv => ConfigNotOlderThanFrame
  BY DEF ConfigInv, ConfigNotOlderThanFrame
<1> QED BY <1>1, ConfigInvHolds, PTL

(***************************************************************************)
(* Refinement: every behaviour of the filter is one of FrameRelay, fairness*)
(* aside.                                                                  *)
(***************************************************************************)
(* Every step of the filter is a take, a piece of work or a stutter of     *)
(* FrameRelay.                                                             *)
LEMMA RelayStep ==
  ASSUME TypeOK, Handshake, NothingLost, WithinCapacity, HeldFramesPushed, ~Overlap, Next
  PROVE  [Relay!Next]_(Relay!relayVars)
<1>0. /\ processed \in Seq(Nat) /\ inflight \in Seq(Nat) /\ queue \in Seq(Nat)
      /\ accepted \in Seq(Nat) /\ pushed \in 0..MaxFrames /\ MaxFrames \in Nat
      /\ Capacity \in Nat \ {0}
  BY FilterAssumption, CapacityAssumption DEF TypeOK, QueueTypeOK
<1>1. Held \in Seq(Nat) /\ Len(Held) = Len(inflight) + Len(queue)
  BY <1>0, ConcatProperties DEF Held
<1>2. Len(accepted) = Len(processed) + Len(Held)
  BY <1>0, <1>1, ConcatProperties DEF NothingLost
<1>3. ASSUME UNCHANGED <<accepted, processed, threw>>
      PROVE  [Relay!Next]_(Relay!relayVars)
  BY <1>3 DEF Relay!relayVars
<1>9. ~threw
  BY DEF Next, Handshake
<1>4. CASE PushEnqueue /\ Accepts
  <2>1. accepted' = Append(accepted, pushed) /\ UNCHANGED <<processed, threw>> /\ ~threw
        /\ pushed \in 1..MaxFrames
    BY <1>0, <1>4, <1>9 DEF PushEnqueue, HeldFramesPushed
  <2>2. Len(accepted) - Len(processed) < Capacity + 1
    BY <1>0, <1>1, <1>2, <1>4 DEF Accepts, HeldFramesPushed
  <2> QED BY <2>1, <2>2 DEF Relay!Next, Relay!TakeFrame
<1>5. CASE WorkerProcess \/ WorkerDrop \/ WorkerClone
  <2>1. processed' = processed \o inflight /\ UNCHANGED <<accepted, threw>> /\ ~threw
        /\ Len(inflight) = 1
    BY <1>5, <1>9 DEF WorkerProcess, WorkerDrop, WorkerClone, FrameDone, WorkerCallback,
                      HeldFramesPushed
  <2>2. inflight = <<inflight[1]>> /\ inflight[1] \in Nat
    <3>0. 1 \in 1..Len(inflight)
      BY <2>1
    <3>1. inflight[1] \in Nat
      <4>1. inflight \in Seq(Nat)
        BY <1>0
      <4> QED BY <3>0, <4>1, ElementOfSeq
    <3>2. <<inflight[1]>> \in Seq(Nat) /\ Len(<<inflight[1]>>) = 1
      BY <3>1
    <3>3. \A i \in 1..Len(inflight) : inflight[i] = <<inflight[1]>>[i]
      BY <2>1
    <3> QED BY <1>0, <2>1, <3>1, <3>2, <3>3, SeqEqual
  <2>3. Held[1] = inflight[1]
    BY <1>0, <2>1, ConcatProperties DEF Held
  <2>4. accepted[Len(processed) + 1] = Held[1] /\ Len(processed) < Len(accepted)
    BY <1>0, <1>1, <1>2, <2>1, ConcatProperties DEF NothingLost
  <2>5. processed' = Append(processed, inflight[1])
    <3> DEFINE e == inflight[1]
    <3>1. inflight = <<e>> /\ e \in Nat
      BY <2>2
    <3> HIDE DEF e
    <3>2. processed \o <<e>> = Append(processed, e)
      BY <1>0, <3>1
    <3> QED BY <2>1, <3>1, <3>2 DEF e
  <2> QED BY <2>1, <2>3, <2>4, <2>5 DEF Relay!Next, Relay!WorkFrame
<1>6. CASE PushEnqueue /\ ~Accepts
  BY <1>3, <1>6 DEF PushEnqueue
<1>7. CASE PushFrame \/ PushStartFlags \/ PushStartThread \/ Tuner
  BY <1>3, <1>7 DEF PushFrame, PushStartFlags, PushStartThread, Tuner, SetConfigValue,
                    SyncCheck, SyncApply, SyncThrows, historyVars
<1>10. CASE WorkerThrows
  <2>1. UNCHANGED <<accepted, processed>> /\ threw' = TRUE /\ Len(inflight) = 1 /\ ~threw
    BY <1>9, <1>10 DEF WorkerThrows, HeldFramesPushed
  <2>2. Len(processed) < Len(accepted)
    BY <1>0, <1>1, <1>2, <2>1
  <2> QED BY <2>1, <2>2 DEF Relay!Next, Relay!End
<1>8. CASE Take \/ WorkerCheckConfig \/ WorkerApplyConfig \/ Leave \/ Control
  BY <1>3, <1>8 DEF Take, WorkerCheckConfig, WorkerApplyConfig, Leave, Control, Reset,
                    FlushJoin, ResetStop, StopJoin, ResetClear, ResetDone, ResetMove, historyVars
<1> QED BY <1>4, <1>5, <1>6, <1>7, <1>8, <1>10 DEF Next, Source, Worker

(* The asynchronous filter implements the safety part of FrameRelay, whose *)
(* end is the exception that leaves the queue's callback.                  *)
THEOREM FilterImplementsRelay ==
  ASSUME ~Overlap
  PROVE  Spec => Relay!Init /\ [][Relay!Next]_(Relay!relayVars)
<1>1. Init => Relay!Init
  BY DEF Init, Relay!Init
<1>2. TypeOK /\ Handshake /\ NothingLost /\ WithinCapacity /\ HeldFramesPushed /\ [Next]_vars
        => [Relay!Next]_(Relay!relayVars)
  <2>1. UNCHANGED vars => UNCHANGED Relay!relayVars
    BY DEF vars, historyVars, Relay!relayVars
  <2> QED BY <2>1, RelayStep
<1> QED BY <1>1, <1>2, TypeCorrect, HandshakeHolds, NothingLostHolds, CapacityHolds,
           ConfigInvHolds, PTL DEF Spec
=============================================================================
