-------------------------- MODULE FilterExtension ---------------------------
(***************************************************************************)
(* The asynchronous half of every filter and frame processor:              *)
(* FilterExtension (filter/FilterDecorator.cpp) over its srcFrameQueue_.   *)
(* Four threads meet here.                                                 *)
(*   the source   pushFrame: starts the dequeue thread if none runs, then  *)
(*                enqueues                                                 *)
(*   the worker   the dequeue thread: refreshes the configuration, runs    *)
(*                process                                                  *)
(*   the control  reset: flush, then reset of the queue                    *)
(*   the tuner    setConfigValue and setConfigValueSync                    *)
(* VideoSensor resets its frame processor only once its backend has        *)
(* stopped delivering: source and control then never overlap.  The public  *)
(* API (ob_filter_push_frame, ob_filter_reset) asks for no such order;     *)
(* Overlap says whether the application keeps to it.                       *)
(*                                                                         *)
(* Operators named Mut... are seeded faults; the specification uses none.  *)
(***************************************************************************)
EXTENDS FrameQueue

CONSTANTS
  Overlap,     \* pushFrame and reset may run at the same time
  MaxFrames,   \* bound: frames pushed
  MaxConfig    \* bound: calls of setConfigValue

ASSUME FilterAssumption ==
  /\ Overlap \in BOOLEAN
  /\ MaxFrames \in Nat
  /\ MaxConfig \in Nat

VARIABLES
  source,         \* where the source is in pushFrame
  control,        \* where the control is in reset
  tuner,          \* where the tuner is in setConfigValueSync
  step,           \* where the worker is in the queue's callback
  pushed,         \* frames pushed so far; the newest one has this number
  accepted,       \* history: frames enqueue took
  processed,      \* history: frames the callback was run on
  configMap,      \* configMap_, as the number of the call that wrote it
  configChanged,  \* configChanged_
  applied,        \* the configuration the base filter works with
  pushConfig,     \* history: configMap when a frame was pushed
  threw           \* history: an exception has left the queue's callback

historyVars == <<accepted, processed, pushConfig, threw>>
configVars == <<configMap, configChanged, applied>>
vars == <<queueVars, source, control, tuner, step, pushed, historyVars, configVars>>

SourceState == {"idle", "flags", "thread", "enqueue"}
ControlState == {"idle", "flush_join", "stop", "stop_join", "clear", "flags"}
Step == {"check", "apply", "recheck", "reapply", "process"}

(* Everything taken from the source and not yet lost or processed.         *)
Held == inflight \o queue

SourceMayRun == Overlap \/ control = "idle"
ControlMayRun == Overlap \/ source = "idle"

TypeOK ==
  /\ QueueTypeOK
  /\ source \in SourceState
  /\ control \in ControlState
  /\ tuner \in {"idle", "check", "apply"}
  /\ step \in Step
  /\ pushed \in 0..MaxFrames
  /\ accepted \in Seq(Nat)
  /\ processed \in Seq(Nat)
  /\ configMap \in 0..MaxConfig
  /\ configChanged \in BOOLEAN
  /\ applied \in 0..MaxConfig
  /\ pushConfig \in [1..MaxFrames -> 0..MaxConfig]
  /\ threw \in BOOLEAN

Init ==
  /\ QueueInit
  /\ source = "idle"
  /\ control = "idle"
  /\ tuner = "idle"
  /\ step = "check"
  /\ pushed = 0
  /\ accepted = <<>>
  /\ processed = <<>>
  /\ configMap = 0
  /\ configChanged = FALSE
  /\ applied = 0
  /\ pushConfig = [f \in 1..MaxFrames |-> 0]
  /\ threw = FALSE

-----------------------------------------------------------------------------
(* pushFrame: isStarted() is looked at without the queue's mutex, here and *)
(* again in start().                                                       *)
MutPushFrame ==
  /\ source = "idle"
  /\ SourceMayRun
  /\ pushed < MaxFrames
  /\ pushed' = pushed + 1
  /\ pushConfig' = [pushConfig EXCEPT ![pushed + 1] = configMap]
  /\ source' = "flags"
  /\ UNCHANGED <<queueVars, control, tuner, step, accepted, processed, threw, configVars>>

PushFrame ==
  /\ source = "idle"
  /\ SourceMayRun
  /\ pushed < MaxFrames
  /\ pushed' = pushed + 1
  /\ pushConfig' = [pushConfig EXCEPT ![pushed + 1] = configMap]
  /\ source' = IF stopped THEN "flags" ELSE "enqueue"
  /\ UNCHANGED <<queueVars, control, tuner, step, accepted, processed, threw, configVars>>

PushStartFlags ==
  /\ source = "flags"
  /\ StartFlags
  /\ source' = "thread"
  /\ UNCHANGED <<control, tuner, step, pushed, historyVars, configVars>>

PushStartThread ==
  /\ source = "thread"
  /\ StartThread
  /\ source' = "enqueue"
  /\ UNCHANGED <<control, tuner, step, pushed, historyVars, configVars>>

PushEnqueue ==
  /\ source = "enqueue"
  /\ Enqueue(pushed)
  /\ accepted' = IF Accepts THEN Append(accepted, pushed) ELSE accepted
  /\ source' = "idle"
  /\ UNCHANGED <<control, tuner, step, pushed, processed, pushConfig, threw, configVars>>

Source == PushFrame \/ PushStartFlags \/ PushStartThread \/ PushEnqueue

-----------------------------------------------------------------------------
(* The callback pushFrame gave the queue.  checkAndUpdateConfig reads      *)
(* configChanged_ without configMutex_ and takes the mutex only to apply;  *)
(* FilterDecorator::process makes the check a second time.                 *)
Take ==
  /\ WorkerTake
  /\ step' = "check"
  /\ UNCHANGED <<source, control, tuner, pushed, historyVars, configVars>>

AfterCheck(s) ==
  CASE s = "check"   -> IF configChanged THEN "apply" ELSE "recheck"
    [] s = "recheck" -> IF configChanged THEN "reapply" ELSE "process"
    [] s = "apply"   -> "recheck"
    [] s = "reapply" -> "process"

WorkerCheckConfig ==
  /\ thread = "callback"
  /\ step \in {"check", "recheck"}
  /\ step' = AfterCheck(step)
  /\ UNCHANGED <<queueVars, source, control, tuner, pushed, historyVars, configVars>>

(* updateConfig of the base filter and configChanged_ = false, both under  *)
(* configMutex_.                                                           *)
ApplyConfig ==
  /\ applied' = configMap
  /\ configChanged' = FALSE
  /\ UNCHANGED configMap

WorkerApplyConfig ==
  /\ thread = "callback"
  /\ step \in {"apply", "reapply"}
  /\ ApplyConfig
  /\ step' = AfterCheck(step)
  /\ UNCHANGED <<queueVars, source, control, tuner, pushed, historyVars>>

(* The callback of the queue returns: the frame has been worked on.        *)
FrameDone ==
  /\ WorkerCallback
  /\ processed' = processed \o inflight
  /\ UNCHANGED <<source, control, tuner, step, pushed, accepted, pushConfig, threw,
                 configVars>>

(* process and the output callback.  A filter that throws, or returns no   *)
(* frame, outputs nothing and leaves the queue as it is; the second look   *)
(* at the configuration is inside the same try block.                      *)
WorkerProcess == step = "process" /\ FrameDone
WorkerDrop == step = "reapply" /\ FrameDone

(* A disabled filter (enable(false) may come at any time) outputs a clone. *)
WorkerClone == step = "check" /\ FrameDone

(* Outside the try block stand the first look at the configuration with    *)
(* its updateConfig, the clone, which may find no memory, and the output   *)
(* callback: what they throw leaves the thread's function.                 *)
WorkerThrows ==
  /\ thread = "callback"
  /\ step \in {"check", "apply", "process"}
  /\ crashed' = TRUE
  /\ threw' = TRUE
  /\ UNCHANGED <<queue, stopped, stopping, flushing, callback, thread, inflight>>
  /\ UNCHANGED <<source, control, tuner, step, pushed, accepted, processed, pushConfig,
                 configVars>>

Leave ==
  /\ WorkerLeave \/ WorkerEnd
  /\ UNCHANGED <<source, control, tuner, step, pushed, historyVars, configVars>>

Worker ==
  \/ Take
  \/ WorkerCheckConfig
  \/ WorkerApplyConfig
  \/ WorkerProcess
  \/ WorkerDrop
  \/ WorkerClone
  \/ WorkerThrows
  \/ Leave

-----------------------------------------------------------------------------
(* reset: srcFrameQueue_->flush(), then srcFrameQueue_->reset().           *)
Reset ==
  /\ control = "idle"
  /\ ControlMayRun
  /\ SignalFlush
  /\ control' = "flush_join"
  /\ UNCHANGED <<source, tuner, step, pushed, historyVars, configVars>>

ResetMove(from, to) ==
  /\ control = from
  /\ control' = to
  /\ UNCHANGED <<source, tuner, step, pushed, historyVars, configVars>>

FlushJoin == ResetMove("flush_join", "stop") /\ Join
ResetStop == ResetMove("stop", "stop_join") /\ SignalStop
StopJoin == ResetMove("stop_join", "clear") /\ Join
ResetClear == ResetMove("clear", "flags") /\ Clear
ResetDone == ResetMove("flags", "idle") /\ ResetFlags

Control == Reset \/ FlushJoin \/ ResetStop \/ StopJoin \/ ResetClear \/ ResetDone

-----------------------------------------------------------------------------
(* setConfigValue writes the map and the flag under configMutex_; the sync *)
(* form then runs checkAndUpdateConfig on the caller's thread.             *)
MutSetConfigValue ==
  /\ tuner = "idle"
  /\ configMap < MaxConfig
  /\ configMap' = configMap + 1
  /\ UNCHANGED configChanged
  /\ tuner' \in {"idle", "check"}
  /\ UNCHANGED <<queueVars, source, control, step, pushed, historyVars, applied>>


SetConfigValue ==
  /\ tuner = "idle"
  /\ configMap < MaxConfig
  /\ configMap' = configMap + 1
  /\ configChanged' = TRUE
  /\ tuner' \in {"idle", "check"}
  /\ UNCHANGED <<queueVars, source, control, step, pushed, historyVars, applied>>

SyncCheck ==
  /\ tuner = "check"
  /\ tuner' = IF configChanged THEN "apply" ELSE "idle"
  /\ UNCHANGED <<queueVars, source, control, step, pushed, historyVars, configVars>>

SyncApply ==
  /\ tuner = "apply"
  /\ ApplyConfig
  /\ tuner' = "idle"
  /\ UNCHANGED <<queueVars, source, control, step, pushed, historyVars>>

(* What updateConfig throws goes to the caller, and the flag stays.        *)
SyncThrows ==
  /\ tuner = "apply"
  /\ tuner' = "idle"
  /\ UNCHANGED <<queueVars, source, control, step, pushed, historyVars, configVars>>

Tuner == SetConfigValue \/ SyncCheck \/ SyncApply \/ SyncThrows

-----------------------------------------------------------------------------
Next == ~crashed /\ (Source \/ Worker \/ Control \/ Tuner)

(* A call that has begun goes on, and the dequeue thread runs when it can, *)
(* as long as there is a process; whether an application pushes, resets or *)
(* tunes at all is its own affair.                                         *)
Fairness ==
  /\ WF_vars(~crashed /\ Source /\ source # "idle")
  /\ WF_vars(~crashed /\ Worker)
  /\ WF_vars(~crashed /\ Control /\ control # "idle")
  /\ WF_vars(~crashed /\ Tuner /\ tuner # "idle")

Spec == Init /\ [][Next]_vars
FairSpec == Spec /\ Fairness

-----------------------------------------------------------------------------
(* No accepted frame is lost, duplicated or overtaken, through any number  *)
(* of resets: what enqueue took is what was processed, followed by the     *)
(* frame in the worker's hands and the queue, in that order.  It needs     *)
(* flush to wait for an empty queue before reset clears it.                *)
NothingLost == accepted = processed \o Held

(* reset leaves the queue as it was constructed: whenever nobody is inside *)
(* a call, a dequeue thread exists exactly if stopped_ says so, and an     *)
(* unstarted queue holds no flag that would refuse frames.                 *)
FlagsTellTheThread ==
  (source = "idle" /\ control = "idle") =>
     /\ stopped <=> thread = "none"
     /\ stopped => ~flushing /\ ~stopping /\ queue = <<>>

(* The handshake of the threads never terminates the process: start() is   *)
(* not called over a joinable thread, and the worker never calls an empty  *)
(* callback_.  What does is an exception that leaves the queue's callback, *)
(* past the try block of pushFrame.                                        *)
TerminatesOnlyByThrow == crashed => threw

(* stop() never has anything to throw away: by the time reset clears the   *)
(* queue, flush() has had every frame called back.                         *)
ResetDiscardsNothing == control \in {"stop", "stop_join", "clear"} => Held = <<>>

(* The base filter works on a frame with the configuration that had been   *)
(* set when the frame was pushed, or a later one, although configChanged_  *)
(* is read outside configMutex_.                                           *)
ConfigNotOlderThanFrame ==
  (thread = "callback" /\ step = "process") => applied >= pushConfig[inflight[1]]

(* When nobody is about to apply a configuration, a clear flag means the   *)
(* newest values are in the filter.                                        *)
ClearFlagMeansApplied == ~configChanged => applied = configMap

(* The queue never exceeds its capacity, whichever thread fills it.        *)
WithinCapacity == Len(queue) <= Capacity

(* The handshake of the three threads when the calls do not overlap, phase *)
(* by phase of pushFrame and reset: the inductive invariant from which the *)
(* properties above follow.                                                *)
Fresh == stopped /\ ~stopping /\ ~flushing /\ thread = "none" /\ queue = <<>>
Live == ~stopped /\ ~stopping /\ ~flushing /\ callback /\ Serving

Handshake ==
  /\ crashed = threw
  /\ Len(inflight) = IF thread = "callback" THEN 1 ELSE 0
  /\ source # "idle" => control = "idle"
  /\ (source = "idle" /\ control = "idle") => Fresh \/ Live
  /\ source = "flags" => Fresh
  /\ source = "thread" => /\ ~stopped /\ ~stopping /\ ~flushing /\ callback
                         /\ thread = "none" /\ queue = <<>>
  /\ source = "enqueue" => Live
  /\ control # "idle" => flushing
  /\ control = "flush_join" => /\ ~stopping
                              /\ IF Serving THEN callback ELSE queue = <<>>
  /\ control \notin {"idle", "flush_join"} => thread = "none" /\ queue = <<>>

(* reset() returns: the joins inside it end, since flushing_ keeps new     *)
(* frames out and the worker drains what is there, unless one of the       *)
(* frames ends the process.                                                *)
ResetReturns == (control # "idle") ~> (control = "idle" \/ threw)

(* The filter keeps the promise of FrameRelay: a frame taken is worked on  *)
(* once, in order, and eventually, and reset is invisible to that promise; *)
(* nothing but an exception past the try block puts an end to it.          *)
Relay == INSTANCE FrameRelay
           WITH Frames <- 1..MaxFrames, Room <- Capacity + 1,
                taken <- accepted, worked <- processed, ended <- threw
RelaySpec == Relay!Spec
=============================================================================
