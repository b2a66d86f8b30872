------------------------------ MODULE Pipeline -------------------------------
(***************************************************************************)
(* pipeline/Pipeline.cpp: starts and stops the sensors of a configuration, *)
(* feeds their frames to the aggregator and hands the framesets to the     *)
(* application.                                                            *)
(*   the application's thread   start, stop, switchConfig                  *)
(*   a thread per sensor        onFrameCallback, under streamMutex_        *)
(*   the consumer               waitForFrame                               *)
(* streamMutex_ is held by the sensors' threads and, during the restart    *)
(* inside switchConfig, by the application's; streamState_, config_ and    *)
(* pipelineCallback_ are written without it by start and stop.             *)
(*                                                                         *)
(* The output queue is a FrameQueue without a dequeue thread.  A frame is  *)
(* known by the session (the start) it was captured in, the aggregator by  *)
(* the sessions of the frames it holds: which frames it puts together is   *)
(* FrameAggregator's affair.  A frameset is known by its number.           *)
(*                                                                         *)
(* Operators named Mut... are seeded faults; the specification uses none.  *)
(***************************************************************************)
EXTENDS FrameQueue, FiniteSets

CONSTANTS
  Sensors,      \* the sensors of the device
  Configs,      \* configurations: the sensors to start, in order
  StartFails,   \* ISensor::start may throw
  BadConfig,    \* checkAndSetConfig may throw
  NullConfig,   \* ob_pipeline_start_with_callback is called without config
  App,          \* the application's thread, as an owner of streamMutex_
  Nobody,       \* no owner of streamMutex_
  MaxSessions,  \* bound: starts
  MaxFramesets  \* bound: framesets cut

ASSUME PipelineAssumption ==
  /\ IsFiniteSet(Sensors) /\ App \notin Sensors /\ Nobody \notin Sensors \cup {App}
  /\ Configs \subseteq Seq(Sensors) \ {<<>>}
  /\ StartFails \in BOOLEAN /\ BadConfig \in BOOLEAN /\ NullConfig \in BOOLEAN
  /\ MaxSessions \in Nat /\ MaxFramesets \in Nat

VARIABLES
  streamState,       \* streamState_
  config,            \* config_, <<>> before the first
  pipelineCallback,  \* pipelineCallback_ holds a function
  mutex,             \* owner of streamMutex_
  sensor,            \* "off", "on", or "stopping": in ISensor::stop
  delivery,          \* where a sensor's thread is in onFrameCallback
  carried,           \* session of the frame a sensor's thread carries
  cached,            \* sessions of the frames in the aggregator's queues
  api,               \* where the application is in a call
  index,             \* the stream it has got to in startStream or stopStream
  target,            \* argument of switchConfig until its start
  session,           \* number of the last start
  made,              \* framesets cut so far
  born,              \* history: sessions of the frames of a frameset
  asked,             \* history: the last start asked for a callback
  mishap,            \* history: calls that were carried out in part
  received           \* the last frameset the application received

sensorVars == <<sensor, delivery, carried>>
callVars == <<api, index, target>>
historyVars == <<session, made, born, asked, mishap>>
vars == <<queueVars, streamState, config, pipelineCallback, mutex, sensorVars,
          cached, callVars, historyVars, received>>

NoFrameset == [frameset |-> 0, via |-> "none"]

(* The owner of streamMutex_ is the thread that is inside onFrameCallback. *)
Inside == {"push", "callback", "check", "drop", "enqueue"}
OwnerIsInside == \A s \in Sensors : mutex = s <=> delivery[s] \in Inside

TypeOK ==
  /\ QueueTypeOK /\ thread = "none" /\ ~callback /\ ~crashed
  /\ streamState \in {"stopped", "starting", "streaming"}
  /\ config \in Configs \cup {<<>>} /\ target \in Configs \cup {<<>>}
  /\ pipelineCallback \in BOOLEAN
  /\ mutex \in Sensors \cup {App, Nobody} /\ OwnerIsInside
  /\ sensor \in [Sensors -> {"off", "on", "stopping"}]
  /\ delivery \in [Sensors -> {"idle", "lock"} \cup Inside]
  /\ carried \in [Sensors -> 0..MaxSessions]
  /\ cached \subseteq 1..MaxSessions
  /\ api \in {"idle", "reset_stop", "reset_clear", "reset_flags", "start", "stop", "lock", "flush"}
  /\ index \in Nat
  /\ session \in 0..MaxSessions
  /\ made \in 0..MaxFramesets
  /\ born \in [1..MaxFramesets -> SUBSET (1..MaxSessions)]
  /\ asked \in BOOLEAN
  /\ mishap \subseteq {"null_config", "refused_start", "refused_switch", "failed_switch"}
  /\ received \in [frameset : 0..MaxFramesets, via : {"none", "callback", "wait"}]

Init ==
  /\ QueueInit
  /\ streamState = "stopped"
  /\ config = <<>>
  /\ pipelineCallback = FALSE
  /\ mutex = Nobody
  /\ sensor = [s \in Sensors |-> "off"]
  /\ delivery = [s \in Sensors |-> "idle"]
  /\ carried = [s \in Sensors |-> 0]
  /\ cached = {}
  /\ api = "idle"
  /\ index = 0
  /\ target = <<>>
  /\ session = 0
  /\ made = 0
  /\ born = [f \in 1..MaxFramesets |-> {}]
  /\ asked = FALSE
  /\ mishap = {}
  /\ received = NoFrameset

-----------------------------------------------------------------------------
(* start: applyConfig, updateConfig of the aggregator, which empties it,   *)
(* and streamState_ = STARTING.  No sensor runs, so these are one step.    *)
BeginSession(cfg) ==
  /\ session < MaxSessions
  /\ session' = session + 1
  /\ config' = cfg
  /\ cached' = {}
  /\ streamState' = "starting"
  /\ api' = "reset_stop"
  /\ UNCHANGED <<index, made, born>>

Start(withCallback) ==
  /\ api = "idle" /\ streamState = "stopped"
  /\ \E cfg \in Configs : BeginSession(cfg)
  /\ pipelineCallback' = (pipelineCallback \/ withCallback)
  /\ asked' = withCallback
  /\ UNCHANGED <<queueVars, mutex, sensorVars, target, mishap, received>>

(* ob_pipeline_start_with_callback without a configuration calls           *)
(* ob_pipeline_start.                                                      *)
StartWithoutConfig ==
  /\ NullConfig
  /\ api = "idle" /\ streamState = "stopped"
  /\ \E cfg \in Configs : BeginSession(cfg)
  /\ asked' = TRUE
  /\ mishap' = mishap \cup {"null_config"}
  /\ UNCHANGED <<queueVars, pipelineCallback, mutex, sensorVars, target, received>>

(* The callback is stored before the configuration is checked.             *)
StartThrows(withCallback) ==
  /\ BadConfig
  /\ api = "idle" /\ streamState = "stopped"
  /\ pipelineCallback' = (pipelineCallback \/ withCallback)
  /\ mishap' = mishap \cup (IF withCallback THEN {"refused_start"} ELSE {})
  /\ UNCHANGED <<queueVars, streamState, config, mutex, sensorVars, cached,
                 callVars, session, made, born, asked, received>>

(* startStream: outputFrameQueue_->reset(), step by step.                  *)
ResetMove(from, to) ==
  /\ api = from
  /\ api' = to
  /\ index' = 1
  /\ UNCHANGED <<streamState, config, pipelineCallback, mutex, sensorVars, cached,
                 target, historyVars, received>>

ResetStop == ResetMove("reset_stop", "reset_clear") /\ SignalStop
MutResetClear == ResetMove("reset_clear", "reset_flags") /\ UNCHANGED queueVars
ResetClear == ResetMove("reset_clear", "reset_flags") /\ Clear
ResetDone == ResetMove("reset_flags", "start") /\ ResetFlags

Release == mutex' = IF mutex = App THEN Nobody ELSE mutex

StartSensor ==
  /\ api = "start" /\ index <= Len(config)
  /\ sensor' = [sensor EXCEPT ![config[index]] = "on"]
  /\ index' = index + 1
  /\ UNCHANGED <<queueVars, streamState, config, pipelineCallback, mutex, delivery,
                 carried, cached, api, target, historyVars, received>>

(* A sensor that cannot start: stop(), and the exception is passed on.     *)
MutStartSensorThrows ==
  /\ StartFails
  /\ api = "start" /\ index <= Len(config)
  /\ api' = "flush"
  /\ UNCHANGED <<queueVars, streamState, config, pipelineCallback, mutex, sensorVars,
                 cached, index, target, historyVars, received>>

StartSensorThrows ==
  /\ StartFails
  /\ api = "start" /\ index <= Len(config)
  /\ api' = "stop"
  /\ index' = Len(config)
  /\ mishap' = mishap \cup (IF mutex = App THEN {"failed_switch"} ELSE {})
  /\ UNCHANGED <<queueVars, streamState, config, pipelineCallback, mutex, sensorVars,
                 cached, target, session, made, born, asked, received>>

MutStartReturns ==
  /\ api = "start" /\ index > Len(config)
  /\ api' = "idle"
  /\ UNCHANGED <<queueVars, streamState, config, pipelineCallback, mutex, sensorVars, cached,
                 index, target, historyVars, received>>

StartReturns ==
  /\ api = "start" /\ index > Len(config)
  /\ api' = "idle"
  /\ Release
  /\ UNCHANGED <<queueVars, streamState, config, pipelineCallback, sensorVars, cached,
                 index, target, historyVars, received>>

-----------------------------------------------------------------------------
(* stop: stopStream unless STOPPED, last stream first.                     *)
Stop ==
  /\ api = "idle"
  /\ api' = IF streamState = "stopped" THEN "flush" ELSE "stop"
  /\ index' = Len(config)
  /\ UNCHANGED <<queueVars, streamState, config, pipelineCallback, mutex, sensorVars,
                 cached, target, historyVars, received>>

(* ISensor::stop takes no more frames and joins the thread that delivers.  *)
StopSensor ==
  /\ api = "stop" /\ index > 0
  /\ sensor[config[index]] = "on"
  /\ sensor' = [sensor EXCEPT ![config[index]] = "stopping"]
  /\ UNCHANGED <<queueVars, streamState, config, pipelineCallback, mutex, delivery,
                 carried, cached, callVars, historyVars, received>>

MutSensorStopped ==
  /\ api = "stop" /\ index > 0
  /\ sensor' = [sensor EXCEPT ![config[index]] = "off"]
  /\ index' = index - 1
  /\ UNCHANGED <<queueVars, streamState, config, pipelineCallback, mutex, delivery,
                 carried, cached, api, target, historyVars, received>>

SensorStopped ==
  /\ api = "stop" /\ index > 0
  /\ sensor[config[index]] # "on" /\ delivery[config[index]] = "idle"
  /\ sensor' = [sensor EXCEPT ![config[index]] = "off"]
  /\ index' = index - 1
  /\ UNCHANGED <<queueVars, streamState, config, pipelineCallback, mutex, delivery,
                 carried, cached, api, target, historyVars, received>>

StreamsStopped ==
  /\ api = "stop" /\ index = 0
  /\ api' = IF target = <<>> THEN "flush" ELSE "lock"
  /\ UNCHANGED <<queueVars, streamState, config, pipelineCallback, mutex, sensorVars,
                 cached, index, target, historyVars, received>>

(* The rest of stop: clearAllFrameQueue, flush, callback and state.  All   *)
(* sensors are off, so only the flag of the queue could be seen half way.  *)
MutFlush ==
  /\ api = "flush"
  /\ SignalFlush
  /\ cached' = {}
  /\ streamState' = "stopped"
  /\ api' = "idle"
  /\ Release
  /\ mishap' = {}
  /\ UNCHANGED <<config, pipelineCallback, sensorVars, index, target, session, made, born, asked,
                 received>>

Flush ==
  /\ api = "flush"
  /\ SignalFlush
  /\ cached' = {}
  /\ pipelineCallback' = FALSE
  /\ streamState' = "stopped"
  /\ api' = "idle"
  /\ Release
  /\ mishap' = {}
  /\ UNCHANGED <<config, sensorVars, index, target, session, made, born, asked, received>>

-----------------------------------------------------------------------------
(* switchConfig.  Running: stopStream without the mutex, then start with   *)
(* it.  Otherwise applyConfig.                                             *)
SwitchConfig(cfg) ==
  /\ api = "idle" /\ cfg # config
  /\ IF streamState = "stopped"
       THEN config' = cfg /\ UNCHANGED callVars
       ELSE /\ session < MaxSessions
            /\ api' = "stop" /\ index' = Len(config) /\ target' = cfg
            /\ UNCHANGED config
  /\ UNCHANGED <<queueVars, streamState, pipelineCallback, mutex, sensorVars, cached,
                 historyVars, received>>

SwitchStart ==
  /\ api = "lock" /\ mutex = Nobody
  /\ mutex' = App
  /\ BeginSession(target)
  /\ target' = <<>>
  /\ mishap' = mishap \ {"refused_switch"}
  /\ UNCHANGED <<queueVars, pipelineCallback, sensorVars, asked, received>>

(* applyConfig throws out of switchConfig: the streams stay stopped.       *)
SwitchThrows ==
  /\ BadConfig
  /\ api = "lock" /\ mutex = Nobody
  /\ api' = "idle"
  /\ target' = <<>>
  /\ mishap' = mishap \cup {"refused_switch"}
  /\ UNCHANGED <<queueVars, streamState, config, pipelineCallback, mutex, sensorVars,
                 cached, index, session, made, born, asked, received>>

-----------------------------------------------------------------------------
(* A sensor's thread brings a frame to onFrameCallback.                    *)
Arrive(s) ==
  /\ sensor[s] = "on" /\ delivery[s] = "idle"
  /\ delivery' = [delivery EXCEPT ![s] = "lock"]
  /\ carried' = [carried EXCEPT ![s] = session]
  /\ UNCHANGED <<queueVars, streamState, config, pipelineCallback, mutex, sensor,
                 cached, callVars, historyVars, received>>

(* With the mutex: the first frame makes the pipeline STREAMING, and the   *)
(* aggregator takes the frame.                                             *)
OnFrame(s) ==
  /\ delivery[s] = "lock" /\ mutex = Nobody
  /\ IF streamState = "stopped"
       THEN /\ delivery' = [delivery EXCEPT ![s] = "idle"]
            /\ UNCHANGED <<mutex, streamState, cached>>
       ELSE /\ delivery' = [delivery EXCEPT ![s] = "push"]
            /\ mutex' = s
            /\ streamState' = "streaming"
            /\ cached' = cached \cup {carried[s]}
  /\ UNCHANGED <<queueVars, config, pipelineCallback, sensor, carried, callVars,
                 historyVars, received>>

Leave(s) ==
  /\ delivery' = [delivery EXCEPT ![s] = "idle"]
  /\ mutex' = Nobody
  /\ UNCHANGED <<streamState, config, pipelineCallback, sensor, carried, cached,
                 callVars, historyVars>>

(* The push completes no frameset ...                                      *)
FrameWaits(s) ==
  /\ delivery[s] = "push"
  /\ Leave(s)
  /\ UNCHANGED <<queueVars, received>>

(* ... or one, and outputFrame looks at the state and the callback.        *)
FramesetCut(s) ==
  /\ delivery[s] = "push" /\ made < MaxFramesets
  /\ streamState = "streaming"
  /\ \E parts \in SUBSET cached \ {{}} :
       /\ born' = [born EXCEPT ![made + 1] = parts]
       /\ cached' \in {cached, cached \ parts}
  /\ made' = made + 1
  /\ delivery' = [delivery EXCEPT ![s] = IF pipelineCallback THEN "callback" ELSE "check"]
  /\ UNCHANGED <<queueVars, streamState, config, pipelineCallback, mutex, sensor,
                 carried, callVars, session, asked, mishap, received>>

RunCallback(s) ==
  /\ delivery[s] = "callback"
  /\ received' = [frameset |-> made, via |-> "callback"]
  /\ Leave(s)
  /\ UNCHANGED queueVars

(* fulled(), dequeue() of the oldest, enqueue(): the consumer may come in  *)
(* between.                                                                *)
CheckFull(s) ==
  /\ delivery[s] = "check"
  /\ delivery' = [delivery EXCEPT ![s] = IF Len(queue) >= Capacity THEN "drop" ELSE "enqueue"]
  /\ UNCHANGED <<queueVars, streamState, config, pipelineCallback, mutex, sensor,
                 carried, cached, callVars, historyVars, received>>

MutDropOldest(s) ==
  /\ delivery[s] = "drop"
  /\ Clear
  /\ delivery' = [delivery EXCEPT ![s] = "enqueue"]
  /\ UNCHANGED <<streamState, config, pipelineCallback, mutex, sensor, carried, cached,
                 callVars, historyVars, received>>

DropOldest(s) ==
  /\ delivery[s] = "drop"
  /\ IF queue = <<>> THEN UNCHANGED queueVars ELSE Dequeue
  /\ delivery' = [delivery EXCEPT ![s] = "enqueue"]
  /\ UNCHANGED <<streamState, config, pipelineCallback, mutex, sensor, carried, cached,
                 callVars, historyVars, received>>

EnqueueFrameset(s) ==
  /\ delivery[s] = "enqueue"
  /\ Enqueue(made)
  /\ Leave(s)
  /\ UNCHANGED received

Deliver(s) ==
  \/ OnFrame(s) \/ FrameWaits(s) \/ FramesetCut(s) \/ RunCallback(s)
  \/ CheckFull(s) \/ DropOldest(s) \/ EnqueueFrameset(s)

(* waitForFrame; when its timeout passes first it returns nothing.         *)
WaitForFrame ==
  /\ Dequeue
  /\ received' = [frameset |-> Head(queue), via |-> "wait"]
  /\ UNCHANGED <<streamState, config, pipelineCallback, mutex, sensorVars, cached,
                 callVars, historyVars>>

-----------------------------------------------------------------------------
Call ==
  \/ \E withCallback \in BOOLEAN : Start(withCallback) \/ StartThrows(withCallback)
  \/ StartWithoutConfig
  \/ Stop
  \/ \E cfg \in Configs : SwitchConfig(cfg)

Proceed ==
  \/ ResetStop \/ ResetClear \/ ResetDone
  \/ StartSensor \/ StartSensorThrows \/ StartReturns
  \/ StopSensor \/ SensorStopped \/ StreamsStopped \/ Flush
  \/ SwitchStart \/ SwitchThrows

Next == Call \/ Proceed \/ (\E s \in Sensors : Arrive(s) \/ Deliver(s)) \/ WaitForFrame

Spec == Init /\ [][Next]_vars

(* A call that has begun goes on; a thread that is in onFrameCallback goes *)
(* on, and gets the mutex if it is free again and again: frames come       *)
(* milliseconds apart and hold it for microseconds.                        *)
FairSpec ==
  /\ Spec
  /\ WF_vars(Proceed)
  /\ \A s \in Sensors : WF_vars(Deliver(s)) /\ SF_vars(OnFrame(s))

-----------------------------------------------------------------------------
(* A restart leaves nothing of the earlier session behind: while the       *)
(* pipeline streams, only frames of this session are in the aggregator, in *)
(* a thread's hands and in the output queue.                               *)
RestartIsClean ==
  streamState = "streaming" =>
    /\ cached \subseteq {session}
    /\ \A i \in DOMAIN queue : born[queue[i]] \subseteq {session}
    /\ \A s \in Sensors : delivery[s] # "idle" => carried[s] = session

(* What a sensor's thread has found out still holds when it acts on it:    *)
(* the newest frameset finds room once the oldest was dropped, since       *)
(* streamMutex_ keeps a second producer out and flushing_ is never set     *)
(* while a frameset is on its way; and the callback is not taken away      *)
(* between the check and the call of it, although stop clears it without   *)
(* streamMutex_.                                                           *)
ChecksHold ==
  \A s \in Sensors :
    /\ delivery[s] = "enqueue" => Accepts
    /\ delivery[s] = "callback" => pipelineCallback

(* Between calls a stopped pipeline has no sensor running, and a running   *)
(* one has all sensors of its configuration running and no other; only a   *)
(* switchConfig that was refused leaves a streaming state without sensors. *)
SensorsMatchState ==
  api = "idle" =>
    {s \in Sensors : sensor[s] = "on"} =
      IF streamState = "stopped" \/ "refused_switch" \in mishap
        THEN {} ELSE {config[i] : i \in DOMAIN config}

(* Framesets go where the last start said: to its callback, or to          *)
(* waitForFrame, unless a start that was refused has left its callback, or *)
(* the callback came without a configuration and was ignored.              *)
SinkAsAsked ==
  [][ (received' # received /\ streamState = "streaming"
         /\ mishap \cap {"refused_start", "null_config"} = {})
        => received'.via = IF asked THEN "callback" ELSE "wait" ]_vars

(* The pipeline keeps the promise of FramesetStream: framesets of the      *)
(* session that streams, in order, and after stop, which does not empty    *)
(* the output queue, what that session has left.  A frameset that was cut  *)
(* waits in the hands of the thread that delivers it, then in the queue.   *)
(* The consumer may make room between fulled() and dequeue(): the frameset *)
(* that is dropped then need not have gone.                                *)
Hands == {"callback", "check", "drop", "enqueue"}
InHand == IF \E s \in Sensors : delivery[s] \in Hands THEN 1 ELSE 0
Waiting == Len(queue) + InHand

Stream == INSTANCE FramesetStream
            WITH Room <- Capacity, phase <- streamState,
                 next <- made + 1 - Waiting, last <- received.frameset

StreamSpec == Stream!Spec

(* A sensor has failed to start inside switchConfig, and start() stops the *)
(* others with streamMutex_ held.                                          *)
StopsUnderMutex == "failed_switch" \in mishap

(* Every other call returns: stop and switchConfig wait for the sensors'   *)
(* threads and do not hold what these wait for.                            *)
CallsReturn == (api # "idle") ~> (api = "idle" \/ StopsUnderMutex)

(* That one returns as well.                                               *)
SwitchReturns == StopsUnderMutex ~> (api = "idle")
=============================================================================
