--------------------------- MODULE PipelineProofs ---------------------------
(***************************************************************************)
(* Proofs about Pipeline, for any sensors and configurations, any capacity *)
(* of the output queue and any number of sessions and framesets, with      *)
(* sensors that fail to start and configurations that are refused or       *)
(* missing: sessions stay apart, the newest frameset finds room, framesets *)
(* go where the last start said, and a stopped pipeline has no sensors.    *)
(***************************************************************************)
EXTENDS Pipeline, SequenceTheorems, TLAPS

Resetting == {"reset_stop", "reset_clear", "reset_flags"}
Running == {s \in Sensors : sensor[s] # "off"}
Streams(n) == {config[i] : i \in 1..n}

(* Which sensors may be running at every place of a call.  A sensor that   *)
(* is off has no thread in onFrameCallback.                                *)
SensorsByPlace ==
  /\ \A s \in Sensors : sensor[s] = "off" => delivery[s] = "idle"
  /\ \A s \in Sensors : sensor[s] = "stopping" => api = "stop"
  /\ api \in Resetting \cup {"flush", "lock"} => Running = {}
  /\ api = "start" => index \in 1..Len(config) + 1 /\ Running = Streams(index - 1)
  /\ api = "stop" => index \in 0..Len(config) /\ Running \subseteq Streams(index)
  /\ SensorsMatchState

(* What goes with streamState_.                                            *)
StateByPlace ==
  /\ streamState = "stopped" =>
       Running = {} /\ api \in {"idle", "flush"} /\ "refused_switch" \notin mishap
  /\ streamState # "stopped" => config # <<>> /\ session > 0
  /\ api \in Resetting => streamState = "starting"
  /\ api \in Resetting \cup {"start"} => "refused_switch" \notin mishap
  /\ target # <<>> => api \in {"stop", "lock"}
  /\ api = "lock" => target # <<>>

(* What is on its way belongs to this session; what is left in the queue   *)
(* from the last one goes in the course of the reset.                      *)
OfThisSession ==
  /\ \A s \in Sensors : delivery[s] # "idle" => carried[s] = session
  /\ cached \subseteq {session}
  /\ queue \in Seq(1..made)
  /\ api \notin {"reset_stop", "reset_clear"} =>
       \A i \in DOMAIN queue : born[queue[i]] \subseteq {session}
  /\ \A s \in Sensors : delivery[s] \in {"callback", "check", "drop", "enqueue"} =>
       made > 0 /\ born[made] \subseteq {session}

(* Room in the queue: it is flushing only while nothing runs, and between  *)
(* the drop of the oldest and the newest nobody else puts anything in.     *)
RoomForNewest ==
  /\ Len(queue) <= Capacity
  /\ flushing => streamState = "stopped" \/ api \in Resetting
  /\ \A s \in Sensors : delivery[s] = "enqueue" => Len(queue) < Capacity

(* The callback changes only while no sensor runs, so that every frameset  *)
(* of a session goes the same way.                                         *)
Sink ==
  /\ \A s \in Sensors : delivery[s] = "callback" => pipelineCallback
  /\ \A s \in Sensors : delivery[s] \in {"check", "drop", "enqueue"} => ~pipelineCallback
  /\ pipelineCallback =>
       queue = <<>> \/ streamState = "stopped" \/ api \in {"reset_stop", "reset_clear"}
  /\ streamState = "stopped" /\ "refused_start" \notin mishap => ~pipelineCallback
  /\ streamState # "stopped" /\ mishap \cap {"refused_start", "null_config"} = {} =>
       pipelineCallback = asked

PipelineInv ==
  TypeOK /\ SensorsByPlace /\ StateByPlace /\ OfThisSession /\ RoomForNewest /\ Sink

-----------------------------------------------------------------------------
(* What the types say of the configuration and of the functions.           *)
LEMMA TypeFacts ==
  ASSUME TypeOK
  PROVE  /\ config \in Seq(Sensors) /\ Len(config) \in Nat /\ index \in Nat
         /\ sensor \in [Sensors -> {"off", "on", "stopping"}]
         /\ delivery \in [Sensors -> {"idle", "lock"} \cup Inside]
         /\ carried \in [Sensors -> 0..MaxSessions]
         /\ session \in Nat /\ MaxSessions \in Nat /\ target \in Configs \cup {<<>>}
         /\ made \in Nat /\ MaxFramesets \in Nat
         /\ born \in [1..MaxFramesets -> SUBSET (1..MaxSessions)]
<1>1. config \in Seq(Sensors)
  <2>1. Configs \subseteq Seq(Sensors)
    BY PipelineAssumption
  <2>2. config \in Configs \/ config = <<>>
    BY DEF TypeOK
  <2>3. <<>> \in Seq(Sensors)
    BY EmptySeq
  <2> QED BY <2>1, <2>2, <2>3
<1>2. MaxSessions \in Nat /\ MaxFramesets \in Nat
  BY PipelineAssumption
<1> QED BY <1>1, <1>2 DEF TypeOK

(* streamMutex_ keeps the other threads out of onFrameCallback.            *)
LEMMA OwnerAlone ==
  ASSUME TypeOK, NEW s \in Sensors, delivery[s] \in Inside
  PROVE  mutex = s /\ \A t \in Sensors \ {s} : delivery[t] \in {"idle", "lock"}
<1>1. mutex = s
  BY DEF TypeOK, OwnerIsInside
<1>2. \A t \in Sensors \ {s} : delivery[t] \notin Inside
  BY <1>1 DEF TypeOK, OwnerIsInside
<1> QED BY <1>1, <1>2, TypeFacts

(* A new session is only begun while no sensor runs.                       *)
LEMMA NobodyInside ==
  ASSUME SensorsByPlace, StateByPlace,
         streamState = "stopped" \/ api \in Resetting \cup {"flush", "lock"}
  PROVE  \A s \in Sensors : sensor[s] = "off" /\ delivery[s] = "idle"
BY DEF SensorsByPlace, StateByPlace, Running

(* The frameset at the front of the queue, and the ones behind it.         *)
LEMMA FrontOfQueue ==
  ASSUME NEW S, NEW q \in Seq(S), q # <<>>
  PROVE  /\ Head(q) \in S /\ Tail(q) \in Seq(S) /\ Len(Tail(q)) = Len(q) - 1
         /\ \A i \in DOMAIN Tail(q) : i + 1 \in DOMAIN q /\ Tail(q)[i] = q[i + 1]
BY HeadTailProperties

(* Every step keeps the types, and streamMutex_ with the thread inside:    *)
(* those of the queue, of the sensors' threads, of the call and of the     *)
(* frames on their way.                                                    *)
QueueTypes == QueueTypeOK /\ thread = "none" /\ ~callback /\ ~crashed

SensorTypes ==
  /\ mutex \in Sensors \cup {App, Nobody} /\ OwnerIsInside
  /\ sensor \in [Sensors -> {"off", "on", "stopping"}]
  /\ delivery \in [Sensors -> {"idle", "lock"} \cup Inside]
  /\ carried \in [Sensors -> 0..MaxSessions]

CallTypes ==
  /\ streamState \in {"stopped", "starting", "streaming"}
  /\ config \in Configs \cup {<<>>} /\ target \in Configs \cup {<<>>}
  /\ pipelineCallback \in BOOLEAN
  /\ api \in {"idle", "reset_stop", "reset_clear", "reset_flags", "start", "stop", "lock", "flush"}
  /\ index \in Nat
  /\ session \in 0..MaxSessions
  /\ asked \in BOOLEAN
  /\ mishap \subseteq {"null_config", "refused_start", "refused_switch", "failed_switch"}

FrameTypes ==
  /\ cached \subseteq 1..MaxSessions
  /\ made \in 0..MaxFramesets
  /\ born \in [1..MaxFramesets -> SUBSET (1..MaxSessions)]
  /\ received \in [frameset : 0..MaxFramesets, via : {"none", "callback", "wait"}]

LEMMA TypeParts ==
  /\ TypeOK <=> QueueTypes /\ SensorTypes /\ CallTypes /\ FrameTypes
  /\ TypeOK' <=> QueueTypes' /\ SensorTypes' /\ CallTypes' /\ FrameTypes'
BY DEF TypeOK, QueueTypes, SensorTypes, CallTypes, FrameTypes

LEMMA QueueTypesStep ==
  ASSUME TypeOK, [Next]_vars
  PROVE  QueueTypes'
<1>1. QueueTypes
  BY TypeParts
<1>2. CASE UNCHANGED queueVars
  BY <1>1, <1>2 DEF QueueTypes, QueueTypeOK, queueVars
<1>3. CASE ResetStop \/ ResetDone \/ Flush
  <2>1. /\ UNCHANGED <<queue, callback, thread, inflight, crashed>>
        /\ stopped' \in BOOLEAN /\ stopping' \in BOOLEAN /\ flushing' \in BOOLEAN
    BY <1>1, <1>3 DEF ResetStop, ResetDone, Flush, SignalStop, ResetFlags, SignalFlush,
       QueueTypes, QueueTypeOK
  <2> QED BY <1>1, <2>1 DEF QueueTypes, QueueTypeOK
<1>4. CASE ResetClear
  <2>1. /\ UNCHANGED <<stopped, stopping, flushing, callback, thread, inflight, crashed>>
        /\ queue' = <<>>
    BY <1>1, <1>4 DEF ResetClear, Clear
  <2> QED BY <1>1, <2>1, EmptySeq DEF QueueTypes, QueueTypeOK
<1>5. ASSUME Dequeue PROVE QueueTypes'
  <2>2. /\ queue # <<>> /\ queue' = Tail(queue)
        /\ UNCHANGED <<stopped, stopping, flushing, callback, thread, inflight, crashed>>
    BY <1>5 DEF Dequeue
  <2>3. Tail(queue) \in Seq(Nat)
    BY <1>1, <2>2, FrontOfQueue DEF QueueTypes, QueueTypeOK
  <2> QED BY <1>1, <2>2, <2>3 DEF QueueTypes, QueueTypeOK
<1>6. ASSUME NEW s \in Sensors, EnqueueFrameset(s) PROVE QueueTypes'
  <2>1. /\ queue' = queue \/ queue' = Append(queue, made)
        /\ UNCHANGED <<stopped, stopping, flushing, callback, thread, inflight, crashed>>
    BY <1>6 DEF EnqueueFrameset, Enqueue
  <2>2. queue \in Seq(Nat)
    BY <1>1 DEF QueueTypes, QueueTypeOK
  <2>3. Append(queue, made) \in Seq(Nat)
    BY <2>2, TypeFacts, AppendProperties
  <2>4. queue' \in Seq(Nat)
    BY <2>1, <2>2, <2>3
  <2> QED BY <1>1, <2>1, <2>4 DEF QueueTypes, QueueTypeOK
<1>7. ASSUME NEW cb \in BOOLEAN, Start(cb) \/ StartThrows(cb) PROVE UNCHANGED queueVars
  BY <1>7 DEF Start, StartThrows
<1>8. ASSUME StartWithoutConfig \/ Stop \/ \E cfg \in Configs : SwitchConfig(cfg)
      PROVE  UNCHANGED queueVars
  BY <1>8 DEF StartWithoutConfig, Stop, SwitchConfig
<1>9. ASSUME \/ StartSensor \/ StartSensorThrows \/ StartReturns
             \/ StopSensor \/ SensorStopped \/ StreamsStopped
             \/ SwitchStart \/ SwitchThrows
      PROVE  UNCHANGED queueVars
  BY <1>9 DEF StartSensor, StartSensorThrows, StartReturns, StopSensor, SensorStopped,
     StreamsStopped, SwitchStart, SwitchThrows
<1>10. ASSUME NEW s \in Sensors,
              \/ Arrive(s) \/ OnFrame(s) \/ FrameWaits(s) \/ FramesetCut(s)
              \/ RunCallback(s) \/ CheckFull(s)
       PROVE  UNCHANGED queueVars
  BY <1>10 DEF Arrive, OnFrame, FrameWaits, FramesetCut, RunCallback, CheckFull
<1>11. ASSUME NEW s \in Sensors, DropOldest(s) PROVE Dequeue \/ UNCHANGED queueVars
  BY <1>11 DEF DropOldest
<1>12. CASE WaitForFrame
  BY <1>5, <1>12 DEF WaitForFrame
<1>13. CASE UNCHANGED vars
  BY <1>2, <1>13 DEF vars
<1> QED BY <1>2, <1>3, <1>4, <1>5, <1>6, <1>7, <1>8, <1>9, <1>10, <1>11, <1>12, <1>13
    DEF Next, Call, Proceed, Deliver

LEMMA SensorTypesStep ==
  ASSUME TypeOK, [Next]_vars
  PROVE  SensorTypes'
<1>1. /\ SensorTypes /\ mutex \in Sensors \cup {App, Nobody}
      /\ \A s \in Sensors : mutex = s <=> delivery[s] \in Inside
      /\ sensor \in [Sensors -> {"off", "on", "stopping"}]
      /\ delivery \in [Sensors -> {"idle", "lock"} \cup Inside]
      /\ carried \in [Sensors -> 0..MaxSessions]
  <2>1. SensorTypes
    BY TypeParts
  <2> QED BY <2>1 DEF SensorTypes, OwnerIsInside
<1>2. App \notin Sensors /\ Nobody \notin Sensors /\ App # Nobody
  BY PipelineAssumption
<1>3. CASE UNCHANGED <<mutex, sensorVars>>
  BY <1>1, <1>3 DEF SensorTypes, OwnerIsInside, sensorVars
<1>4. CASE StartSensor \/ StopSensor \/ SensorStopped
  <2>1. sensor' \in [Sensors -> {"off", "on", "stopping"}] /\ UNCHANGED <<mutex, delivery, carried>>
    BY <1>1, <1>4 DEF StartSensor, StopSensor, SensorStopped
  <2> QED BY <1>1, <2>1 DEF SensorTypes, OwnerIsInside
<1>5. CASE StartReturns \/ Flush \/ SwitchStart
  <2>1. /\ mutex' \in Sensors \cup {App, Nobody}
        /\ \A s \in Sensors : mutex' = s <=> mutex = s
        /\ UNCHANGED <<sensor, delivery, carried>>
    BY <1>1, <1>2, <1>5 DEF StartReturns, Flush, SwitchStart, Release, sensorVars
  <2> QED BY <1>1, <2>1 DEF SensorTypes, OwnerIsInside
<1>6. ASSUME NEW s \in Sensors, Arrive(s) PROVE SensorTypes'
  <2>1. /\ delivery[s] = "idle" /\ delivery' = [delivery EXCEPT ![s] = "lock"]
        /\ carried' = [carried EXCEPT ![s] = session] /\ UNCHANGED <<mutex, sensor>>
    BY <1>6 DEF Arrive
  <2>2. carried' \in [Sensors -> 0..MaxSessions]
    BY <1>1, <2>1 DEF TypeOK
  <2>3. delivery' \in [Sensors -> {"idle", "lock"} \cup Inside]
    BY <1>1, <2>1
  <2>4. \A t \in Sensors : mutex' = t <=> delivery'[t] \in Inside
    BY <1>1, <2>1 DEF Inside
  <2> QED BY <1>1, <2>1, <2>2, <2>3, <2>4 DEF SensorTypes, OwnerIsInside
<1>7. ASSUME NEW s \in Sensors, OnFrame(s) PROVE SensorTypes'
  <2>1. /\ delivery[s] = "lock" /\ mutex = Nobody /\ UNCHANGED <<sensor, carried>>
        /\ \/ delivery' = [delivery EXCEPT ![s] = "idle"] /\ mutex' = mutex
           \/ delivery' = [delivery EXCEPT ![s] = "push"] /\ mutex' = s
    BY <1>7 DEF OnFrame
  <2>2. delivery' \in [Sensors -> {"idle", "lock"} \cup Inside]
    BY <1>1, <2>1 DEF Inside
  <2>3. \A t \in Sensors : mutex' = t <=> delivery'[t] \in Inside
    BY <1>1, <1>2, <2>1 DEF Inside
  <2> QED BY <1>1, <2>1, <2>2, <2>3 DEF SensorTypes, OwnerIsInside
<1>8. ASSUME NEW s \in Sensors, FrameWaits(s) \/ RunCallback(s) \/ EnqueueFrameset(s)
      PROVE  SensorTypes'
  <2>1. /\ delivery[s] \in Inside /\ delivery' = [delivery EXCEPT ![s] = "idle"]
        /\ mutex' = Nobody /\ UNCHANGED <<sensor, carried>>
    BY <1>8 DEF FrameWaits, RunCallback, EnqueueFrameset, Leave, Inside
  <2>2. mutex = s
    BY <1>1, <2>1
  <2>3. delivery' \in [Sensors -> {"idle", "lock"} \cup Inside]
    BY <1>1, <2>1
  <2>4. \A t \in Sensors : mutex' = t <=> delivery'[t] \in Inside
    BY <1>1, <1>2, <2>1, <2>2 DEF Inside
  <2> QED BY <1>1, <2>1, <2>3, <2>4 DEF SensorTypes, OwnerIsInside
<1>9. ASSUME NEW s \in Sensors, FramesetCut(s) \/ CheckFull(s) \/ DropOldest(s)
      PROVE  SensorTypes'
  <2>1. /\ delivery[s] \in Inside /\ UNCHANGED <<mutex, sensor, carried>>
        /\ \E place \in Inside : delivery' = [delivery EXCEPT ![s] = place]
    BY <1>9 DEF FramesetCut, CheckFull, DropOldest, Inside
  <2>2. delivery' \in [Sensors -> {"idle", "lock"} \cup Inside]
    BY <1>1, <2>1
  <2>3. \A t \in Sensors : mutex' = t <=> delivery'[t] \in Inside
    BY <1>1, <2>1
  <2> QED BY <1>1, <2>1, <2>2, <2>3 DEF SensorTypes, OwnerIsInside
<1>10. ASSUME NEW cb \in BOOLEAN, Start(cb) \/ StartThrows(cb)
       PROVE  UNCHANGED <<mutex, sensorVars>>
  BY <1>10 DEF Start, StartThrows
<1>11. ASSUME StartWithoutConfig \/ Stop \/ \E cfg \in Configs : SwitchConfig(cfg)
       PROVE  UNCHANGED <<mutex, sensorVars>>
  BY <1>11 DEF StartWithoutConfig, Stop, SwitchConfig
<1>12. ASSUME \/ ResetStop \/ ResetClear \/ ResetDone \/ StartSensorThrows
              \/ StreamsStopped \/ SwitchThrows \/ WaitForFrame
       PROVE  UNCHANGED <<mutex, sensorVars>>
  BY <1>12 DEF ResetStop, ResetClear, ResetDone, ResetMove, StartSensorThrows, StreamsStopped,
     SwitchThrows, WaitForFrame
<1>13. CASE UNCHANGED vars
  BY <1>3, <1>13 DEF vars
<1> QED BY <1>3, <1>4, <1>5, <1>6, <1>7, <1>8, <1>9, <1>10, <1>11, <1>12, <1>13
    DEF Next, Call, Proceed, Deliver

LEMMA CallTypesStep ==
  ASSUME TypeOK, [Next]_vars
  PROVE  CallTypes'
<1> DEFINE callTypes == <<streamState, config, target, pipelineCallback, api, index>>
           histTypes == <<session, asked, mishap>>
<1>1. CallTypes /\ MaxSessions \in Nat /\ Len(config) \in Nat
  BY TypeParts, TypeFacts
<1>2. CASE UNCHANGED <<callTypes, histTypes>>
  BY <1>1, <1>2 DEF CallTypes
<1>3. ASSUME NEW cfg \in Configs, BeginSession(cfg)
      PROVE  /\ session' \in 0..MaxSessions /\ config' \in Configs \cup {<<>>}
             /\ streamState' = "starting" /\ api' = "reset_stop" /\ index' \in Nat
  BY <1>1, <1>3 DEF BeginSession, CallTypes
<1>4. ASSUME NEW cb \in BOOLEAN, Start(cb) PROVE CallTypes'
  <2>1. /\ \E cfg \in Configs : BeginSession(cfg)
        /\ pipelineCallback' = (pipelineCallback \/ cb)
        /\ asked' = cb /\ UNCHANGED <<target, mishap>>
    BY <1>4 DEF Start
  <2>2. pipelineCallback' \in BOOLEAN
    BY <1>1, <2>1 DEF CallTypes
  <2> QED BY <1>1, <1>3, <2>1, <2>2 DEF CallTypes
<1>5. ASSUME NEW cb \in BOOLEAN, StartThrows(cb) PROVE CallTypes'
  <2>1. /\ pipelineCallback' = (pipelineCallback \/ cb)
        /\ mishap' = mishap \cup (IF cb THEN {"refused_start"} ELSE {})
        /\ UNCHANGED <<streamState, config, target, api, index, session, asked>>
    BY <1>5 DEF StartThrows, callVars
  <2>2. pipelineCallback' \in BOOLEAN
    BY <1>1, <2>1 DEF CallTypes
  <2> QED BY <1>1, <2>1, <2>2 DEF CallTypes
<1>6. CASE StartWithoutConfig
  <2>1. /\ \E cfg \in Configs : BeginSession(cfg)
        /\ asked' = TRUE /\ mishap' = mishap \cup {"null_config"}
        /\ UNCHANGED <<target, pipelineCallback>>
    BY <1>6 DEF StartWithoutConfig
  <2> QED BY <1>1, <1>3, <2>1 DEF CallTypes
<1>7. ASSUME NEW cfg \in Configs, SwitchConfig(cfg) PROVE CallTypes'
  <2>1. /\ UNCHANGED <<streamState, pipelineCallback, session, asked, mishap>>
        /\ \/ config' = cfg /\ UNCHANGED <<api, index, target>>
           \/ api' = "stop" /\ index' = Len(config) /\ target' = cfg /\ UNCHANGED config
    BY <1>7 DEF SwitchConfig, callVars, historyVars
  <2> QED BY <1>1, <2>1 DEF CallTypes
<1>8. CASE Stop
  <2>1. /\ api' \in {"flush", "stop"} /\ index' = Len(config)
        /\ UNCHANGED <<streamState, config, target, pipelineCallback, session, asked, mishap>>
    BY <1>8 DEF Stop, historyVars
  <2> QED BY <1>1, <2>1 DEF CallTypes
<1>9. CASE ResetStop \/ ResetClear \/ ResetDone
  <2>1. /\ api' \in {"reset_clear", "reset_flags", "start"} /\ index' = 1
        /\ UNCHANGED <<streamState, config, target, pipelineCallback, session, asked, mishap>>
    BY <1>9 DEF ResetStop, ResetClear, ResetDone, ResetMove, historyVars
  <2> QED BY <1>1, <2>1 DEF CallTypes
<1>10. CASE StartSensor \/ SensorStopped
  <2>1. /\ index' \in Nat
        /\ UNCHANGED <<streamState, config, target, pipelineCallback, api, session, asked, mishap>>
    BY <1>1, <1>10 DEF StartSensor, SensorStopped, historyVars, CallTypes
  <2> QED BY <1>1, <2>1 DEF CallTypes
<1>11. CASE StartSensorThrows
  <2>1. /\ api' = "stop" /\ index' = Len(config)
        /\ mishap' = mishap \cup (IF mutex = App THEN {"failed_switch"} ELSE {})
        /\ UNCHANGED <<streamState, config, target, pipelineCallback, session, asked>>
    BY <1>11 DEF StartSensorThrows
  <2> QED BY <1>1, <2>1 DEF CallTypes
<1>12. CASE StartReturns \/ StreamsStopped
  <2>1. /\ api' \in {"idle", "flush", "lock"}
        /\ UNCHANGED <<streamState, config, target, pipelineCallback, index, session, asked,
                       mishap>>
    BY <1>12 DEF StartReturns, StreamsStopped, historyVars
  <2> QED BY <1>1, <2>1 DEF CallTypes
<1>13. CASE Flush
  <2>1. /\ pipelineCallback' = FALSE /\ streamState' = "stopped" /\ api' = "idle" /\ mishap' = {}
        /\ UNCHANGED <<config, target, index, session, asked>>
    BY <1>13 DEF Flush
  <2> QED BY <1>1, <2>1 DEF CallTypes
<1>14. CASE SwitchStart
  <2>1. /\ BeginSession(target) /\ target' = <<>> /\ mishap' = mishap \ {"refused_switch"}
        /\ UNCHANGED <<pipelineCallback, asked>>
    BY <1>14 DEF SwitchStart
  <2>2. /\ session' \in 0..MaxSessions /\ config' = target
        /\ streamState' = "starting" /\ api' = "reset_stop" /\ index' \in Nat
    BY <1>1, <2>1 DEF BeginSession, CallTypes
  <2> QED BY <1>1, <2>1, <2>2 DEF CallTypes
<1>15. CASE SwitchThrows
  <2>1. /\ api' = "idle" /\ target' = <<>> /\ mishap' = mishap \cup {"refused_switch"}
        /\ UNCHANGED <<streamState, config, pipelineCallback, index, session, asked>>
    BY <1>15 DEF SwitchThrows
  <2> QED BY <1>1, <2>1 DEF CallTypes
<1>16. ASSUME NEW s \in Sensors, OnFrame(s) PROVE CallTypes'
  <2>1. /\ streamState' \in {streamState, "streaming"}
        /\ UNCHANGED <<config, target, pipelineCallback, api, index, session, asked, mishap>>
    BY <1>16 DEF OnFrame, callVars, historyVars
  <2> QED BY <1>1, <2>1 DEF CallTypes
<1>17. ASSUME NEW s \in Sensors,
              \/ Arrive(s) \/ FrameWaits(s) \/ FramesetCut(s) \/ RunCallback(s)
              \/ CheckFull(s) \/ DropOldest(s) \/ EnqueueFrameset(s)
       PROVE  UNCHANGED <<callTypes, histTypes>>
  BY <1>17 DEF Arrive, FrameWaits, FramesetCut, RunCallback, CheckFull, DropOldest,
     EnqueueFrameset, Leave, callVars, historyVars
<1>18. ASSUME StopSensor \/ WaitForFrame \/ UNCHANGED vars
       PROVE  UNCHANGED <<callTypes, histTypes>>
  BY <1>18 DEF StopSensor, WaitForFrame, vars, callVars, historyVars
<1> HIDE DEF callTypes, histTypes
<1> QED BY <1>2, <1>4, <1>5, <1>6, <1>7, <1>8, <1>9, <1>10, <1>11, <1>12, <1>13,
    <1>14, <1>15, <1>16, <1>17, <1>18 DEF Next, Call, Proceed, Deliver

LEMMA FrameTypesStep ==
  ASSUME TypeOK, StateByPlace, OfThisSession, [Next]_vars
  PROVE  FrameTypes'
<1> DEFINE frames == <<cached, made, born, received>>
<1>1. FrameTypes /\ MaxSessions \in Nat /\ MaxFramesets \in Nat
  BY TypeParts, TypeFacts
<1>2. CASE UNCHANGED frames
  BY <1>1, <1>2 DEF FrameTypes
<1>3. ASSUME cached' = {}, UNCHANGED <<made, born, received>> PROVE FrameTypes'
  BY <1>1, <1>3 DEF FrameTypes
<1>4. ASSUME \/ \E cb \in BOOLEAN : Start(cb)
             \/ StartWithoutConfig \/ SwitchStart \/ Flush
      PROVE  cached' = {} /\ UNCHANGED <<made, born, received>>
  BY <1>4 DEF Start, StartWithoutConfig, SwitchStart, Flush, BeginSession
<1>5. ASSUME \/ \E cb \in BOOLEAN : StartThrows(cb)
             \/ Stop \/ \E cfg \in Configs : SwitchConfig(cfg)
      PROVE  UNCHANGED frames
  BY <1>5 DEF StartThrows, Stop, SwitchConfig, historyVars
<1>6. ASSUME \/ ResetStop \/ ResetClear \/ ResetDone
             \/ StartSensor \/ StartSensorThrows \/ StartReturns
             \/ StopSensor \/ SensorStopped \/ StreamsStopped \/ SwitchThrows
      PROVE  UNCHANGED frames
  BY <1>6 DEF ResetStop, ResetClear, ResetDone, ResetMove, StartSensor, StartSensorThrows,
     StartReturns, StopSensor, SensorStopped, StreamsStopped, SwitchThrows, historyVars
<1>7. ASSUME NEW s \in Sensors,
             \/ Arrive(s) \/ FrameWaits(s) \/ CheckFull(s) \/ DropOldest(s) \/ EnqueueFrameset(s)
      PROVE  UNCHANGED frames
  BY <1>7 DEF Arrive, FrameWaits, CheckFull, DropOldest, EnqueueFrameset, Leave, historyVars
<1>8. ASSUME NEW s \in Sensors, OnFrame(s) PROVE FrameTypes'
  <2>1. /\ cached' = cached \/ (streamState # "stopped" /\ cached' = cached \cup {carried[s]})
        /\ UNCHANGED <<made, born, received>> /\ delivery[s] = "lock"
    BY <1>8 DEF OnFrame, historyVars
  <2>2. streamState # "stopped" => carried[s] = session /\ session > 0
    BY <2>1 DEF StateByPlace, OfThisSession
  <2>3. session \in 0..MaxSessions
    BY DEF TypeOK
  <2>4. streamState # "stopped" => carried[s] \in 1..MaxSessions
    BY <1>1, <2>2, <2>3
  <2> QED BY <1>1, <2>1, <2>4 DEF FrameTypes
<1>9. ASSUME NEW s \in Sensors, FramesetCut(s) PROVE FrameTypes'
  <2>1. PICK parts \in SUBSET cached :
          born' = [born EXCEPT ![made + 1] = parts] /\ cached' \in {cached, cached \ parts}
    BY <1>9 DEF FramesetCut
  <2>2. made < MaxFramesets /\ made' = made + 1 /\ received' = received
    BY <1>9 DEF FramesetCut
  <2>3. made' \in 0..MaxFramesets
    BY <1>1, <2>2 DEF FrameTypes
  <2>4. born' \in [1..MaxFramesets -> SUBSET (1..MaxSessions)]
    BY <1>1, <2>1 DEF FrameTypes
  <2>5. cached' \subseteq 1..MaxSessions
    BY <1>1, <2>1 DEF FrameTypes
  <2> QED BY <1>1, <2>2, <2>3, <2>4, <2>5 DEF FrameTypes
<1>10. ASSUME NEW s \in Sensors, RunCallback(s) PROVE FrameTypes'
  <2>1. received' = [frameset |-> made, via |-> "callback"] /\ UNCHANGED <<cached, made, born>>
    BY <1>10 DEF RunCallback, Leave, historyVars
  <2> QED BY <1>1, <2>1 DEF FrameTypes
<1>11. CASE WaitForFrame
  <2>1. /\ received' = [frameset |-> Head(queue), via |-> "wait"]
        /\ UNCHANGED <<cached, made, born>>
    BY <1>11 DEF WaitForFrame, historyVars
  <2>2. Head(queue) \in 1..made
    BY <1>11, FrontOfQueue DEF WaitForFrame, Dequeue, OfThisSession
  <2>3. Head(queue) \in 0..MaxFramesets
    BY <1>1, <2>2 DEF FrameTypes
  <2> QED BY <1>1, <2>1, <2>3 DEF FrameTypes
<1>12. CASE UNCHANGED vars
  BY <1>2, <1>12 DEF vars, historyVars
<1> HIDE DEF frames
<1> QED BY <1>2, <1>3, <1>4, <1>5, <1>6, <1>7, <1>8, <1>9, <1>10, <1>11, <1>12
    DEF Next, Call, Proceed, Deliver

LEMMA TypeStep ==
  ASSUME TypeOK, StateByPlace, OfThisSession, [Next]_vars
  PROVE  TypeOK'
BY TypeParts, QueueTypesStep, SensorTypesStep, CallTypesStep, FrameTypesStep

(* The streams are started from the first and stopped from the last, and a *)
(* sensor is off when its thread has left.                                 *)
LEMMA SensorsStep ==
  ASSUME TypeOK, SensorsByPlace, StateByPlace, [Next]_vars
  PROVE  SensorsByPlace'
<1>0. /\ config \in Seq(Sensors) /\ Len(config) \in Nat /\ index \in Nat
      /\ sensor \in [Sensors -> {"off", "on", "stopping"}]
      /\ delivery \in [Sensors -> {"idle", "lock"} \cup Inside]
  BY TypeFacts
<1> USE <1>0 DEF SensorsByPlace, SensorsMatchState, StateByPlace, Resetting,
     Running, Streams, queueVars, sensorVars, callVars, historyVars
<1>1. ASSUME NEW cb \in BOOLEAN, Start(cb) PROVE SensorsByPlace'
  BY <1>1 DEF Start, BeginSession
<1>2. ASSUME NEW cb \in BOOLEAN, StartThrows(cb) PROVE SensorsByPlace'
  BY <1>2 DEF StartThrows
<1>3. CASE StartWithoutConfig
  BY <1>3 DEF StartWithoutConfig, BeginSession
<1>4. CASE Stop
  <2>1. UNCHANGED <<config, sensor, delivery, streamState>>
    BY <1>4 DEF Stop
  <2>2. Running \subseteq Streams(Len(config))
    BY <1>4 DEF Stop
  <2> QED BY <1>4, <2>1, <2>2 DEF Stop
<1>5. ASSUME NEW cfg \in Configs, SwitchConfig(cfg) PROVE SensorsByPlace'
  <2>1. CASE streamState = "stopped"
    BY <1>5, <2>1 DEF SwitchConfig
  <2>2. CASE streamState # "stopped"
    <3>1. Running \subseteq Streams(Len(config))
      BY <1>5, <2>2 DEF SwitchConfig
    <3> QED BY <1>5, <2>2, <3>1 DEF SwitchConfig
  <2> QED BY <2>1, <2>2
<1>6. CASE ResetStop
  BY <1>6 DEF ResetStop, ResetMove, SignalStop
<1>7. CASE ResetClear
  BY <1>7 DEF ResetClear, ResetMove, Clear
<1>8. CASE ResetDone
  BY <1>8 DEF ResetDone, ResetMove, ResetFlags
<1>9. CASE StartSensor
  <2>1. /\ config \in Seq(Sensors)
        /\ Len(config) \in Nat
        /\ index \in 1..Len(config)
        /\ config' = config
    BY <1>9 DEF StartSensor
  <2>2. config[index] \in Sensors
    BY <2>1
  <2>3. 1..index = 1..(index - 1) \cup {index}
    BY <2>1
  <2>4. Streams(index) = Streams(index - 1) \cup {config[index]}
    BY <2>3
  <2>5. Running' = Running \cup {config[index]}
    BY <1>9, <2>2 DEF StartSensor
  <2>6. api' = "start" /\ index' \in 1..Len(config') + 1 /\ index' - 1 = index
    BY <1>9, <2>1 DEF StartSensor
  <2>7. Running' = {config'[i] : i \in 1..(index' - 1)}
    BY <1>9, <2>1, <2>4, <2>5, <2>6 DEF StartSensor
  <2> QED BY <1>9, <2>2, <2>6, <2>7 DEF StartSensor
<1>10. CASE StartSensorThrows
  BY <1>10 DEF StartSensorThrows
<1>11. CASE StartReturns
  <2>1. /\ config \in Seq(Sensors)
        /\ Len(config) \in Nat
        /\ index = Len(config) + 1
        /\ config' = config
    BY <1>11 DEF StartReturns
  <2>2. Running = {config[i] : i \in DOMAIN config}
    BY <1>11, <2>1 DEF StartReturns
  <2> QED BY <1>11, <2>1, <2>2 DEF StartReturns, Release
<1>12. CASE StopSensor
  BY <1>12 DEF StopSensor
<1>13. CASE SensorStopped
  <2>1. /\ config \in Seq(Sensors)
        /\ Len(config) \in Nat
        /\ index \in 1..Len(config)
        /\ config' = config
    BY <1>13 DEF SensorStopped
  <2>2. config[index] \in Sensors
    BY <2>1
  <2>3. 1..index = 1..(index - 1) \cup {index}
    BY <2>1
  <2>4. Streams(index) = Streams(index - 1) \cup {config[index]}
    BY <2>3
  <2>5. Running' = Running \ {config[index]}
    BY <1>13, <2>2 DEF SensorStopped
  <2>6. api' = "stop" /\ index' \in 0..Len(config') /\ index' = index - 1
    BY <1>13, <2>1 DEF SensorStopped
  <2>7. Running' \subseteq {config'[i] : i \in 1..index'}
    <3>1. Running \subseteq Streams(index)
      BY <1>13 DEF SensorStopped
    <3>2. Running' \subseteq Streams(index - 1)
      BY <2>4, <2>5, <3>1
    <3> QED BY <2>1, <2>6, <3>2
  <2> QED BY <1>13, <2>2, <2>6, <2>7 DEF SensorStopped
<1>14. CASE StreamsStopped
  BY <1>14 DEF StreamsStopped
<1>15. CASE Flush
  BY <1>15 DEF Flush, SignalFlush, Release
<1>16. CASE SwitchStart
  BY <1>16 DEF SwitchStart, BeginSession
<1>17. CASE SwitchThrows
  BY <1>17 DEF SwitchThrows
<1>18. ASSUME NEW s \in Sensors, Arrive(s) PROVE SensorsByPlace'
  BY <1>18 DEF Arrive
<1>19. ASSUME NEW s \in Sensors, OnFrame(s) PROVE SensorsByPlace'
  <2>1. sensor[s] # "off" /\ UNCHANGED <<sensor, config, api, index, mishap>>
    BY <1>19 DEF OnFrame
  <2>2. streamState # "stopped" /\ streamState' # "stopped"
    BY <1>19, <2>1 DEF OnFrame
  <2>3. \A t \in Sensors : t # s => delivery'[t] = delivery[t]
    BY <1>19 DEF OnFrame
  <2> QED BY <1>19, <2>1, <2>2, <2>3 DEF OnFrame
<1>20. ASSUME NEW s \in Sensors, FrameWaits(s) PROVE SensorsByPlace'
  BY <1>20 DEF FrameWaits, Leave
<1>21. ASSUME NEW s \in Sensors, FramesetCut(s) PROVE SensorsByPlace'
  BY <1>21 DEF FramesetCut
<1>22. ASSUME NEW s \in Sensors, RunCallback(s) PROVE SensorsByPlace'
  BY <1>22 DEF RunCallback, Leave
<1>23. ASSUME NEW s \in Sensors, CheckFull(s) PROVE SensorsByPlace'
  BY <1>23 DEF CheckFull
<1>24. ASSUME NEW s \in Sensors, DropOldest(s) PROVE SensorsByPlace'
  BY <1>24 DEF DropOldest, Dequeue
<1>25. ASSUME NEW s \in Sensors, EnqueueFrameset(s) PROVE SensorsByPlace'
  BY <1>25 DEF EnqueueFrameset, Enqueue, Accepts, Leave
<1>26. CASE WaitForFrame
  BY <1>26 DEF WaitForFrame, Dequeue
<1>27. CASE UNCHANGED vars
  BY <1>27 DEF vars
<1> QED BY <1>1, <1>2, <1>3, <1>4, <1>5, <1>6, <1>7, <1>8, <1>9, <1>10, <1>11,
     <1>12, <1>13, <1>14, <1>15, <1>16, <1>17, <1>18, <1>19, <1>20, <1>21,
     <1>22, <1>23, <1>24, <1>25, <1>26, <1>27 DEF Next, Call, Proceed, Deliver

(* The state of the pipeline.                                              *)
LEMMA StateStep ==
  ASSUME TypeOK, SensorsByPlace, StateByPlace, [Next]_vars
  PROVE  StateByPlace'
<1>0. Configs \subseteq Seq(Sensors) \ {<<>>} /\ session \in Nat
  BY PipelineAssumption, TypeFacts
<1> USE <1>0 DEF StateByPlace, SensorsByPlace, Resetting, Running, queueVars,
     sensorVars, callVars, historyVars
<1>1. ASSUME NEW cb \in BOOLEAN, Start(cb) PROVE StateByPlace'
  <2>1. session \in Nat /\ session' = session + 1 /\ session' > 0
    BY <1>1 DEF Start, BeginSession
  <2>2. config' \in Configs /\ config' # <<>>
    BY <1>1 DEF Start, BeginSession
  <2> QED BY <1>1, <2>1, <2>2 DEF Start, BeginSession
<1>2. ASSUME NEW cb \in BOOLEAN, StartThrows(cb) PROVE StateByPlace'
  BY <1>2 DEF StartThrows
<1>3. CASE StartWithoutConfig
  <2>1. session \in Nat /\ session' = session + 1 /\ session' > 0
    BY <1>3 DEF StartWithoutConfig, BeginSession
  <2>2. config' \in Configs /\ config' # <<>>
    BY <1>3 DEF StartWithoutConfig, BeginSession
  <2> QED BY <1>3, <2>1, <2>2 DEF StartWithoutConfig, BeginSession
<1>4. CASE Stop
  BY <1>4 DEF Stop
<1>5. ASSUME NEW cfg \in Configs, SwitchConfig(cfg) PROVE StateByPlace'
  BY <1>5 DEF SwitchConfig
<1>6. CASE ResetStop
  BY <1>6 DEF ResetStop, ResetMove, SignalStop
<1>7. CASE ResetClear
  BY <1>7 DEF ResetClear, ResetMove, Clear
<1>8. CASE ResetDone
  BY <1>8 DEF ResetDone, ResetMove, ResetFlags
<1>9. CASE StartSensor
  BY <1>9 DEF StartSensor
<1>10. CASE StartSensorThrows
  BY <1>10 DEF StartSensorThrows
<1>11. CASE StartReturns
  BY <1>11 DEF StartReturns, Release
<1>12. CASE StopSensor
  BY <1>12 DEF StopSensor
<1>13. CASE SensorStopped
  BY <1>13 DEF SensorStopped
<1>14. CASE StreamsStopped
  BY <1>14 DEF StreamsStopped
<1>15. CASE Flush
  BY <1>15 DEF Flush, SignalFlush, Release
<1>16. CASE SwitchStart
  <2>1. session' = session + 1 /\ session' > 0
    BY <1>16 DEF SwitchStart, BeginSession
  <2>2. config' = target /\ config' # <<>>
    BY <1>16 DEF SwitchStart, BeginSession
  <2> QED BY <1>16, <2>1, <2>2 DEF SwitchStart, BeginSession
<1>17. CASE SwitchThrows
  BY <1>17 DEF SwitchThrows
<1>18. ASSUME NEW s \in Sensors, Arrive(s) PROVE StateByPlace'
  BY <1>18 DEF Arrive
<1>19. ASSUME NEW s \in Sensors, OnFrame(s) PROVE StateByPlace'
  BY <1>19 DEF OnFrame
<1>20. ASSUME NEW s \in Sensors, FrameWaits(s) PROVE StateByPlace'
  BY <1>20 DEF FrameWaits, Leave
<1>21. ASSUME NEW s \in Sensors, FramesetCut(s) PROVE StateByPlace'
  BY <1>21 DEF FramesetCut
<1>22. ASSUME NEW s \in Sensors, RunCallback(s) PROVE StateByPlace'
  BY <1>22 DEF RunCallback, Leave
<1>23. ASSUME NEW s \in Sensors, CheckFull(s) PROVE StateByPlace'
  BY <1>23 DEF CheckFull
<1>24. ASSUME NEW s \in Sensors, DropOldest(s) PROVE StateByPlace'
  BY <1>24 DEF DropOldest, Dequeue
<1>25. ASSUME NEW s \in Sensors, EnqueueFrameset(s) PROVE StateByPlace'
  BY <1>25 DEF EnqueueFrameset, Enqueue, Accepts, Leave
<1>26. CASE WaitForFrame
  BY <1>26 DEF WaitForFrame, Dequeue
<1>27. CASE UNCHANGED vars
  BY <1>27 DEF vars
<1> QED BY <1>1, <1>2, <1>3, <1>4, <1>5, <1>6, <1>7, <1>8, <1>9, <1>10, <1>11,
     <1>12, <1>13, <1>14, <1>15, <1>16, <1>17, <1>18, <1>19, <1>20, <1>21,
     <1>22, <1>23, <1>24, <1>25, <1>26, <1>27 DEF Next, Call, Proceed, Deliver

(* A session begins with nothing on its way, and the reset empties the     *)
(* queue before a sensor runs.                                             *)
LEMMA SessionStep ==
  ASSUME TypeOK, SensorsByPlace, StateByPlace, OfThisSession, RoomForNewest, [Next]_vars
  PROVE  OfThisSession'
<1>0. /\ delivery \in [Sensors -> {"idle", "lock"} \cup Inside]
      /\ carried \in [Sensors -> 0..MaxSessions]
      /\ session \in Nat /\ made \in Nat /\ MaxFramesets \in Nat
      /\ born \in [1..MaxFramesets -> SUBSET (1..MaxSessions)]
  BY TypeFacts
<1> USE <1>0 DEF OfThisSession, Resetting, queueVars, sensorVars, callVars,
     historyVars
<1>1. ASSUME NEW cb \in BOOLEAN, Start(cb) PROVE OfThisSession'
  <2>1. \A s \in Sensors : delivery[s] = "idle" /\ delivery'[s] = "idle"
    BY <1>1, NobodyInside DEF Start
  <2>2. cached' = {} /\ UNCHANGED <<queue, made, born>> /\ api' = "reset_stop"
    BY <1>1 DEF Start, BeginSession
  <2> QED BY <1>1, <2>1, <2>2 DEF OfThisSession
<1>2. ASSUME NEW cb \in BOOLEAN, StartThrows(cb) PROVE OfThisSession'
  BY <1>2 DEF StartThrows
<1>3. CASE StartWithoutConfig
  <2>1. \A s \in Sensors : delivery[s] = "idle" /\ delivery'[s] = "idle"
    BY <1>3, NobodyInside DEF StartWithoutConfig
  <2>2. cached' = {} /\ UNCHANGED <<queue, made, born>> /\ api' = "reset_stop"
    BY <1>3 DEF StartWithoutConfig, BeginSession
  <2> QED BY <1>3, <2>1, <2>2 DEF OfThisSession
<1>4. CASE Stop
  BY <1>4 DEF Stop
<1>5. ASSUME NEW cfg \in Configs, SwitchConfig(cfg) PROVE OfThisSession'
  BY <1>5 DEF SwitchConfig
<1>6. CASE ResetStop
  BY <1>6 DEF ResetStop, ResetMove, SignalStop
<1>7. CASE ResetClear
  BY <1>7 DEF ResetClear, ResetMove, Clear
<1>8. CASE ResetDone
  BY <1>8 DEF ResetDone, ResetMove, ResetFlags
<1>9. CASE StartSensor
  BY <1>9 DEF StartSensor
<1>10. CASE StartSensorThrows
  BY <1>10 DEF StartSensorThrows
<1>11. CASE StartReturns
  BY <1>11 DEF StartReturns, Release
<1>12. CASE StopSensor
  BY <1>12 DEF StopSensor
<1>13. CASE SensorStopped
  BY <1>13 DEF SensorStopped
<1>14. CASE StreamsStopped
  BY <1>14 DEF StreamsStopped
<1>15. CASE Flush
  BY <1>15 DEF Flush, SignalFlush, Release
<1>16. CASE SwitchStart
  <2>1. \A s \in Sensors : delivery[s] = "idle" /\ delivery'[s] = "idle"
    BY <1>16, NobodyInside DEF SwitchStart
  <2>2. cached' = {} /\ UNCHANGED <<queue, made, born>> /\ api' = "reset_stop"
    BY <1>16 DEF SwitchStart, BeginSession
  <2> QED BY <1>16, <2>1, <2>2 DEF OfThisSession
<1>17. CASE SwitchThrows
  BY <1>17 DEF SwitchThrows
<1>18. ASSUME NEW s \in Sensors, Arrive(s) PROVE OfThisSession'
  <2>1. carried'[s] = session
    BY <1>18 DEF Arrive
  <2>2. \A t \in Sensors : t # s => carried'[t] = carried[t] /\ delivery'[t] = delivery[t]
    BY <1>18 DEF Arrive
  <2>3. delivery'[s] = "lock" /\ UNCHANGED <<session, cached, queue, made, api, born>>
    BY <1>18 DEF Arrive
  <2> QED BY <1>18, <2>1, <2>2, <2>3 DEF Arrive
<1>19. ASSUME NEW s \in Sensors, OnFrame(s) PROVE OfThisSession'
  <2>1. /\ delivery'[s] \in {"idle", "push"}
        /\ \A t \in Sensors : t # s => delivery'[t] = delivery[t]
    BY <1>19 DEF OnFrame
  <2>2. /\ carried[s] = session
        /\ UNCHANGED <<carried, session, queue, made, api, born>>
    BY <1>19 DEF OnFrame
  <2>3. cached' \subseteq {session}
    BY <1>19 DEF OnFrame
  <2> QED BY <1>19, <2>1, <2>2, <2>3 DEF OnFrame
<1>20. ASSUME NEW s \in Sensors, FrameWaits(s) PROVE OfThisSession'
  BY <1>20 DEF FrameWaits, Leave
<1>21. ASSUME NEW s \in Sensors, FramesetCut(s) PROVE OfThisSession'
  <2>1. /\ made + 1 \in 1..MaxFramesets /\ made' = made + 1
        /\ UNCHANGED <<session, queue, api, carried>>
    BY <1>21 DEF FramesetCut
  <2>2. /\ born'[made + 1] \subseteq {session} /\ cached' \subseteq {session}
        /\ \A f \in 1..made : born'[f] = born[f]
    <3>1. PICK parts \in SUBSET cached \ {{}} :
            /\ born' = [born EXCEPT ![made + 1] = parts]
            /\ cached' \in {cached, cached \ parts}
      BY <1>21 DEF FramesetCut
    <3>2. parts \subseteq {session} /\ cached' \subseteq {session}
      BY <3>1
    <3>3. born'[made + 1] = parts
      BY <2>1, <3>1
    <3>4. \A f \in 1..made : f \in 1..MaxFramesets /\ f # made + 1
      BY <2>1
    <3>5. \A f \in 1..made : born'[f] = born[f]
      BY <3>1, <3>4
    <3> QED BY <3>2, <3>3, <3>5
  <2>3. \A t \in Sensors \ {s} : delivery[t] \in {"idle", "lock"}
    BY <1>21, OwnerAlone DEF FramesetCut, Inside
  <2>4. \A t \in Sensors : t # s => delivery[t] \in {"idle", "lock"} /\ delivery'[t] = delivery[t]
    BY <1>21, <2>3 DEF FramesetCut
  <2>5. queue' \in Seq(1..made') /\ queue \in Seq(1..made)
    BY <2>1
  <2>6. \A i \in DOMAIN queue : queue[i] \in 1..made
    BY <2>5
  <2>7. delivery[s] # "idle"
    BY <1>21 DEF FramesetCut
  <2>8. api' \notin {"reset_stop", "reset_clear"} =>
          \A i \in DOMAIN queue' : born'[queue'[i]] \subseteq {session'}
    BY <2>1, <2>2, <2>6
  <2>9. \A t \in Sensors : delivery'[t] # "idle" => carried'[t] = session'
    BY <2>1, <2>4, <2>7
  <2> QED BY <2>1, <2>2, <2>4, <2>5, <2>8, <2>9
<1>22. ASSUME NEW s \in Sensors, RunCallback(s) PROVE OfThisSession'
  BY <1>22 DEF RunCallback, Leave
<1>23. ASSUME NEW s \in Sensors, CheckFull(s) PROVE OfThisSession'
  BY <1>23 DEF CheckFull
<1>24. ASSUME NEW s \in Sensors, DropOldest(s) PROVE OfThisSession'
  <2>1. CASE queue = <<>>
    BY <1>24, <2>1 DEF DropOldest
  <2>2. CASE queue # <<>>
    <3>1. /\ Tail(queue) \in Seq(1..made)
          /\ \A i \in DOMAIN Tail(queue) : i + 1 \in DOMAIN queue /\ Tail(queue)[i] = queue[i + 1]
      BY <2>2, FrontOfQueue
    <3>2. queue' = Tail(queue)
      BY <1>24, <2>2 DEF DropOldest, Dequeue
    <3> QED BY <1>24, <3>1, <3>2 DEF DropOldest
  <2> QED BY <2>1, <2>2
<1>25. ASSUME NEW s \in Sensors, EnqueueFrameset(s) PROVE OfThisSession'
  <2>1. /\ made > 0 /\ born[made] \subseteq {session}
        /\ UNCHANGED <<session, cached, carried, made, born, api>>
    BY <1>25 DEF EnqueueFrameset, Enqueue, Leave
  <2>2. \A t \in Sensors : delivery'[t] \in {"idle", delivery[t]}
    BY <1>25 DEF EnqueueFrameset, Leave
  <2>3. queue' = queue \/ queue' = Append(queue, made)
    BY <1>25 DEF EnqueueFrameset, Enqueue
  <2>4. queue \in Seq(1..made) /\ made \in 1..made
    BY <2>1
  <2>5. queue' \in Seq(1..made)
    <3>1. CASE queue' = queue
      BY <2>4, <3>1
    <3>2. CASE queue' = Append(queue, made)
      BY <2>4, <3>2, AppendProperties
    <3> QED BY <2>3, <3>1, <3>2
  <2>6. \A i \in DOMAIN queue' : (i \in DOMAIN queue /\ queue'[i] = queue[i]) \/ queue'[i] = made
    <3>1. CASE queue' = queue
      BY <3>1
    <3>2. CASE queue' = Append(queue, made)
      BY <2>4, <3>2, AppendProperties
    <3> QED BY <2>3, <3>1, <3>2
  <2>7. api' \notin {"reset_stop", "reset_clear"} =>
          \A i \in DOMAIN queue' : born'[queue'[i]] \subseteq {session'}
    BY <2>1, <2>6
  <2> QED BY <2>1, <2>2, <2>5, <2>7
<1>26. CASE WaitForFrame
  <2>1. queue # <<>> /\ queue' = Tail(queue)
    BY <1>26 DEF WaitForFrame, Dequeue
  <2>2. UNCHANGED <<api, session, delivery, carried, cached, made, born>>
    BY <1>26 DEF WaitForFrame
  <2>3. /\ Tail(queue) \in Seq(1..made)
        /\ \A i \in DOMAIN Tail(queue) : i + 1 \in DOMAIN queue /\ Tail(queue)[i] = queue[i + 1]
    BY <2>1, FrontOfQueue
  <2> QED BY <2>1, <2>2, <2>3
<1>27. CASE UNCHANGED vars
  BY <1>27 DEF vars
<1> QED BY <1>1, <1>2, <1>3, <1>4, <1>5, <1>6, <1>7, <1>8, <1>9, <1>10, <1>11,
     <1>12, <1>13, <1>14, <1>15, <1>16, <1>17, <1>18, <1>19, <1>20, <1>21,
     <1>22, <1>23, <1>24, <1>25, <1>26, <1>27 DEF Next, Call, Proceed, Deliver

(* Dropping the oldest makes room, and stopping does not flush before the  *)
(* last sensor is off.                                                     *)
LEMMA RoomStep ==
  ASSUME TypeOK, SensorsByPlace, StateByPlace, OfThisSession, RoomForNewest, [Next]_vars
  PROVE  RoomForNewest'
<1>0. /\ delivery \in [Sensors -> {"idle", "lock"} \cup Inside]
      /\ Capacity \in Nat \ {0}
  BY TypeFacts, CapacityAssumption
<1> USE <1>0 DEF RoomForNewest, Resetting, queueVars, sensorVars, callVars,
     historyVars
<1>1. ASSUME NEW cb \in BOOLEAN, Start(cb) PROVE RoomForNewest'
  BY <1>1 DEF Start, BeginSession
<1>2. ASSUME NEW cb \in BOOLEAN, StartThrows(cb) PROVE RoomForNewest'
  BY <1>2 DEF StartThrows
<1>3. CASE StartWithoutConfig
  BY <1>3 DEF StartWithoutConfig, BeginSession
<1>4. CASE Stop
  BY <1>4 DEF Stop
<1>5. ASSUME NEW cfg \in Configs, SwitchConfig(cfg) PROVE RoomForNewest'
  BY <1>5 DEF SwitchConfig
<1>6. CASE ResetStop
  BY <1>6 DEF ResetStop, ResetMove, SignalStop
<1>7. CASE ResetClear
  BY <1>7 DEF ResetClear, ResetMove, Clear
<1>8. CASE ResetDone
  BY <1>8 DEF ResetDone, ResetMove, ResetFlags
<1>9. CASE StartSensor
  BY <1>9 DEF StartSensor
<1>10. CASE StartSensorThrows
  BY <1>10 DEF StartSensorThrows
<1>11. CASE StartReturns
  BY <1>11 DEF StartReturns, Release
<1>12. CASE StopSensor
  BY <1>12 DEF StopSensor
<1>13. CASE SensorStopped
  BY <1>13 DEF SensorStopped
<1>14. CASE StreamsStopped
  BY <1>14 DEF StreamsStopped
<1>15. CASE Flush
  BY <1>15 DEF Flush, SignalFlush, Release
<1>16. CASE SwitchStart
  BY <1>16 DEF SwitchStart, BeginSession
<1>17. CASE SwitchThrows
  BY <1>17 DEF SwitchThrows
<1>18. ASSUME NEW s \in Sensors, Arrive(s) PROVE RoomForNewest'
  BY <1>18 DEF Arrive
<1>19. ASSUME NEW s \in Sensors, OnFrame(s) PROVE RoomForNewest'
  <2>1. \A t \in Sensors : delivery'[t] = "enqueue" => delivery[t] = "enqueue"
    BY <1>19 DEF OnFrame
  <2>2. UNCHANGED <<queue, flushing, api>> /\ (streamState = "stopped" => streamState' = "stopped")
    BY <1>19 DEF OnFrame
  <2> QED BY <1>19, <2>1, <2>2 DEF RoomForNewest
<1>20. ASSUME NEW s \in Sensors, FrameWaits(s) PROVE RoomForNewest'
  BY <1>20 DEF FrameWaits, Leave
<1>21. ASSUME NEW s \in Sensors, FramesetCut(s) PROVE RoomForNewest'
  BY <1>21 DEF FramesetCut
<1>22. ASSUME NEW s \in Sensors, RunCallback(s) PROVE RoomForNewest'
  BY <1>22 DEF RunCallback, Leave
<1>23. ASSUME NEW s \in Sensors, CheckFull(s) PROVE RoomForNewest'
  BY <1>23 DEF CheckFull
<1>24. ASSUME NEW s \in Sensors, DropOldest(s) PROVE RoomForNewest'
  BY <1>24 DEF DropOldest, Dequeue
<1>25. ASSUME NEW s \in Sensors, EnqueueFrameset(s) PROVE RoomForNewest'
  <2>1. /\ queue' = IF Len(queue) < Capacity /\ ~flushing THEN Append(queue, made) ELSE queue
        /\ UNCHANGED <<flushing, api, streamState>>
    BY <1>25 DEF EnqueueFrameset, Enqueue, Accepts, Leave
  <2>2. \A t \in Sensors \ {s} : delivery[t] \in {"idle", "lock"}
    BY <1>25, OwnerAlone DEF EnqueueFrameset, Inside
  <2>3. \A t \in Sensors : delivery'[t] # "enqueue"
    BY <1>25, <2>2 DEF EnqueueFrameset, Leave
  <2>4. queue \in Seq(1..made) /\ made \in Nat
    BY DEF TypeOK, OfThisSession
  <2>5. Len(queue') <= Capacity
    BY <2>1, <2>4, AppendProperties
  <2> QED BY <2>1, <2>3, <2>5
<1>26. CASE WaitForFrame
  BY <1>26 DEF WaitForFrame, Dequeue
<1>27. CASE UNCHANGED vars
  BY <1>27 DEF vars
<1> QED BY <1>1, <1>2, <1>3, <1>4, <1>5, <1>6, <1>7, <1>8, <1>9, <1>10, <1>11,
     <1>12, <1>13, <1>14, <1>15, <1>16, <1>17, <1>18, <1>19, <1>20, <1>21,
     <1>22, <1>23, <1>24, <1>25, <1>26, <1>27 DEF Next, Call, Proceed, Deliver

(* The callback is set and cleared while no thread is inside.              *)
LEMMA SinkStep ==
  ASSUME TypeOK, SensorsByPlace, StateByPlace, OfThisSession, Sink, [Next]_vars
  PROVE  Sink'
<1>0. delivery \in [Sensors -> {"idle", "lock"} \cup Inside]
  BY TypeFacts
<1> USE <1>0 DEF Sink, Resetting, queueVars, sensorVars, callVars, historyVars
<1>1. ASSUME NEW cb \in BOOLEAN, Start(cb) PROVE Sink'
  <2>1. \A s \in Sensors : delivery[s] = "idle" /\ delivery'[s] = "idle"
    BY <1>1, NobodyInside DEF Start
  <2>2. /\ streamState = "stopped"
        /\ streamState' = "starting"
        /\ api' = "reset_stop"
        /\ UNCHANGED <<queue, mishap>>
    BY <1>1 DEF Start, BeginSession
  <2>3. /\ ("refused_start" \notin mishap => pipelineCallback = FALSE)
        /\ asked' = cb
        /\ pipelineCallback' = (pipelineCallback \/ cb)
    BY <1>1 DEF Start, BeginSession
  <2>4. "refused_start" \notin mishap => pipelineCallback' = asked'
    BY <2>3
  <2> QED BY <2>1, <2>2, <2>3, <2>4 DEF Start, BeginSession
<1>2. ASSUME NEW cb \in BOOLEAN, StartThrows(cb) PROVE Sink'
  <2>1. \A s \in Sensors : delivery[s] = "idle" /\ delivery'[s] = "idle"
    BY <1>2, NobodyInside DEF StartThrows
  <2>2. /\ streamState' = "stopped"
        /\ UNCHANGED <<queue, streamState>>
        /\ pipelineCallback' = (pipelineCallback \/ cb)
    BY <1>2 DEF StartThrows
  <2>3. "refused_start" \notin mishap' => ("refused_start" \notin mishap /\ cb = FALSE)
    BY <1>2 DEF StartThrows
  <2>4. streamState = "stopped"
    BY <1>2 DEF StartThrows
  <2>5. "refused_start" \notin mishap' => pipelineCallback = FALSE
    BY <2>3, <2>4
  <2>6. "refused_start" \notin mishap' => pipelineCallback' = FALSE
    BY <2>2, <2>3, <2>5
  <2> QED BY <2>1, <2>2, <2>6
<1>3. CASE StartWithoutConfig
  BY <1>3 DEF StartWithoutConfig, BeginSession
<1>4. CASE Stop
  BY <1>4 DEF Stop
<1>5. ASSUME NEW cfg \in Configs, SwitchConfig(cfg) PROVE Sink'
  BY <1>5 DEF SwitchConfig
<1>6. CASE ResetStop
  BY <1>6 DEF ResetStop, ResetMove, SignalStop
<1>7. CASE ResetClear
  BY <1>7 DEF ResetClear, ResetMove, Clear
<1>8. CASE ResetDone
  BY <1>8 DEF ResetDone, ResetMove, ResetFlags
<1>9. CASE StartSensor
  BY <1>9 DEF StartSensor
<1>10. CASE StartSensorThrows
  BY <1>10 DEF StartSensorThrows
<1>11. CASE StartReturns
  BY <1>11 DEF StartReturns, Release
<1>12. CASE StopSensor
  BY <1>12 DEF StopSensor
<1>13. CASE SensorStopped
  BY <1>13 DEF SensorStopped
<1>14. CASE StreamsStopped
  BY <1>14 DEF StreamsStopped
<1>15. CASE Flush
  <2>1. \A s \in Sensors : delivery[s] = "idle" /\ delivery'[s] = "idle"
    BY <1>15, NobodyInside DEF Flush
  <2>2. pipelineCallback' = FALSE /\ streamState' = "stopped" /\ mishap' = {}
    BY <1>15 DEF Flush, SignalFlush, Release
  <2> QED BY <2>1, <2>2 DEF Flush, SignalFlush, Release
<1>16. CASE SwitchStart
  <2>1. \A s \in Sensors : delivery[s] = "idle" /\ delivery'[s] = "idle"
    BY <1>16, NobodyInside DEF SwitchStart
  <2>2. streamState # "stopped"
    BY <1>16 DEF SwitchStart, StateByPlace
  <2>3. /\ UNCHANGED <<pipelineCallback, asked, queue>>
        /\ mishap' = mishap \ {"refused_switch"}
        /\ api' = "reset_stop"
        /\ streamState' = "starting"
    BY <1>16 DEF SwitchStart, BeginSession
  <2>4. mishap \cap {"refused_start", "null_config"} = mishap' \cap {"refused_start", "null_config"}
    BY <2>3
  <2> QED BY <2>1, <2>2, <2>3, <2>4 DEF SwitchStart, BeginSession
<1>17. CASE SwitchThrows
  BY <1>17 DEF SwitchThrows
<1>18. ASSUME NEW s \in Sensors, Arrive(s) PROVE Sink'
  BY <1>18 DEF Arrive
<1>19. ASSUME NEW s \in Sensors, OnFrame(s) PROVE Sink'
  <2>1. \A t \in Sensors : delivery'[t] \in {delivery[t], "idle", "push"}
    BY <1>19 DEF OnFrame, TypeOK
  <2>2. streamState # "stopped"
    BY <1>19 DEF OnFrame, TypeOK, SensorsByPlace, StateByPlace, Running
  <2>3. UNCHANGED <<pipelineCallback, asked, queue>>
    BY <1>19 DEF OnFrame
  <2>4. UNCHANGED <<mishap, api>>
    BY <1>19 DEF OnFrame
  <2>5. streamState' # "stopped"
    BY <1>19, <2>2 DEF OnFrame
  <2> QED BY <2>1, <2>2, <2>3, <2>4, <2>5
<1>20. ASSUME NEW s \in Sensors, FrameWaits(s) PROVE Sink'
  BY <1>20 DEF FrameWaits, Leave
<1>21. ASSUME NEW s \in Sensors, FramesetCut(s) PROVE Sink'
  BY <1>21 DEF FramesetCut
<1>22. ASSUME NEW s \in Sensors, RunCallback(s) PROVE Sink'
  BY <1>22 DEF RunCallback, Leave
<1>23. ASSUME NEW s \in Sensors, CheckFull(s) PROVE Sink'
  BY <1>23 DEF CheckFull
<1>24. ASSUME NEW s \in Sensors, DropOldest(s) PROVE Sink'
  BY <1>24 DEF DropOldest, Dequeue
<1>25. ASSUME NEW s \in Sensors, EnqueueFrameset(s) PROVE Sink'
  BY <1>25 DEF EnqueueFrameset, Enqueue, Accepts, Leave
<1>26. CASE WaitForFrame
  BY <1>26 DEF WaitForFrame, Dequeue
<1>27. CASE UNCHANGED vars
  BY <1>27 DEF vars
<1> QED BY <1>1, <1>2, <1>3, <1>4, <1>5, <1>6, <1>7, <1>8, <1>9, <1>10, <1>11,
     <1>12, <1>13, <1>14, <1>15, <1>16, <1>17, <1>18, <1>19, <1>20, <1>21,
     <1>22, <1>23, <1>24, <1>25, <1>26, <1>27 DEF Next, Call, Proceed, Deliver

-----------------------------------------------------------------------------
LEMMA InitInv ==
  ASSUME Init
  PROVE  PipelineInv
<1> USE DEF Init, QueueInit
<1>1. TypeOK
  <2>1. <<>> \in Seq(Nat)
    BY EmptySeq
  <2>2. QueueTypeOK /\ OwnerIsInside
    BY <2>1, PipelineAssumption DEF QueueTypeOK, ThreadState, OwnerIsInside, Inside
  <2>3. /\ MaxSessions \in Nat /\ MaxFramesets \in Nat
        /\ born \in [1..MaxFramesets -> SUBSET (1..MaxSessions)]
        /\ received \in [frameset : 0..MaxFramesets, via : {"none", "callback", "wait"}]
    BY PipelineAssumption DEF NoFrameset
  <2>4. /\ sensor \in [Sensors -> {"off", "on", "stopping"}]
        /\ delivery \in [Sensors -> {"idle", "lock"} \cup Inside]
        /\ carried \in [Sensors -> 0..MaxSessions]
        /\ session \in 0..MaxSessions /\ made \in 0..MaxFramesets
    BY <2>3
  <2> QED BY <2>2, <2>3, <2>4 DEF TypeOK
<1>2. SensorsByPlace
  BY DEF SensorsByPlace, SensorsMatchState, Resetting, Running
<1>3. StateByPlace
  BY DEF StateByPlace, Resetting, Running
<1>4. OfThisSession
  <2>1. queue \in Seq(1..made) /\ DOMAIN queue = {}
    BY EmptySeq
  <2> QED BY <2>1 DEF OfThisSession
<1>5. RoomForNewest
  <2>1. Len(queue) = 0 /\ Capacity \in Nat
    BY EmptySeq, CapacityAssumption
  <2> QED BY <2>1 DEF RoomForNewest
<1>6. Sink
  BY DEF Sink
<1> QED BY <1>1, <1>2, <1>3, <1>4, <1>5, <1>6 DEF PipelineInv

(* Whatever the application, the sensors' threads and the consumer do, the *)
(* pipeline stays within its invariant.                                    *)
THEOREM PipelineInvHolds == Spec => []PipelineInv
<1>1. Init => PipelineInv
  BY InitInv
<1>2. PipelineInv /\ [Next]_vars => PipelineInv'
  BY TypeStep, SensorsStep, StateStep, SessionStep, RoomStep, SinkStep DEF PipelineInv
<1> QED BY <1>1, <1>2, PTL DEF Spec

(* Types, and streamMutex_ is held by the thread inside onFrameCallback.   *)
THEOREM TypeCorrect == Spec => []TypeOK
<1>1. PipelineInv => TypeOK
  BY DEF PipelineInv
<1> QED BY <1>1, PipelineInvHolds, PTL

(* Pipeline::start and switchConfig leave no frame and no frameset of the  *)
(* session before in the aggregator, on a thread or in the output queue.   *)
THEOREM RestartIsCleanHolds == Spec => []RestartIsClean
<1>1. PipelineInv => RestartIsClean
  BY DEF PipelineInv, RestartIsClean, StateByPlace, OfThisSession, Resetting
<1> QED BY <1>1, PipelineInvHolds, PTL

(* Nobody fills the room before enqueue(), and nobody clears the callback. *)
LEMMA ChecksFollow == PipelineInv => ChecksHold
<1> SUFFICES ASSUME PipelineInv, NEW s \in Sensors
             PROVE  /\ delivery[s] = "enqueue" => Accepts
                    /\ delivery[s] = "callback" => pipelineCallback
  BY DEF ChecksHold
<1>1. ASSUME delivery[s] = "enqueue" PROVE Accepts
  <2>1. sensor[s] # "off"
    BY <1>1 DEF PipelineInv, SensorsByPlace
  <2>2. streamState # "stopped" /\ api \notin Resetting
    BY <2>1 DEF PipelineInv, SensorsByPlace, StateByPlace, Running
  <2> QED BY <1>1, <2>2 DEF PipelineInv, RoomForNewest, Accepts
<1> QED BY <1>1 DEF PipelineInv, Sink

(* outputFrame: after fulled() and dequeue() the enqueue() is not refused, *)
(* and pipelineCallback_ is still set when it is called.                   *)
THEOREM ChecksHoldHolds == Spec => []ChecksHold
BY ChecksFollow, PipelineInvHolds, PTL

(* Between calls exactly the sensors run that streamState_ and config_     *)
(* speak of, a refused switchConfig excepted.                              *)
THEOREM SensorsMatchStateHolds == Spec => []SensorsMatchState
<1>1. PipelineInv => SensorsMatchState
  BY DEF PipelineInv, SensorsByPlace
<1> QED BY <1>1, PipelineInvHolds, PTL

-----------------------------------------------------------------------------
(* The two steps that hand a frameset to the application.                  *)
LEMMA SinkOfStep ==
  ASSUME PipelineInv, [Next]_vars, received' # received, streamState = "streaming",
         mishap \cap {"refused_start", "null_config"} = {}
  PROVE  received'.via = IF asked THEN "callback" ELSE "wait"
<1>1. pipelineCallback = asked
  BY DEF PipelineInv, Sink
<1>2. ASSUME NEW s \in Sensors, RunCallback(s)
      PROVE  received'.via = IF asked THEN "callback" ELSE "wait"
  BY <1>1, <1>2 DEF RunCallback, PipelineInv, Sink
<1>3. CASE WaitForFrame
  <2>1. ~pipelineCallback
    BY <1>3 DEF WaitForFrame, Dequeue, PipelineInv, Sink, StateByPlace, Resetting
  <2> QED BY <1>1, <1>3, <2>1 DEF WaitForFrame
<1>4. WaitForFrame \/ \E s \in Sensors : RunCallback(s)
  BY DEF Next, Call, Proceed, Deliver, Start, BeginSession, StartThrows,
       StartWithoutConfig, Stop, SwitchConfig, ResetStop, ResetClear,
       ResetDone, ResetMove, StartSensor, StartSensorThrows, StartReturns,
       StopSensor, SensorStopped, StreamsStopped, Flush, SwitchStart,
       SwitchThrows, Arrive, OnFrame, FrameWaits, FramesetCut, CheckFull,
       DropOldest, EnqueueFrameset, Leave, vars
<1> QED BY <1>2, <1>3, <1>4

(* Framesets reach the application the way its last start asked for, for   *)
(* every session that was not preceded by a refused start.                 *)
THEOREM SinkAsAskedHolds == Spec => SinkAsAsked
<1>1. PipelineInv /\ [Next]_vars =>
        [ (received' # received /\ streamState = "streaming"
             /\ mishap \cap {"refused_start", "null_config"} = {})
            => received'.via = IF asked THEN "callback" ELSE "wait" ]_vars
  BY SinkOfStep
<1> QED BY <1>1, PipelineInvHolds, PTL DEF Spec, SinkAsAsked
-----------------------------------------------------------------------------
(* The framesets that wait are the last ones cut.  They are of a session   *)
(* that streams: the reset leaves none, and a thread holds one only while  *)
(* the pipeline streams.  One that is about to drop the oldest has found   *)
(* the queue full, and if it is not any more, the consumer got the one     *)
(* before.                                                                 *)
Numbered ==
  /\ \A i \in DOMAIN queue : queue[i] = made - Waiting + i
  /\ \A s \in Sensors : delivery[s] \in Inside => streamState = "streaming"
  /\ streamState = "starting" /\ api \notin {"reset_stop", "reset_clear"} => queue = <<>>
  /\ \A s \in Sensors : delivery[s] = "drop" =>
       Len(queue) >= Capacity \/ received.frameset = made - Waiting

(* What a step keeps and what it shows of the promise.                     *)
Kept == Numbered' /\ [Stream!Next]_(Stream!streamVars)

LEMMA WaitingFacts ==
  ASSUME TypeOK
  PROVE  /\ made \in Nat /\ Len(queue) \in Nat /\ InHand \in {0, 1} /\ Capacity \in Nat
         /\ Waiting = Len(queue) + InHand
         /\ queue \in Seq(Nat) /\ DOMAIN queue = 1..Len(queue)
         /\ received \in [frameset : 0..MaxFramesets, via : {"none", "callback", "wait"}]
<1>1. queue \in Seq(Nat)
  BY DEF TypeOK, QueueTypeOK
<1>2. Len(queue) \in Nat /\ DOMAIN queue = 1..Len(queue)
  BY <1>1, LenProperties
<1> QED BY <1>1, <1>2, TypeFacts, CapacityAssumption DEF TypeOK, InHand, Waiting

(* A thread that goes on in onFrameCallback is the only one there.         *)
LEMMA HandMoves ==
  ASSUME TypeOK, NEW s \in Sensors, NEW to, delivery[s] \in Inside,
         delivery' = [delivery EXCEPT ![s] = to]
  PROVE  /\ delivery'[s] = to
         /\ \A t \in Sensors \ {s} : delivery'[t] = delivery[t] /\ delivery[t] \in {"idle", "lock"}
         /\ InHand = IF delivery[s] \in Hands THEN 1 ELSE 0
         /\ InHand' = IF to \in Hands THEN 1 ELSE 0
<1>1. delivery \in [Sensors -> {"idle", "lock"} \cup Inside]
  BY TypeFacts
<1>2. /\ delivery'[s] = to
      /\ \A t \in Sensors \ {s} : delivery'[t] = delivery[t] /\ delivery[t] \in {"idle", "lock"}
  BY <1>1, OwnerAlone
<1>3. \A t \in Sensors \ {s} : delivery'[t] \notin Hands /\ delivery[t] \notin Hands
  BY <1>2 DEF Hands
<1> QED BY <1>2, <1>3 DEF InHand

(* A step that leaves the framesets alone: within a phase, ...             *)
Outside == {"idle", "lock", "push"}

Quiet ==
  /\ UNCHANGED <<queue, made, received>>
  /\ \A s \in Sensors : delivery'[s] = delivery[s] \/ {delivery[s], delivery'[s]} \subseteq Outside

InPhase ==
  /\ streamState' = streamState
  /\ \A s \in Sensors : delivery'[s] \in Inside => delivery[s] \in Inside
  /\ api \in {"reset_stop", "reset_clear"} => api' \in {"reset_stop", "reset_clear"}

(* ... at the beginning and at the end of a session, ...                   *)
NewPhase ==
  /\ streamState' \in {"starting", "stopped"}
  /\ \A s \in Sensors : delivery'[s] = "idle"
  /\ streamState' = "starting" => api' = "reset_stop"

(* ... and with a frame of it.                                             *)
Streaming ==
  /\ streamState # "stopped" /\ streamState' = "streaming"
  /\ api \notin {"reset_stop", "reset_clear"} /\ api' = api

LEMMA QuietKeeps ==
  ASSUME TypeOK, Numbered, Quiet, InPhase \/ NewPhase \/ Streaming
  PROVE  Kept
<1>1. \A s \in Sensors : delivery'[s] \in Hands <=> delivery[s] \in Hands
  BY DEF Quiet, Outside, Hands
<1>2. InHand' = InHand
  BY <1>1 DEF InHand
<1>3. Waiting' = Waiting /\ UNCHANGED <<queue, made, received>>
  BY <1>2 DEF Waiting, Quiet
<1>4. streamState \in {"stopped", "starting", "streaming"}
  BY DEF TypeOK
<1>5. Numbered'
  <2>1. \A i \in DOMAIN queue' : queue'[i] = made' - Waiting' + i
    BY <1>3 DEF Numbered
  <2>2. \A s \in Sensors : delivery'[s] \in Inside => streamState' = "streaming"
    BY DEF Numbered, InPhase, NewPhase, Streaming, Inside
  <2>3. streamState' = "starting" /\ api' \notin {"reset_stop", "reset_clear"} => queue' = <<>>
    BY <1>3 DEF Numbered, InPhase, NewPhase, Streaming
  <2>4. \A s \in Sensors : delivery'[s] = "drop" =>
          Len(queue') >= Capacity \/ received'.frameset = made' - Waiting'
    BY <1>3 DEF Numbered, Quiet, Outside
  <2> QED BY <2>1, <2>2, <2>3, <2>4 DEF Numbered
<1>6. [Stream!Next]_(Stream!streamVars)
  <2>1. UNCHANGED <<made, made + 1 - Waiting, received.frameset>>
    BY <1>3
  <2>2. CASE streamState' = streamState
    BY <2>1, <2>2 DEF Stream!streamVars
  <2>3. CASE streamState' = "starting"
    BY <2>1, <2>3 DEF Stream!Next, Stream!Begin
  <2>4. CASE streamState' = "stopped"
    BY <2>1, <2>4 DEF Stream!Next, Stream!End
  <2>5. CASE streamState' = "streaming" /\ streamState = "starting"
    <3>1. queue = <<>> /\ \A s \in Sensors : delivery[s] \notin Hands
      BY <2>5 DEF Numbered, InPhase, NewPhase, Streaming, Hands, Inside
    <3>2. Waiting = 0
      BY <3>1 DEF Waiting, InHand
    <3>3. made + 1 - Waiting = made + 1
      BY <3>2, WaitingFacts
    <3> QED BY <2>1, <2>5, <3>3 DEF Stream!Next, Stream!FirstFrame
  <2> QED BY <1>4, <2>2, <2>3, <2>4, <2>5 DEF InPhase, NewPhase, Streaming
<1> QED BY <1>5, <1>6 DEF Kept

LEMMA ClearKeeps ==
  ASSUME PipelineInv, Numbered, ResetClear
  PROVE  Kept
<1>1. /\ api = "reset_clear" /\ api' = "reset_flags" /\ queue' = <<>>
      /\ UNCHANGED <<made, received, delivery, streamState>>
  BY DEF ResetClear, ResetMove, Clear, sensorVars, historyVars
<1>2. streamState = "starting" /\ \A s \in Sensors : delivery[s] = "idle"
  BY <1>1, NobodyInside DEF PipelineInv, StateByPlace, Resetting
<1>3. DOMAIN queue' = {} /\ Len(queue') = 0
  BY <1>1, EmptySeq
<1>4. InHand' = 0
  BY <1>1, <1>2 DEF InHand, Hands
<1>5. Waiting' = 0
  BY <1>3, <1>4 DEF Waiting
<1>6. Numbered'
  BY <1>1, <1>2, <1>3 DEF Numbered, Inside
<1>7. [Stream!Next]_(Stream!streamVars)
  <2>1. made' + 1 - Waiting' = made + 1
    BY <1>1, <1>5, WaitingFacts DEF PipelineInv
  <2> QED BY <1>1, <1>2, <2>1 DEF Stream!Next, Stream!Forget
<1> QED BY <1>6, <1>7 DEF Kept

(* waitForFrame takes the oldest that waits.                               *)
LEMMA WaitKeeps ==
  ASSUME PipelineInv, Numbered, WaitForFrame
  PROVE  Kept
<1>1. /\ queue # <<>> /\ queue' = Tail(queue)
      /\ received' = [frameset |-> Head(queue), via |-> "wait"]
      /\ UNCHANGED <<made, delivery, streamState, api>>
  BY DEF WaitForFrame, Dequeue, sensorVars, historyVars, callVars
<1>2. TypeOK
  BY DEF PipelineInv
<1>3. /\ Len(queue') = Len(queue) - 1 /\ Len(queue) >= 1
      /\ \A i \in DOMAIN queue' : i + 1 \in DOMAIN queue /\ queue'[i] = queue[i + 1]
      /\ DOMAIN queue' \subseteq Nat
      /\ Head(queue) = queue[1] /\ 1 \in DOMAIN queue
  <2>1. /\ Len(queue') = Len(queue) - 1 /\ queue' \in Seq(Nat)
        /\ \A i \in DOMAIN queue' : i + 1 \in DOMAIN queue /\ queue'[i] = queue[i + 1]
    BY <1>1, <1>2, FrontOfQueue, WaitingFacts
  <2>2. Len(queue) >= 1 /\ Head(queue) = queue[1]
    BY <1>1, <1>2, WaitingFacts
  <2>3. DOMAIN queue' \subseteq Nat
    BY <2>1
  <2> QED BY <2>1, <2>2, <2>3, <1>2, WaitingFacts
<1>4. InHand' = InHand
  BY <1>1 DEF InHand
<1>5. Waiting' = Waiting - 1 /\ Waiting \in Nat /\ Waiting >= 1
  BY <1>2, <1>3, <1>4, WaitingFacts DEF Waiting
<1>6. Head(queue) = made - Waiting + 1
  BY <1>3 DEF Numbered
<1>7. received'.frameset = made' - Waiting'
  BY <1>1, <1>2, <1>5, <1>6, WaitingFacts
<1>8. Numbered'
  <2>1. \A i \in DOMAIN queue' : queue'[i] = made' - Waiting' + i
    <3> TAKE i \in DOMAIN queue'
    <3>1. i \in Nat /\ queue'[i] = made - Waiting + (i + 1)
      BY <1>3 DEF Numbered
    <3> QED BY <1>1, <1>2, <1>5, <3>1, WaitingFacts
  <2>2. queue # <<>>
    BY <1>1
  <2> QED BY <1>1, <1>7, <2>1, <2>2 DEF Numbered
<1>9. [Stream!Next]_(Stream!streamVars)
  <2>1. made + 1 - Waiting <= made /\ received'.frameset = made + 1 - Waiting
    BY <1>1, <1>2, <1>5, <1>6, WaitingFacts
  <2>2. made' + 1 - Waiting' = (made + 1 - Waiting) + 1
    BY <1>1, <1>2, <1>5, WaitingFacts
  <2> QED BY <1>1, <2>1, <2>2 DEF Stream!Next, Stream!Receive, Stream!ReceiveLeft, Stream!TakeOldest
<1> QED BY <1>8, <1>9 DEF Kept

(* Where the thread is that delivers a frameset, and the pipeline with it. *)
LEMMA Delivers ==
  ASSUME PipelineInv, Numbered, NEW s \in Sensors, delivery[s] \in Inside
  PROVE  TypeOK /\ streamState = "streaming" /\ sensor[s] # "off" /\ api \notin Resetting
<1>1. TypeOK /\ streamState = "streaming"
  BY DEF PipelineInv, Numbered
<1>2. sensor[s] # "off"
  BY DEF PipelineInv, SensorsByPlace, Inside
<1> QED BY <1>1, <1>2 DEF PipelineInv, SensorsByPlace, Running

LEMMA CutKeeps ==
  ASSUME PipelineInv, Numbered, NEW s \in Sensors, FramesetCut(s)
  PROVE  Kept
<1>1. PICK to \in {"callback", "check"} :
        /\ delivery[s] = "push" /\ delivery' = [delivery EXCEPT ![s] = to]
        /\ made' = made + 1
        /\ UNCHANGED <<queue, received, streamState, api>>
  BY DEF FramesetCut, queueVars, callVars
<1>2. TypeOK /\ streamState = "streaming"
  BY <1>1, Delivers DEF Inside
<1>3. /\ delivery'[s] = to /\ InHand = 0 /\ InHand' = 1
      /\ \A t \in Sensors \ {s} : delivery'[t] = delivery[t] /\ delivery[t] \in {"idle", "lock"}
  <2>1. delivery[s] \in Inside /\ delivery[s] \notin Hands /\ to \in Hands
    BY <1>1 DEF Inside, Hands
  <2> QED BY <1>1, <1>2, <2>1, HandMoves
<1>4. Waiting' = Waiting + 1 /\ Waiting \in Nat
  BY <1>1, <1>2, <1>3, WaitingFacts DEF Waiting
<1>5. made' - Waiting' = made - Waiting /\ made' + 1 - Waiting' = made + 1 - Waiting
  <2>1. made \in Nat /\ made' = made + 1
    BY <1>1, <1>2, WaitingFacts
  <2> QED BY <1>4, <2>1
<1>6. Numbered'
  <2>1. \A t \in Sensors : delivery'[t] # "drop"
    BY <1>3
  <2> QED BY <1>1, <1>2, <1>5, <2>1 DEF Numbered
<1>7. [Stream!Next]_(Stream!streamVars)
  BY <1>1, <1>2, <1>5 DEF Stream!Next, Stream!Cut
<1> QED BY <1>6, <1>7 DEF Kept

(* A callback gets the only one there is.                                  *)
LEMMA CallbackKeeps ==
  ASSUME PipelineInv, Numbered, NEW s \in Sensors, RunCallback(s)
  PROVE  Kept
<1>1. /\ delivery[s] = "callback" /\ delivery' = [delivery EXCEPT ![s] = "idle"]
      /\ received' = [frameset |-> made, via |-> "callback"]
      /\ UNCHANGED <<queue, made, streamState, api>>
  BY DEF RunCallback, Leave, queueVars, callVars, historyVars
<1>2. TypeOK /\ streamState = "streaming" /\ api \notin Resetting
  BY <1>1, Delivers DEF Inside
<1>3. /\ delivery'[s] = "idle" /\ InHand = 1 /\ InHand' = 0
      /\ \A t \in Sensors \ {s} : delivery'[t] = delivery[t] /\ delivery[t] \in {"idle", "lock"}
  <2>1. delivery[s] \in Inside /\ delivery[s] \in Hands /\ "idle" \notin Hands
    BY <1>1 DEF Inside, Hands
  <2> QED BY <1>1, <1>2, <2>1, HandMoves
<1>4. queue = <<>>
  BY <1>1, <1>2 DEF PipelineInv, Sink, Resetting
<1>5. Waiting = 1 /\ Waiting' = 0
  BY <1>1, <1>3, <1>4, EmptySeq DEF Waiting
<1>6. Numbered'
  <2>1. DOMAIN queue' = {}
    BY <1>1, <1>4, EmptySeq
  <2>2. \A t \in Sensors : delivery'[t] \in {"idle", "lock"}
    BY <1>3
  <2> QED BY <1>1, <1>2, <2>1, <2>2 DEF Numbered, Inside
<1>7. [Stream!Next]_(Stream!streamVars)
  <2>1. received'.frameset = made + 1 - Waiting /\ made + 1 - Waiting <= made
    BY <1>1, <1>2, <1>5, WaitingFacts
  <2>2. made' + 1 - Waiting' = (made + 1 - Waiting) + 1
    BY <1>1, <1>2, <1>5, WaitingFacts
  <2> QED BY <1>1, <1>2, <2>1, <2>2 DEF Stream!Next, Stream!Receive, Stream!TakeOldest
<1> QED BY <1>6, <1>7 DEF Kept

LEMMA CheckKeeps ==
  ASSUME PipelineInv, Numbered, NEW s \in Sensors, CheckFull(s)
  PROVE  Kept
<1>1. PICK to \in {"drop", "enqueue"} :
        /\ delivery[s] = "check" /\ delivery' = [delivery EXCEPT ![s] = to]
        /\ to = "drop" => Len(queue) >= Capacity
        /\ UNCHANGED <<queue, made, received, streamState, api>>
  BY DEF CheckFull, queueVars, callVars, historyVars
<1>2. TypeOK /\ streamState = "streaming"
  BY <1>1, Delivers DEF Inside
<1>3. /\ delivery'[s] = to /\ InHand' = InHand
      /\ \A t \in Sensors \ {s} : delivery'[t] = delivery[t] /\ delivery[t] \in {"idle", "lock"}
  <2>1. delivery[s] \in Inside /\ delivery[s] \in Hands /\ to \in Hands
    BY <1>1 DEF Inside, Hands
  <2> QED BY <1>1, <1>2, <2>1, HandMoves
<1>4. Waiting' = Waiting
  BY <1>1, <1>3 DEF Waiting
<1>5. Numbered'
  BY <1>1, <1>2, <1>3, <1>4 DEF Numbered
<1>6. [Stream!Next]_(Stream!streamVars)
  BY <1>1, <1>4 DEF Stream!streamVars
<1> QED BY <1>5, <1>6 DEF Kept

(* The oldest goes, unless the consumer has emptied the queue.             *)
LEMMA DropKeeps ==
  ASSUME PipelineInv, Numbered, NEW s \in Sensors, DropOldest(s)
  PROVE  Kept
<1>1. /\ delivery[s] = "drop" /\ delivery' = [delivery EXCEPT ![s] = "enqueue"]
      /\ queue' = IF queue = <<>> THEN queue ELSE Tail(queue)
      /\ UNCHANGED <<made, received, streamState, api>>
  BY DEF DropOldest, Dequeue, queueVars, callVars, historyVars
<1>2. TypeOK /\ streamState = "streaming"
  BY <1>1, Delivers DEF Inside
<1>3. /\ delivery'[s] = "enqueue" /\ InHand = 1 /\ InHand' = 1
      /\ \A t \in Sensors \ {s} : delivery'[t] = delivery[t] /\ delivery[t] \in {"idle", "lock"}
  <2>1. delivery[s] \in Inside /\ delivery[s] \in Hands /\ "enqueue" \in Hands
    BY <1>1 DEF Inside, Hands
  <2> QED BY <1>1, <1>2, <2>1, HandMoves
<1>4. \A t \in Sensors : delivery'[t] # "drop"
  BY <1>3
<1>5. CASE queue = <<>>
  <2>1. queue' = queue /\ Waiting' = Waiting
    BY <1>1, <1>3, <1>5 DEF Waiting
  <2>2. Numbered'
    BY <1>1, <1>2, <1>4, <2>1 DEF Numbered
  <2>3. [Stream!Next]_(Stream!streamVars)
    BY <1>1, <2>1 DEF Stream!streamVars
  <2> QED BY <2>2, <2>3 DEF Kept
<1>6. CASE queue # <<>>
  <2>1. /\ Len(queue') = Len(queue) - 1 /\ queue' \in Seq(Nat)
        /\ \A i \in DOMAIN queue' : i + 1 \in DOMAIN queue /\ queue'[i] = queue[i + 1]
    BY <1>1, <1>2, <1>6, FrontOfQueue, WaitingFacts
  <2>2. Len(queue) >= 1 /\ DOMAIN queue' \subseteq Nat
    BY <1>2, <1>6, <2>1, WaitingFacts
  <2>3. Waiting' = Waiting - 1 /\ Waiting \in Nat /\ Waiting = Len(queue) + 1
    BY <1>2, <1>3, <2>1, WaitingFacts DEF Waiting
  <2>4. Numbered'
    <3>1. \A i \in DOMAIN queue' : queue'[i] = made' - Waiting' + i
      <4> TAKE i \in DOMAIN queue'
      <4>1. i \in Nat /\ queue'[i] = made - Waiting + (i + 1)
        BY <2>1, <2>2 DEF Numbered
      <4> QED BY <1>1, <1>2, <2>3, <4>1, WaitingFacts
    <3> QED BY <1>1, <1>2, <1>4, <3>1 DEF Numbered
  <2>5. [Stream!Next]_(Stream!streamVars)
    <3>1. made + 1 - Waiting < made
      BY <1>2, <2>2, <2>3, WaitingFacts
    <3>2. Len(queue) >= Capacity \/ received.frameset = made - Waiting
      BY <1>1 DEF Numbered
    <3>3. made + 1 - Waiting + Capacity <= made \/ made + 1 - Waiting = received.frameset + 1
      BY <1>2, <2>3, <3>2, WaitingFacts
    <3>4. made' + 1 - Waiting' = (made + 1 - Waiting) + 1
      BY <1>1, <1>2, <2>3, WaitingFacts
    <3> QED BY <1>1, <1>2, <3>1, <3>3, <3>4 DEF Stream!Next, Stream!Lose
  <2> QED BY <2>4, <2>5 DEF Kept
<1> QED BY <1>5, <1>6

(* The newest is not refused, so that it waits on.                         *)
LEMMA EnqueueKeeps ==
  ASSUME PipelineInv, Numbered, NEW s \in Sensors, EnqueueFrameset(s)
  PROVE  Kept
<1>1. /\ delivery[s] = "enqueue" /\ delivery' = [delivery EXCEPT ![s] = "idle"]
      /\ queue' = Append(queue, made)
      /\ UNCHANGED <<made, received, streamState, api>>
  BY ChecksFollow DEF EnqueueFrameset, Enqueue, Leave, ChecksHold, callVars, historyVars
<1>2. TypeOK /\ streamState = "streaming"
  BY <1>1, Delivers DEF Inside
<1>3. /\ delivery'[s] = "idle" /\ InHand = 1 /\ InHand' = 0
      /\ \A t \in Sensors \ {s} : delivery'[t] = delivery[t] /\ delivery[t] \in {"idle", "lock"}
  <2>1. delivery[s] \in Inside /\ delivery[s] \in Hands /\ "idle" \notin Hands
    BY <1>1 DEF Inside, Hands
  <2> QED BY <1>1, <1>2, <2>1, HandMoves
<1>4. /\ Len(queue') = Len(queue) + 1 /\ DOMAIN queue' = 1..Len(queue) + 1
      /\ queue'[Len(queue) + 1] = made /\ \A i \in 1..Len(queue) : queue'[i] = queue[i]
  BY <1>1, <1>2, WaitingFacts, AppendProperties
<1>5. Waiting' = Waiting /\ Waiting = Len(queue) + 1
  BY <1>2, <1>3, <1>4, WaitingFacts DEF Waiting
<1>6. Numbered'
  <2>1. \A i \in DOMAIN queue' : queue'[i] = made' - Waiting' + i
    <3> TAKE i \in DOMAIN queue'
    <3>1. CASE i \in 1..Len(queue)
      BY <1>1, <1>2, <1>4, <1>5, <3>1, WaitingFacts DEF Numbered
    <3>2. CASE i = Len(queue) + 1
      BY <1>1, <1>2, <1>4, <1>5, <3>2, WaitingFacts
    <3> QED BY <1>2, <1>4, <3>1, <3>2, WaitingFacts
  <2>2. \A t \in Sensors : delivery'[t] \in {"idle", "lock"}
    BY <1>3
  <2> QED BY <1>1, <1>2, <2>1, <2>2 DEF Numbered, Inside
<1>7. [Stream!Next]_(Stream!streamVars)
  BY <1>1, <1>5 DEF Stream!streamVars
<1> QED BY <1>6, <1>7 DEF Kept

(* Every other step leaves the framesets alone.                            *)
LEMMA OthersKeep ==
  ASSUME PipelineInv, Numbered, UNCHANGED vars \/ Call \/ (Proceed /\ ~ResetClear)
  PROVE  Kept
<1> USE DEF queueVars, sensorVars, callVars, historyVars
<1>1. ASSUME UNCHANGED <<queue, made, received, delivery>>, InPhase \/ NewPhase
      PROVE  Kept
  BY <1>1, QuietKeeps DEF Quiet, PipelineInv
<1>2. ASSUME UNCHANGED <<queue, made, received, delivery, streamState>>,
             api \in {"reset_stop", "reset_clear"} => api' \in {"reset_stop", "reset_clear"}
      PROVE  Kept
  BY <1>1, <1>2 DEF InPhase
<1>3. CASE UNCHANGED vars
  BY <1>2, <1>3 DEF vars
<1>4. ASSUME streamState = "stopped" \/ api \in Resetting \cup {"flush", "lock"},
             UNCHANGED <<queue, made, received, delivery>>,
             streamState' \in {"starting", "stopped"},
             streamState' = "starting" => api' = "reset_stop"
      PROVE  Kept
  <2>1. \A s \in Sensors : delivery'[s] = "idle"
    BY <1>4, NobodyInside DEF PipelineInv
  <2> QED BY <1>1, <1>4, <2>1 DEF NewPhase
<1>5. ASSUME NEW cb \in BOOLEAN, Start(cb) PROVE Kept
  BY <1>4, <1>5 DEF Start, BeginSession
<1>6. ASSUME NEW cb \in BOOLEAN, StartThrows(cb) PROVE Kept
  BY <1>2, <1>6 DEF StartThrows
<1>7. CASE StartWithoutConfig
  BY <1>4, <1>7 DEF StartWithoutConfig, BeginSession
<1>8. CASE Stop
  BY <1>2, <1>8 DEF Stop
<1>9. ASSUME NEW cfg \in Configs, SwitchConfig(cfg) PROVE Kept
  BY <1>2, <1>9 DEF SwitchConfig
<1>10. CASE ResetStop \/ ResetDone
  BY <1>2, <1>10 DEF ResetStop, ResetDone, ResetMove, SignalStop, ResetFlags
<1>11. CASE StartSensor \/ StartSensorThrows \/ StartReturns
  BY <1>2, <1>11 DEF StartSensor, StartSensorThrows, StartReturns
<1>12. CASE StopSensor \/ SensorStopped \/ StreamsStopped
  BY <1>2, <1>12 DEF StopSensor, SensorStopped, StreamsStopped
<1>13. CASE Flush
  BY <1>4, <1>13 DEF Flush, SignalFlush
<1>14. CASE SwitchStart
  BY <1>4, <1>14 DEF SwitchStart, BeginSession
<1>15. CASE SwitchThrows
  BY <1>2, <1>15 DEF SwitchThrows
<1> QED BY <1>3, <1>5, <1>6, <1>7, <1>8, <1>9, <1>10, <1>11, <1>12, <1>13, <1>14, <1>15
    DEF Call, Proceed

(* So does a frame that comes, and one that is no frameset yet.            *)
LEMMA FrameKeeps ==
  ASSUME PipelineInv, Numbered, NEW s \in Sensors, Arrive(s) \/ OnFrame(s) \/ FrameWaits(s)
  PROVE  Kept
<1> USE DEF queueVars, sensorVars, callVars, historyVars
<1>1. TypeOK /\ delivery \in [Sensors -> {"idle", "lock"} \cup Inside]
  BY TypeFacts DEF PipelineInv
<1>2. ASSUME NEW to \in Outside, delivery[s] \in Outside,
             delivery' = [delivery EXCEPT ![s] = to],
             UNCHANGED <<queue, made, received>>
      PROVE  Quiet /\ delivery'[s] = to /\ \A t \in Sensors \ {s} : delivery'[t] = delivery[t]
  BY <1>1, <1>2 DEF Quiet
<1>3. CASE Arrive(s)
  <2>1. Quiet /\ delivery'[s] = "lock" /\ \A t \in Sensors \ {s} : delivery'[t] = delivery[t]
    BY <1>2, <1>3 DEF Arrive, Outside
  <2>2. InPhase
    BY <1>3, <2>1 DEF Arrive, InPhase, Inside
  <2> QED BY <1>1, <2>1, <2>2, QuietKeeps
<1>4. CASE OnFrame(s) /\ streamState = "stopped"
  <2>1. Quiet /\ delivery'[s] = "idle" /\ \A t \in Sensors \ {s} : delivery'[t] = delivery[t]
    BY <1>2, <1>4 DEF OnFrame, Outside
  <2>2. InPhase
    BY <1>4, <2>1 DEF OnFrame, InPhase, Inside
  <2> QED BY <1>1, <2>1, <2>2, QuietKeeps
<1>5. CASE OnFrame(s) /\ streamState # "stopped"
  <2>1. Quiet
    BY <1>2, <1>5 DEF OnFrame, Outside
  <2>2. api \notin Resetting
    BY <1>5, NobodyInside DEF OnFrame, PipelineInv
  <2>3. Streaming
    BY <1>5, <2>2 DEF OnFrame, Streaming, Resetting
  <2> QED BY <1>1, <2>1, <2>3, QuietKeeps
<1>6. CASE FrameWaits(s)
  <2>1. Quiet /\ delivery'[s] = "idle" /\ \A t \in Sensors \ {s} : delivery'[t] = delivery[t]
    BY <1>2, <1>6 DEF FrameWaits, Leave, Outside
  <2>2. InPhase
    BY <1>6, <2>1 DEF FrameWaits, Leave, InPhase, Inside
  <2> QED BY <1>1, <2>1, <2>2, QuietKeeps
<1> QED BY <1>3, <1>4, <1>5, <1>6

LEMMA StreamStep ==
  ASSUME PipelineInv, Numbered, [Next]_vars
  PROVE  Kept
BY ClearKeeps, WaitKeeps, CutKeeps, CallbackKeeps, CheckKeeps, DropKeeps, EnqueueKeeps,
   OthersKeep, FrameKeeps DEF Next, Deliver

(* The framesets that wait are the last ones cut, all of a session that    *)
(* streams.                                                                *)
THEOREM NumberedHolds == Spec => []Numbered
<1>1. Init => Numbered
  BY EmptySeq DEF Init, QueueInit, Numbered, Inside
<1>2. PipelineInv /\ Numbered /\ [Next]_vars => Numbered'
  BY StreamStep DEF Kept
<1> QED BY <1>1, <1>2, PipelineInvHolds, PTL DEF Spec

(* The pipeline implements FramesetStream: every frameset the application  *)
(* gets is the oldest that waits, of the session that streams or, until    *)
(* the next start has cleared the queue, of the one that was stopped; and  *)
(* none is lost but the oldest, when the queue is full or the consumer has *)
(* made room between fulled() and dequeue().                               *)
THEOREM PipelineImplementsStream == Spec => StreamSpec
<1>1. Init => Stream!Init
  <2> SUFFICES ASSUME Init PROVE Stream!Init
    OBVIOUS
  <2>1. Waiting = 0
    BY EmptySeq DEF Init, QueueInit, Waiting, InHand, Hands
  <2>2. made = 0 /\ made + 1 - Waiting = 1 /\ received.frameset = 0
    BY <2>1 DEF Init, NoFrameset
  <2> QED BY <2>2 DEF Init, Stream!Init
<1>2. PipelineInv /\ Numbered /\ [Next]_vars => [Stream!Next]_(Stream!streamVars)
  BY StreamStep DEF Kept
<1> QED BY <1>1, <1>2, PipelineInvHolds, NumberedHolds, PTL DEF Spec, StreamSpec, Stream!Spec
=============================================================================
