----------------------------- MODULE ImuStreamer -----------------------------
(***************************************************************************)
(* One backend stream shared by the accelerometer and the gyroscope:       *)
(* device/component/sensor/imu/ImuStreamer.cpp, its users AccelSensor.cpp  *)
(* and GyroSensor.cpp, and the port platform/usb/hid/HidDevicePort.cpp.    *)
(*   a caller per sensor    start and stop of the sensor                   *)
(*   the port's threads     read packets and hand them to parseIMUData     *)
(*   the filter's thread    outputFrame and the callback of each sensor    *)
(* cbMtx_ guards callbacks_ only: between the look at callbacks_ and       *)
(* running_ and the start or stop of the backend another call gets in.     *)
(* callbacks_ is keyed by stream profile: a sensor that is started with    *)
(* one profile and then with another has an entry for each.                *)
(*                                                                         *)
(* A packet holds one group of samples; raw numbers it within a session of *)
(* the backend.  The queue of the port is seen from outside: its packets   *)
(* are parsed in order, and flush() ends when the last one is.             *)
(*                                                                         *)
(* Operators named Mut... are seeded faults; the specification uses none.  *)
(***************************************************************************)
EXTENDS Integers, Sequences, FiniteSets

CONSTANTS
  Sensors,      \* the sensors of the streamer: accelerometer and gyroscope
  Profiles,     \* the stream profiles of a sensor
  NoProfile,    \* no profile
  Leading,      \* packets to discard (8 samples in the code)
  Tries,        \* tries of the backend (3 in the code)
  MaxStarts,    \* bound: calls of start
  MaxPackets,   \* bound: packets of a session
  FilterSize    \* bound: frames in the filter's queue (100 in the code)

ASSUME ImuAssumption ==
  /\ IsFiniteSet(Sensors) /\ Sensors # {} /\ NoProfile \notin Profiles
  /\ Leading \in Nat /\ Tries \in Nat \ {0}
  /\ MaxStarts \in Nat /\ MaxPackets \in Nat /\ FilterSize \in Nat

VARIABLES
  state,       \* streamState_ of every sensor
  profile,     \* activatedStreamProfile_ of every sensor
  callbacks,   \* the keys of callbacks_, each with its sensor
  running,     \* running_
  ignore,      \* ignoreLeadingFrameCount_
  frameIndex,  \* frameIndex_
  backend,     \* isStreaming_ of the port
  packet,      \* the packet its threads hold, 0 for none
  raw,         \* packets of this session so far
  filtered,    \* frames in the filter's queue
  out,         \* the frame in outputFrame, the callbacks it is still for, and the
               \* one whose sensor's state has let it through
  pc,          \* where the call of every sensor is
  tries,       \* retry of its start
  started,     \* history: sensors whose last start has returned
  abandoned,   \* history: keys whose sensor's start failed after registering
               \* them, or that was started again since
  crossed,     \* history: a call registered while another start or the last
               \* stop was under way
  starts

threadVars == <<packet, raw, filtered, out>>
historyVars == <<started, abandoned, crossed, starts>>
vars == <<state, profile, callbacks, running, ignore, frameIndex, backend, threadVars, pc, tries,
          historyVars>>

StreamState == {"stopped", "starting", "streaming", "start_failed", "stopping"}
Starting == {"prepare", "try", "run"}
Stopping == {"backend_off", "flush", "filters", "not_running"}
Nothing == [frame |-> <<>>, todo |-> {}, let |-> {}]

Keys == Sensors \X Profiles
Key(s) == <<s, profile[s]>>
KeysOf(s) == {k \in callbacks : k[1] = s}

Frames == [raw : Nat, number : Nat, for : SUBSET Sensors]
Outputs == [frame : Seq(Frames), todo : SUBSET Keys, let : SUBSET Keys]

TypeOK ==
  /\ state \in [Sensors -> StreamState]
  /\ profile \in [Sensors -> Profiles \cup {NoProfile}]
  /\ \A s \in Sensors : pc[s] \in {"set", "register"} \cup Starting => profile[s] \in Profiles
  /\ callbacks \subseteq Keys /\ started \subseteq Sensors /\ abandoned \subseteq Keys
  /\ {running, backend, crossed} \subseteq BOOLEAN
  /\ ignore \in 0..Leading /\ frameIndex \in Nat
  /\ packet \in 0..MaxPackets /\ raw \in 0..MaxPackets
  /\ filtered \in Seq(Frames) /\ Len(filtered) <= FilterSize
  /\ out \in Outputs
  /\ pc \in [Sensors -> {"idle", "set", "register", "unregister", "switch"}
                          \cup Starting \cup Stopping]
  /\ tries \in [Sensors -> 0..Tries] /\ starts \in 0..MaxStarts

Init ==
  /\ state = [s \in Sensors |-> "stopped"]
  /\ profile = [s \in Sensors |-> NoProfile] /\ callbacks = {} /\ running = FALSE
  /\ ignore = 0 /\ frameIndex = 0
  /\ backend = FALSE
  /\ packet = 0 /\ raw = 0 /\ filtered = <<>> /\ out = Nothing
  /\ pc = [s \in Sensors |-> "idle"] /\ tries = [s \in Sensors |-> 0]
  /\ started = {} /\ abandoned = {} /\ crossed = FALSE /\ starts = 0

-----------------------------------------------------------------------------
(* updateStreamState: a sensor that stops is not called streaming again.   *)
Updated(s, new) ==
  [state EXCEPT ![s] = IF new = "streaming" /\ @ = "stopping" THEN @ ELSE new]

Goes(s, from, to) == pc[s] = from /\ pc' = [pc EXCEPT ![s] = to]

(* AccelSensor::start and GyroSensor::start, also of a sensor that is      *)
(* started already ...                                                     *)
Start(s, p) ==
  /\ Goes(s, "idle", "set")
  /\ starts < MaxStarts
  /\ starts' = starts + 1
  /\ state' = Updated(s, "starting")
  /\ profile' = [profile EXCEPT ![s] = p]
  /\ started' = started \ {s}
  /\ abandoned' = abandoned \cup KeysOf(s)
  /\ UNCHANGED <<callbacks, running, ignore, frameIndex, backend, threadVars, tries, crossed>>

(* ... set the properties of the device, outside the try block ...         *)
SetProperties(s) ==
  /\ \E to \in {"register", "idle"} : Goes(s, "set", to)
  /\ UNCHANGED <<state, profile, callbacks, running, ignore, frameIndex, backend, threadVars,
                 tries, historyVars>>

(* ... and call startStream: the callback is registered under cbMtx_ ...   *)
Register(s) ==
  /\ Goes(s, "register", IF running THEN "idle" ELSE "prepare")
  /\ callbacks' = callbacks \cup {Key(s)}
  /\ started' = IF running THEN started \cup {s} ELSE started
  /\ abandoned' = abandoned \ {Key(s)}
  /\ crossed' = (crossed \/ \E o \in Sensors \ {s} : pc[o] \in Starting \cup Stopping)
  /\ UNCHANGED <<state, profile, running, ignore, frameIndex, backend, threadVars, tries,
                 starts>>

(* ... and the rest happens without it.                                    *)
MutPrepare(s) ==
  /\ Goes(s, "prepare", "try")
  /\ frameIndex' = 1
  /\ ignore' = IF frameIndex = 0 THEN Leading ELSE ignore
  /\ tries' = [tries EXCEPT ![s] = Tries]
  /\ UNCHANGED <<state, profile, callbacks, running, backend, threadVars, historyVars>>

Prepare(s) ==
  /\ Goes(s, "prepare", "try")
  /\ frameIndex' = 1
  /\ ignore' = Leading
  /\ tries' = [tries EXCEPT ![s] = Tries]
  /\ UNCHANGED <<state, profile, callbacks, running, backend, threadVars, historyVars>>

(* HidDevicePort::startStream throws when it streams already.              *)
StartBackend(s) ==
  /\ Goes(s, "try", "run")
  /\ ~backend /\ backend' = TRUE
  /\ raw' = 0
  /\ UNCHANGED <<state, profile, callbacks, running, ignore, frameIndex, packet, filtered, out,
                 tries, historyVars>>

(* "socket is not ready": sleep and try again.                             *)
RetryBackend(s) ==
  /\ Goes(s, "try", "try")
  /\ ~backend /\ tries[s] > 1
  /\ tries' = [tries EXCEPT ![s] = @ - 1]
  /\ UNCHANGED <<state, profile, callbacks, running, ignore, frameIndex, backend, threadVars,
                 historyVars>>

(* Any other failure, or the last: the sensor forgets the profile, and the *)
(* callback stays registered under it.                                     *)
StartThrows(s) ==
  /\ Goes(s, "try", "idle")
  /\ state' = Updated(s, "start_failed")
  /\ profile' = [profile EXCEPT ![s] = NoProfile]
  /\ abandoned' = abandoned \cup {Key(s)}
  /\ UNCHANGED <<callbacks, running, ignore, frameIndex, backend, threadVars, tries, started,
                 crossed, starts>>

Run(s) ==
  /\ Goes(s, "run", "idle")
  /\ running' = TRUE
  /\ started' = started \cup {s}
  /\ UNCHANGED <<state, profile, callbacks, ignore, frameIndex, backend, threadVars, tries,
                 abandoned, crossed, starts>>

-----------------------------------------------------------------------------
(* AccelSensor::stop and GyroSensor::stop, of any sensor.                  *)
Stop(s) ==
  /\ Goes(s, "idle", "unregister")
  /\ started' = started \ {s}
  /\ state' = Updated(s, "stopping")
  /\ UNCHANGED <<profile, callbacks, running, ignore, frameIndex, backend, threadVars, tries,
                 abandoned, crossed, starts>>

(* stopStream: only the last callback takes the backend with it.           *)
MutUnregister(s) ==
  /\ Goes(s, "unregister", IF Key(s) \in callbacks THEN "backend_off" ELSE "idle")
  /\ callbacks' = callbacks \ {Key(s)}
  /\ UNCHANGED <<state, profile, running, ignore, frameIndex, backend, threadVars, tries,
                 historyVars>>

(* It throws when the profile is not found: the sensor is left STOPPING.   *)
Unregister(s) ==
  /\ Goes(s, "unregister", CASE Key(s) \notin callbacks -> "idle"
                             [] callbacks = {Key(s)} -> "backend_off"
                             [] OTHER -> "switch")
  /\ callbacks' = callbacks \ {Key(s)}
  /\ UNCHANGED <<state, profile, running, ignore, frameIndex, backend, threadVars, tries,
                 historyVars>>

(* So does HidDevicePort::stopStream when it does not stream.              *)
StopBackend(s) ==
  /\ Goes(s, "backend_off", IF backend THEN "flush" ELSE "idle")
  /\ backend' = FALSE
  /\ UNCHANGED <<state, profile, callbacks, running, ignore, frameIndex, threadVars, tries,
                 historyVars>>

(* It joins its thread and flushes its queue: every packet is parsed.      *)
BackendStopped(s) ==
  /\ packet = 0
  /\ Goes(s, "flush", "filters")
  /\ UNCHANGED <<state, profile, callbacks, running, ignore, frameIndex, backend, threadVars,
                 tries, historyVars>>

(* filter->reset(): so is every frame.                                     *)
FiltersReset(s) ==
  /\ filtered = <<>> /\ out = Nothing
  /\ Goes(s, "filters", "not_running")
  /\ UNCHANGED <<state, profile, callbacks, running, ignore, frameIndex, backend, threadVars,
                 tries, historyVars>>

MutNotRunning(s) ==
  /\ Goes(s, "not_running", "switch")
  /\ frameIndex' = 1
  /\ UNCHANGED <<state, profile, callbacks, running, ignore, backend, threadVars, tries,
                 historyVars>>

NotRunning(s) ==
  /\ Goes(s, "not_running", "switch")
  /\ running' = FALSE
  /\ frameIndex' = 1
  /\ UNCHANGED <<state, profile, callbacks, ignore, backend, threadVars, tries, historyVars>>

(* The switch property of the device may fail: the sensor stays STOPPING.  *)
SwitchOff(s) ==
  /\ Goes(s, "switch", "idle")
  /\ \E new \in {"stopped", "stopping"} : state' = Updated(s, new)
  /\ UNCHANGED <<profile, callbacks, running, ignore, frameIndex, backend, threadVars, tries,
                 historyVars>>

-----------------------------------------------------------------------------
Deliver ==
  UNCHANGED <<profile, callbacks, running, backend, pc, tries, historyVars>>

Arrive ==
  /\ backend /\ packet = 0 /\ raw < MaxPackets
  /\ raw' = raw + 1 /\ packet' = raw + 1
  /\ Deliver /\ UNCHANGED <<state, ignore, frameIndex, filtered, out>>

(* parseIMUData: a leading packet is discarded; another gets the next      *)
(* number and becomes a frame for the sensors registered now.              *)
Discard ==
  /\ packet # 0 /\ ignore > 0
  /\ packet' = 0 /\ ignore' = ignore - 1
  /\ Deliver /\ UNCHANGED <<state, frameIndex, raw, filtered, out>>

Parse ==
  /\ packet # 0 /\ ignore = 0
  /\ packet' = 0
  /\ frameIndex' = frameIndex + 1
  /\ LET frame == [raw |-> packet, number |-> frameIndex, for |-> {k[1] : k \in callbacks}]
     IN filtered' = IF Len(filtered) < FilterSize THEN Append(filtered, frame) ELSE filtered
  /\ Deliver /\ UNCHANGED <<state, ignore, raw, out>>

(* outputFrame: callbacks_ is copied under cbMtx_ and used without it.     *)
OutputFrame ==
  /\ out = Nothing /\ filtered # <<>>
  /\ LET todo == {k \in callbacks : k[1] \in Head(filtered).for}
     IN out' = IF todo = {} THEN Nothing
                 ELSE [frame |-> <<Head(filtered)>>, todo |-> todo, let |-> {}]
  /\ filtered' = Tail(filtered)
  /\ Deliver /\ UNCHANGED <<state, ignore, frameIndex, packet, raw>>

Done(k) ==
  IF out.todo = {k} THEN Nothing
    ELSE [frame |-> out.frame, todo |-> out.todo \ {k}, let |-> {}]

(* The lambda of the sensor: the state is looked at ...                    *)
Refuse(k) ==
  /\ k \in out.todo /\ out.let = {} /\ state[k[1]] \notin {"starting", "streaming"}
  /\ out' = Done(k)
  /\ Deliver /\ UNCHANGED <<state, ignore, frameIndex, packet, raw, filtered>>

Accept(k) ==
  /\ k \in out.todo /\ out.let = {} /\ state[k[1]] \in {"starting", "streaming"}
  /\ out' = [frame |-> out.frame, todo |-> out.todo, let |-> {k}]
  /\ Deliver /\ UNCHANGED <<state, ignore, frameIndex, packet, raw, filtered>>

(* ... and, when it allowed the frame, changed and the frame handed on.    *)
Output(k) ==
  /\ k \in out.let
  /\ out' = Done(k)
  /\ state' = Updated(k[1], "streaming")
  /\ Deliver /\ UNCHANGED <<ignore, frameIndex, packet, raw, filtered>>

-----------------------------------------------------------------------------
Call(s) ==
  \/ (\E p \in Profiles : Start(s, p)) \/ SetProperties(s) \/ Register(s) \/ Prepare(s)
  \/ StartBackend(s) \/ RetryBackend(s) \/ StartThrows(s) \/ Run(s)
  \/ Stop(s) \/ Unregister(s) \/ StopBackend(s) \/ BackendStopped(s) \/ FiltersReset(s)
  \/ NotRunning(s) \/ SwitchOff(s)

Next ==
  \/ \E s \in Sensors : Call(s)
  \/ \E k \in Keys : Refuse(k) \/ Accept(k) \/ Output(k)
  \/ Arrive \/ Discard \/ Parse \/ OutputFrame

Spec == Init /\ [][Next]_vars

-----------------------------------------------------------------------------
(* A sensor whose start has returned is served by a backend that streams,  *)
(* whatever the other sensor is doing.  Two overlaps break this and are    *)
(* excused: a start during another start, and one after the last stop has  *)
(* emptied callbacks_ and before it is through.                            *)
StartedIsServed ==
  ~crossed => \A s \in started : running /\ backend /\ Key(s) \in callbacks

(* Between calls the backend streams only for a started sensor, or for a   *)
(* callback left behind under a profile: by a failed start, or by a second *)
(* start of the sensor.  Off, it leaves no frame on its way.               *)
UnusedIsOff ==
  (~crossed /\ \A s \in Sensors : pc[s] = "idle") =>
    /\ (backend \/ running) => started \cup (abandoned \cap callbacks) # {}
    /\ ~backend => filtered = <<>> /\ out = Nothing

(* Of every session of the backend the first packets are discarded, and    *)
(* frames are numbered from 1 after them.                                  *)
LeadingDiscarded ==
  ~crossed => \A i \in 1..Len(filtered) : filtered[i].raw = filtered[i].number + Leading
=============================================================================
