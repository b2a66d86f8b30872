-------------------------- MODULE ImuStreamerProofs ---------------------------
(***************************************************************************)
(* Proofs about ImuStreamer, for any sensors, any number of leading        *)
(* packets, tries and starts: what a started sensor finds, what is left on *)
(* when nobody uses the streamer, and which samples come out.              *)
(***************************************************************************)
EXTENDS ImuStreamer, TLAPS

Busy == Starting \cup Stopping

(* What is registered: the profiles of the started sensors and of those in *)
(* the middle of a start, and of the rest only what was abandoned or is    *)
(* about to be unregistered.                                               *)
Registered ==
  /\ \A s \in started : Key(s) \in callbacks
  /\ \A s \in Sensors : pc[s] \in Starting => Key(s) \in callbacks
  /\ \A s \in Sensors : pc[s] # "idle" => s \notin started
  /\ \A k \in callbacks :
       \/ k \in abandoned
       \/ k = Key(k[1]) /\ (k[1] \in started \/ pc[k[1]] \in Starting \cup {"unregister"})

(* Without crossing, one call at a time is between its look at callbacks_  *)
(* and running_ and its end, although nothing locks it.                    *)
Alone == \A s, o \in Sensors : (pc[s] \in Busy /\ pc[o] \in Busy) => s = o

(* What that call and the sensors that are started know of running_ and of *)
(* the backend.  A stop may find a callback to be the last one although    *)
(* nothing runs: the start that registered it had failed.                  *)
Phase(s) ==
  /\ pc[s] \in Stopping => callbacks = {}
  /\ pc[s] \in {"prepare", "try"} => ~running /\ ~backend
  /\ pc[s] = "run" => ~running /\ backend
  /\ pc[s] = "backend_off" => running = backend
  /\ pc[s] \in {"flush", "filters", "not_running"} => running /\ ~backend
  /\ s \in started => running /\ backend

Serving ==
  /\ \A s \in Sensors : Phase(s)
  /\ (\A s \in Sensors : pc[s] \notin Busy) => running = backend
  /\ (running /\ \A s \in Sensors : pc[s] \notin Stopping) => callbacks # {}

Session == ~crossed => Alone /\ Serving

(* A backend that is off has nothing left on its way, but for the call     *)
(* that is flushing it.                                                    *)
Drained ==
  (~crossed /\ ~backend) =>
    /\ (\A s \in Sensors : pc[s] # "flush") => packet = 0
    /\ (\A s \in Sensors : pc[s] \notin {"flush", "filters"}) => filtered = <<>> /\ out = Nothing

(* Of the packets of a session so far, the first went to ignore and the    *)
(* others to frameIndex.                                                   *)
Parsed == IF packet = 0 THEN raw ELSE raw - 1
Counting ==
  ~crossed =>
    /\ (backend \/ packet # 0) =>
         /\ packet \in {0, raw}
         /\ \/ Parsed <= Leading /\ ignore = Leading - Parsed /\ frameIndex = 1
            \/ Parsed > Leading /\ ignore = 0 /\ frameIndex = Parsed - Leading + 1
    /\ \A s \in Sensors : pc[s] = "try" => ignore = Leading /\ frameIndex = 1
    /\ LeadingDiscarded

ImuInv == TypeOK /\ Registered /\ Session /\ Drained /\ Counting

-----------------------------------------------------------------------------
(* What outputFrame and parseIMUData make are frames and outputs.          *)
LEMMA OutputTypes ==
  /\ Nothing \in Outputs
  /\ \A o \in Outputs, S \in SUBSET Keys, L \in SUBSET Keys :
       [frame |-> o.frame, todo |-> S, let |-> L] \in Outputs
  /\ \A o \in Outputs : o.todo \subseteq Keys /\ o.let \subseteq Keys
BY DEF Outputs, Nothing

(* The front of the filter's queue and what is left behind it.             *)
LEMMA QueueTypes ==
  ASSUME NEW q \in Seq(Frames), q # <<>>
  PROVE  /\ Head(q) \in Frames /\ Head(q).for \subseteq Sensors
         /\ Tail(q) \in Seq(Frames) /\ Len(Tail(q)) = Len(q) - 1
         /\ <<Head(q)>> \in Seq(Frames)
<1>1. Head(q) \in Frames
  OBVIOUS
<1> QED BY <1>1 DEF Frames

(* The filter's queue takes a frame if it has room.                        *)
LEMMA AppendTypes ==
  ASSUME NEW q \in Seq(Frames), NEW f \in Frames, NEW n \in Nat, Len(q) <= n,
         NEW r, r = IF Len(q) < n THEN Append(q, f) ELSE q
  PROVE  r \in Seq(Frames) /\ Len(r) <= n
OBVIOUS

(* Every step keeps the types.                                             *)
LEMMA TypeStep ==
  ASSUME TypeOK, [Next]_vars
  PROVE  TypeOK'
<1> USE ImuAssumption DEF TypeOK, StreamState, Starting, Stopping, Frames
<1>1. ASSUME NEW s \in Sensors, NEW p \in Profiles, Start(s, p) PROVE TypeOK'
  <2>1. /\ pc' = [pc EXCEPT ![s] = "set"] /\ profile' = [profile EXCEPT ![s] = p]
        /\ started' = started \ {s} /\ abandoned' = abandoned \cup KeysOf(s)
        /\ starts < MaxStarts /\ starts' = starts + 1
    BY <1>1 DEF Start, Goes
  <2>2. /\ KeysOf(s) \subseteq Keys
        /\ profile' \in [Sensors -> Profiles \cup {NoProfile}]
        /\ \A o \in Sensors :
             pc'[o] \in {"set", "register"} \cup Starting => profile'[o] \in Profiles
    BY <2>1 DEF KeysOf
  <2>3. /\ UNCHANGED <<callbacks, running, ignore, frameIndex, backend, threadVars, tries, crossed>>
        /\ state' = Updated(s, "starting")
    BY <1>1 DEF Start
  <2>4. state' \in [Sensors -> StreamState]
    BY <2>3 DEF Updated
  <2>5. starts' \in 0..MaxStarts /\ started' \subseteq Sensors /\ abandoned' \subseteq Keys
    BY <2>1, <2>2
  <2> QED BY <2>1, <2>2, <2>3, <2>4, <2>5 DEF threadVars
<1>2. ASSUME NEW s \in Sensors, SetProperties(s) PROVE TypeOK'
  BY <1>2 DEF SetProperties, Goes, threadVars, historyVars
<1>3. ASSUME NEW s \in Sensors, Register(s) PROVE TypeOK'
  <2>1. pc[s] = "register" /\ pc' = [pc EXCEPT ![s] = IF running THEN "idle" ELSE "prepare"]
    BY <1>3 DEF Register, Goes
  <2>2. Key(s) \in Keys
    BY <2>1 DEF Key, Keys
  <2> QED BY <1>3, <2>1, <2>2 DEF Register, threadVars, historyVars
<1>4. ASSUME NEW s \in Sensors, Prepare(s) PROVE TypeOK'
  BY <1>4 DEF Prepare, Goes, threadVars, historyVars
<1>5. ASSUME NEW s \in Sensors, StartBackend(s) PROVE TypeOK'
  BY <1>5 DEF StartBackend, Goes, threadVars, historyVars
<1>6. ASSUME NEW s \in Sensors, RetryBackend(s) PROVE TypeOK'
  BY <1>6 DEF RetryBackend, Goes, threadVars, historyVars
<1>7. ASSUME NEW s \in Sensors, StartThrows(s) PROVE TypeOK'
  <2>1. /\ pc[s] = "try" /\ pc' = [pc EXCEPT ![s] = "idle"]
        /\ profile' = [profile EXCEPT ![s] = NoProfile]
    BY <1>7 DEF StartThrows, Goes
  <2>2. Key(s) \in Keys
    BY <2>1 DEF Key, Keys
  <2> QED BY <1>7, <2>1, <2>2 DEF StartThrows, threadVars, historyVars, Updated
<1>8. ASSUME NEW s \in Sensors, Run(s) PROVE TypeOK'
  BY <1>8 DEF Run, Goes, threadVars, historyVars
<1>9. ASSUME NEW s \in Sensors, Stop(s) PROVE TypeOK'
  BY <1>9 DEF Stop, Goes, threadVars, historyVars, Updated
<1>10. ASSUME NEW s \in Sensors, Unregister(s) PROVE TypeOK'
  BY <1>10 DEF Unregister, Goes, threadVars, historyVars
<1>11. ASSUME NEW s \in Sensors, StopBackend(s) PROVE TypeOK'
  BY <1>11 DEF StopBackend, Goes, threadVars, historyVars
<1>12. ASSUME NEW s \in Sensors, BackendStopped(s) PROVE TypeOK'
  BY <1>12 DEF BackendStopped, Goes, threadVars, historyVars
<1>13. ASSUME NEW s \in Sensors, FiltersReset(s) PROVE TypeOK'
  BY <1>13 DEF FiltersReset, Goes, threadVars, historyVars
<1>14. ASSUME NEW s \in Sensors, NotRunning(s) PROVE TypeOK'
  BY <1>14 DEF NotRunning, Goes, threadVars, historyVars
<1>15. ASSUME NEW s \in Sensors, SwitchOff(s) PROVE TypeOK'
  BY <1>15 DEF SwitchOff, Goes, threadVars, historyVars, Updated
<1>16. ASSUME NEW k \in Keys, Refuse(k) PROVE TypeOK'
  <2>1. Done(k) \in Outputs
    BY OutputTypes DEF Done
  <2> QED BY <1>16, <2>1 DEF Refuse, Deliver, historyVars
<1>17. ASSUME NEW k \in Keys, Accept(k) PROVE TypeOK'
  BY <1>17, OutputTypes DEF Accept, Deliver, historyVars
<1>18. ASSUME NEW k \in Keys, Output(k) PROVE TypeOK'
  <2>1. Done(k) \in Outputs
    BY OutputTypes DEF Done
  <2> QED BY <1>18, <2>1 DEF Output, Deliver, historyVars, Updated
<1>19. CASE Arrive
  BY <1>19 DEF Arrive, Deliver, historyVars
<1>20. CASE Discard
  BY <1>20 DEF Discard, Deliver, historyVars
<1>21. CASE Parse
  <2> DEFINE f == [raw |-> packet, number |-> frameIndex, for |-> {k[1] : k \in callbacks}]
  <2>1. filtered' = IF Len(filtered) < FilterSize THEN Append(filtered, f) ELSE filtered
    BY <1>21 DEF Parse
  <2>2. f \in Frames
    BY DEF Keys
  <2> HIDE DEF f
  <2>3. filtered' \in Seq(Frames) /\ Len(filtered') <= FilterSize
    BY <2>1, <2>2, AppendTypes
  <2> QED BY <1>21, <2>3 DEF Parse, Deliver, historyVars
<1>22. CASE OutputFrame
  <2>1. Tail(filtered) \in Seq(Frames) /\ Len(Tail(filtered)) <= FilterSize
    BY <1>22, QueueTypes DEF OutputFrame
  <2>2. out' \in Outputs
    <3> DEFINE todo == {k \in callbacks : k[1] \in Head(filtered).for}
    <3>1. [frame |-> <<Head(filtered)>>, todo |-> todo, let |-> {}] \in Outputs
      BY <1>22, QueueTypes DEF OutputFrame, Outputs
    <3> QED BY <1>22, <3>1, OutputTypes DEF OutputFrame
  <2> QED BY <1>22, <2>1, <2>2 DEF OutputFrame, Deliver, historyVars
<1>23. CASE UNCHANGED vars
  BY <1>23 DEF vars, threadVars, historyVars
<1> QED BY <1>1, <1>2, <1>3, <1>4, <1>5, <1>6, <1>7, <1>8, <1>9, <1>10, <1>11,
         <1>12, <1>13, <1>14, <1>15, <1>16, <1>17, <1>18, <1>19, <1>20, <1>21,
         <1>22, <1>23 DEF Next, Call

(* No sensor has been started yet.                                         *)
LEMMA InitTypes ==
  ASSUME Init
  PROVE  TypeOK
<1>1. /\ filtered \in Seq(Frames) /\ Len(filtered) <= FilterSize
      /\ out \in Outputs
  BY ImuAssumption, OutputTypes DEF Init
<1>2. /\ {running, backend, crossed} \subseteq BOOLEAN
      /\ callbacks \subseteq Keys /\ started \subseteq Sensors /\ abandoned \subseteq Keys
  BY Zenon DEF Init
<1>3. /\ ignore \in 0..Leading /\ frameIndex \in Nat
      /\ packet \in 0..MaxPackets /\ raw \in 0..MaxPackets
      /\ starts \in 0..MaxStarts /\ tries \in [Sensors -> 0..Tries]
  BY ImuAssumption DEF Init
<1>4. /\ state \in [Sensors -> StreamState]
      /\ pc \in [Sensors -> {"idle", "set", "register", "unregister", "switch"}
                              \cup Starting \cup Stopping]
  BY DEF Init, StreamState
<1>5. /\ profile \in [Sensors -> Profiles \cup {NoProfile}]
      /\ \A s \in Sensors : pc[s] \in {"set", "register"} \cup Starting => profile[s] \in Profiles
  BY DEF Init, Starting
<1> QED BY <1>1, <1>2, <1>3, <1>4, <1>5 DEF TypeOK

(* The variables of ImuStreamer keep their types: startStream, stopStream  *)
(* and the packets, for every number of sensors.                           *)
THEOREM TypeCorrect == Spec => []TypeOK
<1>1. Init => TypeOK
  BY InitTypes
<1>2. TypeOK /\ [Next]_vars => TypeOK'
  BY TypeStep
<1> QED BY <1>1, <1>2, PTL DEF Spec

-----------------------------------------------------------------------------
(* A step that concerns one sensor, and leaves that sensor registered when *)
(* it is started or in the middle of a start, and nothing else of it but   *)
(* what is abandoned or about to be unregistered.                          *)
LEMMA RegisteredOne ==
  ASSUME TypeOK, Registered, NEW s \in Sensors,
         \A o \in Sensors : o # s =>
           pc'[o] = pc[o] /\ profile'[o] = profile[o] /\ (o \in started' <=> o \in started),
         callbacks' \subseteq Keys,
         \A k \in Keys : k[1] # s =>
           (k \in callbacks' <=> k \in callbacks) /\ (k \in abandoned => k \in abandoned'),
         s \in started' \/ pc'[s] \in Starting => <<s, profile'[s]>> \in callbacks',
         pc'[s] # "idle" => s \notin started',
         started' \subseteq Sensors,
         \A k \in callbacks' : k[1] = s =>
           \/ k \in abandoned'
           \/ /\ k = <<s, profile'[s]>>
              /\ s \in started' \/ pc'[s] \in Starting \cup {"unregister"}
  PROVE  Registered'
<1>1. ASSUME NEW o \in Sensors, o # s, o \in started \/ pc[o] \in Starting
      PROVE  <<o, profile'[o]>> \in callbacks'
  <2>1. <<o, profile[o]>> \in callbacks
    BY <1>1 DEF Registered, Key
  <2>2. <<o, profile[o]>> \in Keys /\ <<o, profile[o]>>[1] = o
    BY <2>1 DEF TypeOK
  <2> QED BY <1>1, <2>1, <2>2
<1>2. ASSUME NEW o \in Sensors, o \in started' \/ pc'[o] \in Starting
      PROVE  <<o, profile'[o]>> \in callbacks'
  BY <1>1, <1>2
<1>3. \A o \in Sensors : pc'[o] # "idle" => o \notin started'
  BY DEF Registered
<1>4. ASSUME NEW k \in callbacks'
      PROVE  \/ k \in abandoned'
             \/ /\ k = <<k[1], profile'[k[1]]>>
                /\ k[1] \in started' \/ pc'[k[1]] \in Starting \cup {"unregister"}
  <2>1. k \in Keys /\ k[1] \in Sensors
    BY <1>4 DEF Keys
  <2>2. CASE k[1] = s
    BY <1>4, <2>2
  <2>3. CASE k[1] # s
    <3>1. k \in callbacks
      BY <1>4, <2>1, <2>3
    <3>2. \/ k \in abandoned
          \/ /\ k = <<k[1], profile[k[1]]>>
             /\ k[1] \in started \/ pc[k[1]] \in Starting \cup {"unregister"}
      BY <3>1 DEF Registered, Key
    <3> QED BY <2>1, <2>3, <3>2
  <2> QED BY <2>2, <2>3
<1> QED BY <1>2, <1>3, <1>4 DEF Registered, Key

(* A step that registers nothing and takes nobody in or out of a start.    *)
LEMMA RegisteredStays ==
  ASSUME TypeOK, Registered,
         UNCHANGED <<profile, callbacks, started, abandoned>>,
         \A s \in Sensors :
           /\ pc'[s] \in Starting <=> pc[s] \in Starting
           /\ pc[s] = "unregister" => pc'[s] = "unregister"
           /\ pc[s] = "idle" => pc'[s] = "idle"
  PROVE  Registered'
<1>1. \A s \in Sensors : pc'[s] # "idle" => s \notin started
  BY DEF Registered
<1>2. \A s \in Sensors : pc'[s] \in Starting => Key(s) \in callbacks
  BY DEF Registered
<1>3. \A k \in callbacks : k[1] \in Sensors
  BY DEF TypeOK, Keys
<1>4. \A k \in callbacks :
        \/ k \in abandoned
        \/ /\ k = Key(k[1])
           /\ k[1] \in started \/ pc'[k[1]] \in Starting \cup {"unregister"}
  BY <1>3 DEF Registered
<1>5. \A s \in started : Key(s) \in callbacks
  BY DEF Registered
<1> QED BY <1>1, <1>2, <1>4, <1>5 DEF Registered, Key

(* Only unregistering takes an entry of callbacks_ away, the one of the    *)
(* sensor's last profile; the entry of another is abandoned.               *)
LEMMA RegisteredStep ==
  ASSUME TypeOK, Registered, [Next]_vars
  PROVE  Registered'
<1> USE DEF Starting, Stopping
<1>0. /\ pc \in [Sensors -> {"idle", "set", "register", "unregister", "switch"}
                            \cup Starting \cup Stopping]
      /\ profile \in [Sensors -> Profiles \cup {NoProfile}]
      /\ callbacks \subseteq Keys /\ started \subseteq Sensors /\ abandoned \subseteq Keys
      /\ \A s \in Sensors : pc[s] \in {"set", "register"} \cup Starting => Key(s) \in Keys
      /\ \A k \in Keys : k[1] \in Sensors
  BY DEF TypeOK, Keys, Key
<1>1. ASSUME NEW s \in Sensors, NEW p \in Profiles, Start(s, p) PROVE Registered'
  <2>1. /\ pc' = [pc EXCEPT ![s] = "set"] /\ profile' = [profile EXCEPT ![s] = p]
        /\ started' = started \ {s} /\ callbacks' = callbacks
        /\ abandoned' = abandoned \cup {k \in callbacks : k[1] = s}
    BY <1>1 DEF Start, Goes, KeysOf
  <2> QED BY <1>0, <2>1, RegisteredOne
<1>2. ASSUME NEW s \in Sensors, Register(s) PROVE Registered'
  <2>1. /\ pc' = [pc EXCEPT ![s] = IF running THEN "idle" ELSE "prepare"] /\ profile' = profile
        /\ started' = IF running THEN started \cup {s} ELSE started
        /\ callbacks' = callbacks \cup {Key(s)} /\ abandoned' = abandoned \ {Key(s)}
        /\ pc[s] = "register"
    BY <1>2 DEF Register, Goes
  <2>2. Key(s) \in Keys /\ Key(s) = <<s, profile[s]>> /\ Key(s)[1] = s
    BY <1>0, <2>1 DEF Key
  <2>3. s \notin started
    BY <2>1 DEF Registered
  <2>4. ASSUME NEW k \in callbacks', k[1] = s
        PROVE  \/ k \in abandoned'
               \/ /\ k = <<s, profile'[s]>>
                  /\ s \in started' \/ pc'[s] \in Starting \cup {"unregister"}
    <3>1. CASE k = Key(s)
      BY <1>0, <2>1, <2>2, <3>1
    <3>2. CASE k # Key(s)
      BY <1>0, <2>1, <2>3, <2>4, <3>2 DEF Registered
    <3> QED BY <3>1, <3>2
  <2>5. \A k \in Keys : k[1] # s => k # Key(s)
    BY <2>2
  <2>6. s \in started' \/ pc'[s] \in Starting => <<s, profile'[s]>> \in callbacks'
    BY <2>1, <2>2
  <2>7. pc'[s] # "idle" => s \notin started'
    BY <1>0, <2>1, <2>3
  <2>8. callbacks' \subseteq Keys /\ started' \subseteq Sensors
    BY <1>0, <2>1, <2>2
  <2>9. /\ \A o \in Sensors : o # s =>
             pc'[o] = pc[o] /\ profile'[o] = profile[o] /\ (o \in started' <=> o \in started)
        /\ \A k \in Keys : k[1] # s =>
             (k \in callbacks' <=> k \in callbacks) /\ (k \in abandoned => k \in abandoned')
    BY <1>0, <2>1, <2>5
  <2> QED BY <2>4, <2>6, <2>7, <2>8, <2>9, RegisteredOne
<1>3. ASSUME NEW s \in Sensors, StartThrows(s) PROVE Registered'
  <2>1. /\ pc' = [pc EXCEPT ![s] = "idle"] /\ profile' = [profile EXCEPT ![s] = NoProfile]
        /\ UNCHANGED <<started, callbacks>> /\ abandoned' = abandoned \cup {Key(s)}
        /\ pc[s] = "try"
    BY <1>3 DEF StartThrows, Goes
  <2>2. s \notin started
    BY <2>1 DEF Registered
  <2>3. \A k \in callbacks : k[1] = s => k \in abandoned'
    BY <2>1 DEF Registered
  <2> QED BY <1>0, <2>1, <2>2, <2>3, RegisteredOne
<1>4. ASSUME NEW s \in Sensors, Run(s) PROVE Registered'
  <2>1. /\ pc' = [pc EXCEPT ![s] = "idle"] /\ UNCHANGED <<profile, callbacks, abandoned>>
        /\ started' = started \cup {s} /\ pc[s] = "run"
    BY <1>4 DEF Run, Goes
  <2>2. <<s, profile[s]>> \in callbacks
    BY <2>1 DEF Registered, Key
  <2>3. \A k \in callbacks : k[1] = s => k \in abandoned \/ k = <<s, profile[s]>>
    BY DEF Registered, Key
  <2> QED BY <1>0, <2>1, <2>2, <2>3, RegisteredOne
<1>5. ASSUME NEW s \in Sensors, Stop(s) PROVE Registered'
  <2>1. /\ pc' = [pc EXCEPT ![s] = "unregister"] /\ UNCHANGED <<profile, callbacks, abandoned>>
        /\ started' = started \ {s}
    BY <1>5 DEF Stop, Goes
  <2>2. \A k \in callbacks : k[1] = s => k \in abandoned \/ k = <<s, profile[s]>>
    BY DEF Registered, Key
  <2>3. \A o \in Sensors : o # s =>
          pc'[o] = pc[o] /\ profile'[o] = profile[o] /\ (o \in started' <=> o \in started)
    BY <1>0, <2>1
  <2>4. /\ callbacks' \subseteq Keys /\ started' \subseteq Sensors
        /\ \A k \in Keys : k[1] # s =>
             (k \in callbacks' <=> k \in callbacks) /\ (k \in abandoned => k \in abandoned')
    BY <1>0, <2>1
  <2>5. pc'[s] = "unregister" /\ s \notin started' /\ profile'[s] = profile[s]
    BY <1>0, <2>1
  <2>6. \A k \in callbacks' : k[1] = s => k \in abandoned' \/ k = <<s, profile'[s]>>
    BY <2>1, <2>2, <2>5
  <2> QED BY <2>3, <2>4, <2>5, <2>6, RegisteredOne
<1>6. ASSUME NEW s \in Sensors, Unregister(s) PROVE Registered'
  <2>1. /\ UNCHANGED <<profile, abandoned, started>> /\ callbacks' = callbacks \ {Key(s)}
        /\ pc[s] = "unregister" /\ pc'[s] \notin Starting
        /\ \A o \in Sensors : o # s => pc'[o] = pc[o]
    BY <1>0, <1>6 DEF Unregister, Goes, historyVars
  <2>2. s \notin started
    BY <2>1 DEF Registered
  <2>3. \A k \in callbacks' : k[1] = s => k \in abandoned
    BY <2>1 DEF Registered
  <2>4. \A k \in Keys : k[1] # s => k # Key(s)
    BY DEF Key
  <2> QED BY <1>0, <2>1, <2>2, <2>3, <2>4, RegisteredOne
<1>7. ASSUME NEW s \in Sensors,
             \/ SetProperties(s) \/ Prepare(s) \/ StartBackend(s) \/ RetryBackend(s)
             \/ StopBackend(s) \/ BackendStopped(s) \/ FiltersReset(s) \/ NotRunning(s)
             \/ SwitchOff(s)
      PROVE  Registered'
  BY <1>0, <1>7, RegisteredStays
     DEF SetProperties, Prepare, StartBackend, RetryBackend, StopBackend, BackendStopped,
         FiltersReset, NotRunning, SwitchOff, Goes, historyVars
<1>8. ASSUME NEW k \in Keys, Refuse(k) \/ Accept(k) \/ Output(k) PROVE Registered'
  BY <1>8, RegisteredStays DEF Refuse, Accept, Output, Deliver, historyVars
<1>9. CASE Arrive \/ Discard \/ Parse \/ OutputFrame
  BY <1>9, RegisteredStays DEF Arrive, Discard, Parse, OutputFrame, Deliver, historyVars
<1>10. CASE UNCHANGED vars
  BY <1>10, RegisteredStays DEF vars, historyVars
<1> QED BY <1>1, <1>2, <1>3, <1>4, <1>5, <1>6, <1>7, <1>8, <1>9, <1>10 DEF Next, Call

(* A second call gets between the look and the end of the first only by    *)
(* registering, which sets crossed; a last stop leaves nobody registered   *)
(* that could stop as well.                                                *)
LEMMA SessionStep ==
  ASSUME TypeOK, Registered, Session, [Next]_vars
  PROVE  Session'
<1> USE DEF TypeOK, Registered, Session, Alone, Serving, Phase, Busy, Starting, Stopping
<1>1. ASSUME NEW s \in Sensors, NEW p \in Profiles, Start(s, p) PROVE Session'
  BY <1>1 DEF Start, Goes, threadVars, historyVars
<1>2. ASSUME NEW s \in Sensors, SetProperties(s) PROVE Session'
  BY <1>2 DEF SetProperties, Goes, threadVars, historyVars
<1>3. ASSUME NEW s \in Sensors, Register(s) PROVE Session'
  <2> SUFFICES ASSUME ~crossed' PROVE Alone' /\ Serving'
    OBVIOUS
  <2>1. ~crossed /\ pc[s] = "register" /\ pc'[s] = IF running THEN "idle" ELSE "prepare"
    BY <1>3 DEF Register, Goes, historyVars
  <2>2. ASSUME NEW o \in Sensors \ {s} PROVE pc[o] \notin Busy /\ pc'[o] = pc[o]
    <3>1. pc' = [pc EXCEPT ![s] = IF running THEN "idle" ELSE "prepare"]
          /\ crossed' = (crossed \/ \E u \in Sensors \ {s} : pc[u] \in Starting \cup Stopping)
      BY <1>3 DEF Register, Goes
    <3>2. pc'[o] = pc[o]
      BY <3>1
    <3>3. ~ \E u \in Sensors \ {s} : pc[u] \in Starting \cup Stopping
      BY <3>1
    <3> QED BY <3>2, <3>3
  <2>3. running = backend
    BY <2>1, <2>2
  <2>4. Key(s)' \in callbacks' /\ profile' = profile /\ running' = running /\ backend' = backend
       /\ started' = IF running THEN started \cup {s} ELSE started
    BY <1>3, <2>3 DEF Register, Key, threadVars, historyVars
  <2>5. Alone'
    BY <2>2
  <2>6. Phase(s)'
    BY <2>1, <2>3, <2>4
  <2>7. ASSUME NEW o \in Sensors \ {s} PROVE Phase(o)'
    BY <2>1, <2>2, <2>3, <2>4, <2>7
  <2>8. (\A o \in Sensors : pc'[o] \notin Busy) => running' = backend'
    BY <2>1, <2>3, <2>4
  <2>9. (running' /\ \A o \in Sensors : pc'[o] \notin Stopping) => callbacks' # {}
    BY <2>1, <2>3, <2>4
  <2> QED BY <2>5, <2>6, <2>7, <2>8, <2>9
<1>4. ASSUME NEW s \in Sensors, Prepare(s) PROVE Session'
  BY <1>4 DEF Prepare, Goes, threadVars, historyVars
<1>5. ASSUME NEW s \in Sensors, StartBackend(s) PROVE Session'
  <2> SUFFICES ASSUME ~crossed' PROVE Alone' /\ Serving'
    OBVIOUS
  <2>1. ~crossed /\ pc[s] = "try" /\ pc'[s] = "run"
    BY <1>5 DEF StartBackend, Goes, historyVars
  <2>2. ASSUME NEW o \in Sensors \ {s} PROVE pc[o] \notin Busy /\ pc'[o] = pc[o]
    BY <1>5, <2>1 DEF StartBackend, Goes, historyVars
  <2>3. ~running /\ s \notin started
    BY <2>1, <2>2
  <2>4. ~running' /\ backend' /\ callbacks' = callbacks /\ started' = started
    BY <1>5, <2>3 DEF StartBackend, threadVars, historyVars
  <2>5. Alone'
    BY <2>2
  <2>6. Phase(s)'
    BY <2>1, <2>3, <2>4
  <2>7. ASSUME NEW o \in Sensors \ {s} PROVE Phase(o)'
    BY <2>1, <2>2, <2>3, <2>4, <2>7
  <2>8. (\A o \in Sensors : pc'[o] \notin Busy) => running' = backend'
    BY <2>1, <2>3, <2>4
  <2>9. (running' /\ \A o \in Sensors : pc'[o] \notin Stopping) => callbacks' # {}
    BY <2>1, <2>3, <2>4
  <2> QED BY <2>5, <2>6, <2>7, <2>8, <2>9
<1>6. ASSUME NEW s \in Sensors, RetryBackend(s) PROVE Session'
  BY <1>6 DEF RetryBackend, Goes, threadVars, historyVars
<1>7. ASSUME NEW s \in Sensors, StartThrows(s) PROVE Session'
  BY <1>7 DEF StartThrows, Goes, threadVars, historyVars
<1>8. ASSUME NEW s \in Sensors, Run(s) PROVE Session'
  <2> SUFFICES ASSUME ~crossed' PROVE Alone' /\ Serving'
    OBVIOUS
  <2>1. ~crossed /\ pc[s] = "run" /\ pc'[s] = "idle"
    BY <1>8 DEF Run, Goes, historyVars
  <2>2. ASSUME NEW o \in Sensors \ {s} PROVE pc[o] \notin Busy /\ pc'[o] = pc[o]
    BY <1>8, <2>1 DEF Run, Goes, historyVars
  <2>3. backend /\ Key(s) \in callbacks
    BY <2>1, <2>2
  <2>4. running' /\ backend' /\ callbacks' = callbacks /\ started' = started \cup {s}
    BY <1>8, <2>3 DEF Run, threadVars, historyVars
  <2>5. Alone'
    BY <2>2
  <2>6. Phase(s)'
    BY <2>1, <2>3, <2>4
  <2>7. ASSUME NEW o \in Sensors \ {s} PROVE Phase(o)'
    BY <2>1, <2>2, <2>3, <2>4, <2>7
  <2>8. (\A o \in Sensors : pc'[o] \notin Busy) => running' = backend'
    BY <2>1, <2>3, <2>4
  <2>9. (running' /\ \A o \in Sensors : pc'[o] \notin Stopping) => callbacks' # {}
    BY <2>1, <2>3, <2>4
  <2> QED BY <2>5, <2>6, <2>7, <2>8, <2>9
<1>9. ASSUME NEW s \in Sensors, Stop(s) PROVE Session'
  BY <1>9 DEF Stop, Goes, threadVars, historyVars
<1>10. ASSUME NEW s \in Sensors, Unregister(s) PROVE Session'
  <2> SUFFICES ASSUME ~crossed' PROVE Alone' /\ Serving'
    OBVIOUS
  <2>1. /\ ~crossed /\ UNCHANGED <<running, backend, started>> /\ pc[s] = "unregister"
        /\ callbacks' = callbacks \ {Key(s)}
        /\ \/ Key(s) \notin callbacks /\ pc'[s] = "idle"
           \/ callbacks = {Key(s)} /\ pc'[s] = "backend_off"
           \/ Key(s) \in callbacks /\ callbacks # {Key(s)} /\ pc'[s] = "switch"
        /\ \A o \in Sensors : o # s => pc'[o] = pc[o]
    BY <1>10 DEF Unregister, Goes, threadVars, historyVars
  <2>2. Alone /\ Serving
    BY <2>1
  <2>3. CASE Key(s) \notin callbacks
    <3>1. callbacks' = callbacks /\ pc'[s] = "idle"
      BY <2>1, <2>3
    <3>2. \A o \in Sensors : Phase(o)'
      BY <2>1, <2>2, <3>1
    <3>3. Alone'
      BY <2>1, <2>2, <3>1
    <3>4. Serving'
      BY <2>1, <2>2, <3>1, <3>2
    <3> QED BY <3>3, <3>4
  <2>4. CASE callbacks = {Key(s)}
    <3>1. callbacks' = {} /\ pc'[s] = "backend_off"
      BY <2>1, <2>4
    <3>2. ASSUME NEW o \in Sensors, o # s PROVE pc[o] \notin Busy
      <4>1. pc[o] \notin Stopping
        BY <2>2, <2>4
      <4>2. pc[o] \notin Starting
        BY <2>4, <3>2 DEF Key
      <4> QED BY <4>1, <4>2
    <3>3. running = backend /\ started = {}
      <4>1. running = backend
        BY <2>1, <2>2, <3>2
      <4>2. ASSUME NEW o \in started PROVE FALSE
        BY <2>1, <2>4, <4>2 DEF Key
      <4> QED BY <4>1, <4>2
    <3>4. Alone'
      BY <2>1, <3>2
    <3>5. \A o \in Sensors : Phase(o)'
      BY <2>1, <3>1, <3>2, <3>3
    <3> QED BY <3>1, <3>4, <3>5
  <2>5. CASE Key(s) \in callbacks /\ callbacks # {Key(s)}
    <3>1. callbacks' # {} /\ pc'[s] = "switch"
      BY <2>1, <2>5
    <3>2. \A o \in Sensors : Phase(o)'
      BY <2>1, <2>2, <2>5, <3>1
    <3> QED BY <2>1, <2>2, <3>1, <3>2
  <2> QED BY <2>3, <2>4, <2>5
<1>11. ASSUME NEW s \in Sensors, StopBackend(s) PROVE Session'
  <2> SUFFICES ASSUME ~crossed' PROVE Alone' /\ Serving'
    OBVIOUS
  <2>1. /\ ~crossed /\ UNCHANGED <<running, callbacks, started>> /\ ~backend'
        /\ pc[s] = "backend_off" /\ pc'[s] = IF backend THEN "flush" ELSE "idle"
        /\ \A o \in Sensors : o # s => pc'[o] = pc[o]
    BY <1>11 DEF StopBackend, Goes, threadVars, historyVars
  <2>2. /\ running = backend /\ callbacks = {} /\ started = {}
        /\ \A o \in Sensors : o # s => pc[o] \notin Busy
    BY <2>1
  <2>3. Alone'
    BY <2>1, <2>2
  <2>4. \A o \in Sensors : Phase(o)'
    BY <2>1, <2>2
  <2>5. running => pc'[s] \in Stopping
    BY <2>1, <2>2
  <2>6. (\A o \in Sensors : pc'[o] \notin Busy) => running' = backend'
    <3>1. running \in BOOLEAN /\ backend' = FALSE /\ running' = running
      BY <1>11, <2>1 DEF StopBackend
    <3> QED BY <2>5, <3>1
  <2>7. (running' /\ \A o \in Sensors : pc'[o] \notin Stopping) => callbacks' # {}
    BY <2>1, <2>5
  <2> QED BY <2>3, <2>4, <2>6, <2>7
<1>12. ASSUME NEW s \in Sensors, BackendStopped(s) PROVE Session'
  BY <1>12 DEF BackendStopped, Goes, threadVars, historyVars
<1>13. ASSUME NEW s \in Sensors, FiltersReset(s) PROVE Session'
  BY <1>13 DEF FiltersReset, Goes, threadVars, historyVars
<1>14. ASSUME NEW s \in Sensors, NotRunning(s) PROVE Session'
  <2> SUFFICES ASSUME ~crossed' PROVE Alone' /\ Serving'
    OBVIOUS
  <2>1. ~crossed /\ pc[s] = "not_running" /\ pc'[s] = "switch"
    BY <1>14 DEF NotRunning, Goes, historyVars
  <2>2. ASSUME NEW o \in Sensors \ {s} PROVE pc[o] \notin Busy /\ pc'[o] = pc[o]
    BY <1>14, <2>1 DEF NotRunning, Goes, historyVars
  <2>3. backend = FALSE /\ callbacks = {} /\ started = {}
    BY <2>1, <2>2
  <2>4. running' = FALSE /\ backend' = FALSE /\ callbacks' = {} /\ started' = {}
    BY <1>14, <2>3 DEF NotRunning, threadVars, historyVars
  <2>5. Alone'
    BY <2>2
  <2>6. Phase(s)'
    BY <2>1, <2>3, <2>4
  <2>7. ASSUME NEW o \in Sensors \ {s} PROVE Phase(o)'
    BY <2>1, <2>2, <2>3, <2>4, <2>7
  <2>8. (\A o \in Sensors : pc'[o] \notin Busy) => running' = backend'
    BY <2>1, <2>3, <2>4
  <2>9. (running' /\ \A o \in Sensors : pc'[o] \notin Stopping) => callbacks' # {}
    BY <2>1, <2>3, <2>4
  <2> QED BY <2>5, <2>6, <2>7, <2>8, <2>9
<1>15. ASSUME NEW s \in Sensors, SwitchOff(s) PROVE Session'
  BY <1>15 DEF SwitchOff, Goes, threadVars, historyVars
<1>16. ASSUME NEW k \in Keys, Refuse(k) PROVE Session'
  BY <1>16 DEF Refuse, Deliver, historyVars
<1>17. ASSUME NEW k \in Keys, Accept(k) PROVE Session'
  BY <1>17 DEF Accept, Deliver, historyVars
<1>18. ASSUME NEW k \in Keys, Output(k) PROVE Session'
  BY <1>18 DEF Output, Deliver, historyVars
<1>19. CASE Arrive
  BY <1>19 DEF Arrive, Deliver, historyVars
<1>20. CASE Discard
  BY <1>20 DEF Discard, Deliver, historyVars
<1>21. CASE Parse
  BY <1>21 DEF Parse, Deliver, historyVars
<1>22. CASE OutputFrame
  BY <1>22 DEF OutputFrame, Deliver, historyVars
<1>23. CASE UNCHANGED vars
  BY <1>23 DEF vars, threadVars, historyVars
<1> QED BY <1>1, <1>2, <1>3, <1>4, <1>5, <1>6, <1>7, <1>8, <1>9, <1>10, <1>11,
         <1>12, <1>13, <1>14, <1>15, <1>16, <1>17, <1>18, <1>19, <1>20, <1>21,
         <1>22, <1>23 DEF Next, Call

(* The stop of the backend waits for the packet, and the reset of the      *)
(* filters for the frames.                                                 *)
LEMMA DrainedStep ==
  ASSUME TypeOK, Session, Drained, [Next]_vars
  PROVE  Drained'
<1> USE DEF TypeOK, Session, Alone, Serving, Phase, Drained, Busy, Starting, Stopping
<1>1. ASSUME NEW s \in Sensors, NEW p \in Profiles, Start(s, p) PROVE Drained'
  BY <1>1 DEF Start, Goes, threadVars, historyVars
<1>2. ASSUME NEW s \in Sensors, SetProperties(s) PROVE Drained'
  BY <1>2 DEF SetProperties, Goes, threadVars, historyVars
<1>3. ASSUME NEW s \in Sensors, Register(s) PROVE Drained'
  BY <1>3 DEF Register, Goes, threadVars, historyVars
<1>4. ASSUME NEW s \in Sensors, Prepare(s) PROVE Drained'
  BY <1>4 DEF Prepare, Goes, threadVars, historyVars
<1>5. ASSUME NEW s \in Sensors, StartBackend(s) PROVE Drained'
  BY <1>5 DEF StartBackend, Goes, threadVars, historyVars
<1>6. ASSUME NEW s \in Sensors, RetryBackend(s) PROVE Drained'
  BY <1>6 DEF RetryBackend, Goes, threadVars, historyVars
<1>7. ASSUME NEW s \in Sensors, StartThrows(s) PROVE Drained'
  BY <1>7 DEF StartThrows, Goes, threadVars, historyVars
<1>8. ASSUME NEW s \in Sensors, Run(s) PROVE Drained'
  BY <1>8 DEF Run, Goes, threadVars, historyVars
<1>9. ASSUME NEW s \in Sensors, Stop(s) PROVE Drained'
  BY <1>9 DEF Stop, Goes, threadVars, historyVars
<1>10. ASSUME NEW s \in Sensors, Unregister(s) PROVE Drained'
  BY <1>10 DEF Unregister, Goes, threadVars, historyVars
<1>11. ASSUME NEW s \in Sensors, StopBackend(s) PROVE Drained'
  BY <1>11 DEF StopBackend, Goes, threadVars, historyVars
<1>12. ASSUME NEW s \in Sensors, BackendStopped(s) PROVE Drained'
  BY <1>12 DEF BackendStopped, Goes, threadVars, historyVars
<1>13. ASSUME NEW s \in Sensors, FiltersReset(s) PROVE Drained'
  BY <1>13 DEF FiltersReset, Goes, threadVars, historyVars
<1>14. ASSUME NEW s \in Sensors, NotRunning(s) PROVE Drained'
  BY <1>14 DEF NotRunning, Goes, threadVars, historyVars
<1>15. ASSUME NEW s \in Sensors, SwitchOff(s) PROVE Drained'
  BY <1>15 DEF SwitchOff, Goes, threadVars, historyVars
<1>16. ASSUME NEW k \in Keys, Refuse(k) PROVE Drained'
  BY <1>16 DEF Refuse, Deliver, historyVars, Done, Nothing
<1>17. ASSUME NEW k \in Keys, Accept(k) PROVE Drained'
  BY <1>17 DEF Accept, Deliver, historyVars, Done, Nothing
<1>18. ASSUME NEW k \in Keys, Output(k) PROVE Drained'
  BY <1>18 DEF Output, Deliver, historyVars, Done, Nothing
<1>19. CASE Arrive
  BY <1>19 DEF Arrive, Deliver, historyVars
<1>20. CASE Discard
  BY <1>20 DEF Discard, Deliver, historyVars
<1>21. CASE Parse
  BY <1>21 DEF Parse, Deliver, historyVars
<1>22. CASE OutputFrame
  BY <1>22 DEF OutputFrame, Deliver, historyVars, Done, Nothing
<1>23. CASE UNCHANGED vars
  BY <1>23 DEF vars, threadVars, historyVars
<1> QED BY <1>1, <1>2, <1>3, <1>4, <1>5, <1>6, <1>7, <1>8, <1>9, <1>10, <1>11,
         <1>12, <1>13, <1>14, <1>15, <1>16, <1>17, <1>18, <1>19, <1>20, <1>21,
         <1>22, <1>23 DEF Next, Call

(* Prepare sets the counts while the backend is off and drained; from then *)
(* on every packet moves one of them.                                      *)
LEMMA CountingStep ==
  ASSUME TypeOK, Session, Drained, Counting, [Next]_vars
  PROVE  Counting'
<1> USE ImuAssumption DEF TypeOK, Session, Alone, Serving, Phase, Drained, Busy, Counting, Parsed,
                          LeadingDiscarded, Starting, Stopping
<1>1. ASSUME NEW s \in Sensors, NEW p \in Profiles, Start(s, p) PROVE Counting'
  BY <1>1 DEF Start, Goes, threadVars, historyVars
<1>2. ASSUME NEW s \in Sensors, SetProperties(s) PROVE Counting'
  BY <1>2 DEF SetProperties, Goes, threadVars, historyVars
<1>3. ASSUME NEW s \in Sensors, Register(s) PROVE Counting'
  BY <1>3 DEF Register, Goes, threadVars, historyVars
<1>4. ASSUME NEW s \in Sensors, Prepare(s) PROVE Counting'
  BY <1>4 DEF Prepare, Goes, threadVars, historyVars
<1>5. ASSUME NEW s \in Sensors, StartBackend(s) PROVE Counting'
  BY <1>5 DEF StartBackend, Goes, threadVars, historyVars
<1>6. ASSUME NEW s \in Sensors, RetryBackend(s) PROVE Counting'
  BY <1>6 DEF RetryBackend, Goes, threadVars, historyVars
<1>7. ASSUME NEW s \in Sensors, StartThrows(s) PROVE Counting'
  BY <1>7 DEF StartThrows, Goes, threadVars, historyVars
<1>8. ASSUME NEW s \in Sensors, Run(s) PROVE Counting'
  BY <1>8 DEF Run, Goes, threadVars, historyVars
<1>9. ASSUME NEW s \in Sensors, Stop(s) PROVE Counting'
  BY <1>9 DEF Stop, Goes, threadVars, historyVars
<1>10. ASSUME NEW s \in Sensors, Unregister(s) PROVE Counting'
  BY <1>10 DEF Unregister, Goes, threadVars, historyVars
<1>11. ASSUME NEW s \in Sensors, StopBackend(s) PROVE Counting'
  BY <1>11 DEF StopBackend, Goes, threadVars, historyVars
<1>12. ASSUME NEW s \in Sensors, BackendStopped(s) PROVE Counting'
  BY <1>12 DEF BackendStopped, Goes, threadVars, historyVars
<1>13. ASSUME NEW s \in Sensors, FiltersReset(s) PROVE Counting'
  BY <1>13 DEF FiltersReset, Goes, threadVars, historyVars
<1>14. ASSUME NEW s \in Sensors, NotRunning(s) PROVE Counting'
  BY <1>14 DEF NotRunning, Goes, threadVars, historyVars
<1>15. ASSUME NEW s \in Sensors, SwitchOff(s) PROVE Counting'
  BY <1>15 DEF SwitchOff, Goes, threadVars, historyVars
<1>16. ASSUME NEW k \in Keys, Refuse(k) PROVE Counting'
  BY <1>16 DEF Refuse, Deliver, historyVars
<1>17. ASSUME NEW k \in Keys, Accept(k) PROVE Counting'
  BY <1>17 DEF Accept, Deliver, historyVars
<1>18. ASSUME NEW k \in Keys, Output(k) PROVE Counting'
  BY <1>18 DEF Output, Deliver, historyVars
<1>19. CASE Arrive
  BY <1>19 DEF Arrive, Deliver, historyVars
<1>20. CASE Discard
  BY <1>20 DEF Discard, Deliver, historyVars
<1>21. CASE Parse
  <2> DEFINE f == [raw |-> packet, number |-> frameIndex, for |-> {k[1] : k \in callbacks}]
  <2> SUFFICES ASSUME ~crossed' PROVE Counting'
    OBVIOUS
  <2>1. ~crossed /\ packet # 0 /\ ignore = 0 /\ packet' = 0 /\ frameIndex' = frameIndex + 1
    BY <1>21 DEF Parse, Deliver, historyVars
  <2>2. packet = raw /\ packet = frameIndex + Leading
    BY <2>1
  <2>3. (packet' = 0 /\ Parsed' = raw /\ Parsed' > Leading /\ ignore' = 0
           /\ frameIndex' = Parsed' - Leading + 1)
    BY <1>21, <2>1, <2>2, SMTT(30) DEF Parse
  <2>4. \A s \in Sensors : pc'[s] # "try"
    BY <1>21, <2>1 DEF Parse, Deliver
  <2>5. LeadingDiscarded'
    <3>1. filtered' = IF Len(filtered) < FilterSize THEN Append(filtered, f) ELSE filtered
      BY <1>21 DEF Parse
    <3>2. f.raw = f.number + Leading
      BY <2>2
    <3> QED BY <2>1, <3>1, <3>2
  <2> QED BY <2>3, <2>4, <2>5
<1>22. CASE OutputFrame
  BY <1>22 DEF OutputFrame, Deliver, historyVars
<1>23. CASE UNCHANGED vars
  BY <1>23 DEF vars, threadVars, historyVars
<1> QED BY <1>1, <1>2, <1>3, <1>4, <1>5, <1>6, <1>7, <1>8, <1>9, <1>10, <1>11,
         <1>12, <1>13, <1>14, <1>15, <1>16, <1>17, <1>18, <1>19, <1>20, <1>21,
         <1>22, <1>23 DEF Next, Call

-----------------------------------------------------------------------------
(* Nobody is registered, and nothing is on its way.                        *)
LEMMA InitInv ==
  ASSUME Init
  PROVE  ImuInv
<1>1. Registered
  BY DEF Init, Registered, Starting
<1>2. \A s \in Sensors : pc[s] \notin Busy
  BY DEF Init, Busy, Starting, Stopping
<1>3. Session
  BY <1>1, <1>2 DEF Init, Session, Alone, Serving, Phase, Busy, Starting, Stopping
<1>4. Drained
  BY DEF Init, Drained
<1>5. Counting
  <2>1. \A s \in Sensors : pc[s] # "try"
    BY DEF Init
  <2>2. ~backend /\ packet = 0 /\ Len(filtered) = 0
    BY DEF Init
  <2> QED BY <2>1, <2>2 DEF Counting, LeadingDiscarded
<1> QED BY <1>1, <1>3, <1>4, <1>5, InitTypes DEF ImuInv

(* The inductive invariant of the streamer.                                *)
THEOREM ImuInvHolds == Spec => []ImuInv
<1>1. Init => ImuInv
  BY InitInv
<1>2. ImuInv /\ [Next]_vars => ImuInv'
  BY TypeStep, RegisteredStep, SessionStep, DrainedStep, CountingStep DEF ImuInv
<1> QED BY <1>1, <1>2, PTL DEF Spec

(* A sensor whose start has returned is registered and has a backend that  *)
(* streams, unless two calls have crossed (ImuStreamer.cpp, 62-122).       *)
THEOREM StartedIsServedHolds == Spec => []StartedIsServed
<1>1. ImuInv => StartedIsServed
  BY DEF ImuInv, TypeOK, Registered, Session, Serving, Phase, StartedIsServed
<1> QED BY <1>1, ImuInvHolds, PTL

(* Between calls the backend is on for somebody who is registered, and off *)
(* with nothing left in the filter (ImuStreamer.cpp, 98-122).              *)
THEOREM UnusedIsOffHolds == Spec => []UnusedIsOff
<1>1. ImuInv => UnusedIsOff
  <2> SUFFICES ASSUME ImuInv, ~crossed, \A s \in Sensors : pc[s] = "idle"
               PROVE  /\ (backend \/ running) => started \cup (abandoned \cap callbacks) # {}
                      /\ ~backend => filtered = <<>> /\ out = Nothing
    BY DEF UnusedIsOff
  <2>1. \A s \in Sensors : pc[s] \notin Busy
    BY DEF Busy, Starting, Stopping
  <2>2. running = backend
    BY <2>1 DEF ImuInv, Session, Serving
  <2>3. ASSUME running PROVE started \cup (abandoned \cap callbacks) # {}
    <3>1. callbacks # {}
      BY <2>1, <2>3 DEF ImuInv, Session, Serving, Busy
    <3>2. PICK k \in callbacks : TRUE
      BY <3>1
    <3>3. k[1] \in Sensors
      BY <3>2 DEF ImuInv, TypeOK, Keys
    <3>4. k \in abandoned \/ k[1] \in started
      BY <3>2, <3>3 DEF ImuInv, Registered, Starting
    <3> QED BY <3>2, <3>4
  <2>4. ~backend => filtered = <<>> /\ out = Nothing
    BY DEF ImuInv, Drained
  <2> QED BY <2>2, <2>3, <2>4
<1> QED BY <1>1, ImuInvHolds, PTL

(* The first packets of every session of the backend are discarded, and    *)
(* the frames after them numbered from 1 (ImuStreamer.cpp, 70-75, 148-162).*)
THEOREM LeadingDiscardedHolds == Spec => []LeadingDiscarded
<1>1. ImuInv => LeadingDiscarded
  BY DEF ImuInv, Counting, LeadingDiscarded
<1> QED BY <1>1, ImuInvHolds, PTL
=============================================================================
