---------------------------- MODULE DeviceProofs -----------------------------
(***************************************************************************)
(* Proofs about three parts of a device that have no state in common, each *)
(* for every value of its constants.                                       *)
(*   SensorStream     a video sensor: restarts are bounded and keep the    *)
(*                    user's stream, and without recovery the state tells  *)
(*                    what the backend does                                *)
(*   GlobalTimestamp  the clock fit: it is of enough samples and of one    *)
(*                    clock                                                *)
(*   DeviceHotplug    the USB devices: one active device a port, and none  *)
(*                    that has gone                                        *)
(***************************************************************************)
EXTENDS SensorStream, GlobalTimestamp, DeviceHotplug, SequenceTheorems, TLAPS

Restarting == {"stop", "clear", "start", "count"}
ExpectsFrames == streamState \in {"starting", "streaming"}

(* Every change of the state that counts wakes a watcher that waits, so    *)
(* that one that still waits has the state it went to sleep with.          *)
Watching ==
  /\ watcher = "starting_wait" => streamState = "starting"
  /\ watcher = "streaming_wait" => streamState = "streaming"

(* recoveryCount_ is at least the number of restarts since the last sign   *)
(* of life, except on the way back to the loop after it was woken, when    *)
(* there have been none, or the stream expects no frames.                  *)
Counted ==
  /\ RestartsAreBounded
  /\ watcher \in Restarting => recoveryCount < MaxRecovery
  /\ watcher \in {"decided", "stop", "clear", "start"} => tries <= recoveryCount
  /\ watcher = "count" => tries <= recoveryCount + 1
  /\ watcher \in {"woken", "starting_woken"} /\ ExpectsFrames => tries = 0
  /\ watcher \in {"check", "to_sleep", "asleep", "starting_wait", "streaming_wait"}
       /\ ExpectsFrames => tries <= recoveryCount

(* Profile and callback come and go together.  Once a stream is started    *)
(* they are there, but for the moment between restartStream's stop and     *)
(* start, which then has copies of both.                                   *)
Kept ==
  /\ profile # "none" <=> callback
  /\ watcher \in {"stop", "clear", "start"} => saved.profile # "none" /\ saved.callback
  /\ (stream = "on" \/ user = "starting") /\ watcher # "start" => profile # "none"

(* Without a watcher, the place of the user in a call tells the state; the *)
(* backend streams when the state says so, and after a stopped or failed   *)
(* stream only with a mishap, when a late frame can still change the state.*)
GoesOn == backend /\ mishap \cap {"started_twice", "stop_failed"} # {}

Phase ==
  watcher = "none" =>
    /\ user = "idle" =>
         \/ /\ ExpectsFrames /\ profile # "none"
            /\ backend \/ "unknown_profile" \in mishap
         \/ streamState \in {"stopped", "start_failed"} /\ (backend => GoesOn)
         \/ ExpectsFrames /\ GoesOn
    /\ user \in {"starting", "waiting", "stopping"} => ExpectsFrames
    /\ user \in {"backend", "stopped"} => streamState = "stopping"
    /\ user \in {"stopped", "clear"} /\ backend => GoesOn
    /\ user = "clear" => streamState = "stopped" \/ (ExpectsFrames /\ GoesOn)

SensorInv == TypeOK /\ Watching /\ Counted /\ Kept /\ Phase

-----------------------------------------------------------------------------
(* Every step keeps the types; that a restart is begun only below the      *)
(* limit keeps recoveryCount_ within it.                                   *)
LEMMA TypeStep ==
  ASSUME TypeOK, Counted, [Next]_vars
  PROVE  TypeOK'
<1>0. MaxRecovery \in Nat /\ MaxStarts \in Nat
  BY SensorAssumption
<1> USE <1>0 DEF TypeOK, StreamState, Profile, UserState, WatcherState, Counted,
     Restarting, sensorVars, recoveryVars, userVars
<1>1. CASE Start
  BY <1>1 DEF Start, BeginStart, UpdateStreamState, Suppressed, Woken
<1>2. CASE Stop
  BY <1>2 DEF Stop, IsStreamActivated
<1>3. CASE StartBackend
  <2>1. mishap' \in Mishaps
    BY <1>3 DEF StartBackend, Mishaps
  <2> QED BY <1>3, <2>1 DEF StartBackend
<1>4. CASE StartBackendThrows
  <2>1. mishap' \in Mishaps
    BY <1>4 DEF StartBackendThrows, Mishaps
  <2> QED BY <1>4, <2>1 DEF StartBackendThrows, UpdateStreamState, Suppressed, Woken
<1>5. CASE StopWait
  BY <1>5 DEF StopWait, StopMove
<1>6. CASE StopStopping
  BY <1>6 DEF StopStopping, StopMove, UpdateStreamState, Suppressed, Woken
<1>7. CASE StopBackend
  <2>1. backend' \in BOOLEAN /\ inFlight' \in BOOLEAN /\ (inFlight' => backend')
    BY <1>7 DEF StopBackend, StreamOff
  <2>2. /\ user' = "stopped" /\ UNCHANGED <<recoveryVars, starts>>
        /\ UNCHANGED <<streamState, watcher, profile, callback, stream>>
    BY <1>7 DEF StopBackend, StopMove
  <2>3. mishap' \in Mishaps
    BY <1>7 DEF StopBackend, Mishaps
  <2> QED BY <2>1, <2>2, <2>3
<1>8. CASE StopStopped
  BY <1>8 DEF StopStopped, StopMove, UpdateStreamState, Suppressed, Woken
<1>9. CASE StopClear
  BY <1>9 DEF StopClear, StopMove
<1>10. CASE FrameArrives
  BY <1>10 DEF FrameArrives
<1>11. CASE FrameUpdates
  <2>1. streamState' \in StreamState /\ watcher' \in WatcherState
    BY <1>11 DEF FrameUpdates, UpdateStreamState, Suppressed, Woken
  <2>2. onRecovering' <=> watcher' \in {"stop", "clear", "start", "count"}
    BY <1>11 DEF FrameUpdates, UpdateStreamState, Suppressed, Woken
  <2>3. inFlight' \in BOOLEAN /\ (inFlight' => backend') /\ tries' \in Nat
    BY <1>11 DEF FrameUpdates
  <2> QED BY <1>11, <2>1, <2>2, <2>3 DEF FrameUpdates
<1>12. CASE Check
  BY <1>12 DEF Check, WatcherMove
<1>13. CASE Sleep
  BY <1>13 DEF Sleep, WatcherMove
<1>14. CASE WakeUp
  BY <1>14 DEF WakeUp, WatcherMove
<1>15. CASE StartingWaitEnds
  <2>1. /\ watcher \in {"starting_wait", "starting_woken"} /\ watcher' \in {"decided", "check"}
        /\ recoveryCount' \in {recoveryCount, 0}
        /\ UNCHANGED <<sensorVars, onRecovering, recoverer, saved, tries, streamState, userVars>>
    BY <1>15 DEF StartingWaitEnds, WaitEnds, WatcherMove
  <2>2. recoveryCount' \in 0..MaxRecovery
    BY <2>1
  <2> QED BY <2>1, <2>2
<1>16. CASE StreamingTimesOut
  BY <1>16 DEF StreamingTimesOut, WaitEnds, WatcherMove
<1>17. CASE GiveUp
  BY <1>17 DEF GiveUp, Suppressed
<1>18. CASE BeginRestart
  <2>1. saved' \in Saved
    BY <1>18 DEF BeginRestart, Saved
  <2> QED BY <1>18, <2>1 DEF BeginRestart, WatcherMove
<1>19. CASE RestartStop
  <2>1. backend' \in BOOLEAN /\ inFlight' \in BOOLEAN /\ (inFlight' => backend')
    <3>1. StreamOff \/ UNCHANGED <<backend, inFlight>>
      BY <1>19 DEF RestartStop
    <3>2. CASE StreamOff
      BY <3>2 DEF StreamOff
    <3>3. CASE UNCHANGED <<backend, inFlight>>
      BY <3>3
    <3> QED BY <3>1, <3>2, <3>3
  <2>2. /\ watcher = "stop" /\ watcher' \in {"clear", "start"}
        /\ UNCHANGED <<profile, callback, recoveryVars, streamState, userVars>>
    BY <1>19 DEF RestartStop, WatcherMove
  <2> QED BY <2>1, <2>2
<1>20. CASE RestartClear
  BY <1>20 DEF RestartClear, WatcherMove
<1>21. CASE RestartStart
  <2>1. backend' \in BOOLEAN /\ (inFlight' => backend')
    BY <1>21 DEF RestartStart, Restarted, WatcherMove
  <2>2. onRecovering' <=> watcher' \in {"stop", "clear", "start", "count"}
    BY <1>21 DEF RestartStart, WatcherMove
  <2>3. profile' \in Profile /\ callback' \in BOOLEAN
    BY <1>21 DEF RestartStart, Saved
  <2>4. /\ watcher' = "count" /\ tries' = tries + 1
        /\ UNCHANGED <<inFlight, onRecovering, recoverer, recoveryCount, saved, streamState,
                       userVars>>
    BY <1>21 DEF RestartStart, WatcherMove
  <2> QED BY <2>1, <2>2, <2>3, <2>4
<1>22. CASE EndRestart
  <2>1. recoveryCount' \in 0..MaxRecovery
    BY <1>22 DEF EndRestart, WatcherMove
  <2>2. onRecovering' \in BOOLEAN /\ recoverer' = onRecovering'
    BY <1>22 DEF EndRestart
  <2>3. onRecovering' <=> watcher' \in {"stop", "clear", "start", "count"}
    BY <1>22 DEF EndRestart, WatcherMove
  <2> QED BY <1>22, <2>1, <2>2, <2>3 DEF EndRestart, WatcherMove
<1>23. CASE UNCHANGED vars
  BY <1>23 DEF vars
<1>24. CASE StartUnknown
  <2>1. mishap' \in Mishaps
    BY <1>24 DEF StartUnknown, Mishaps
  <2> QED BY <1>24, <2>1 DEF StartUnknown, BeginStart, UpdateStreamState, Suppressed, Woken
<1>25. CASE StopBackendThrows
  <2>1. mishap' \in Mishaps
    BY <1>25 DEF StopBackendThrows, Mishaps
  <2> QED BY <1>25, <2>1 DEF StopBackendThrows, StopMove
<1> QED BY <1>1, <1>2, <1>3, <1>4, <1>5, <1>6, <1>7, <1>8, <1>9, <1>10, <1>11,
     <1>12, <1>13, <1>14, <1>15, <1>16, <1>17, <1>18, <1>19, <1>20, <1>21,
     <1>22, <1>23, <1>24, <1>25 DEF Next, User, Watcher

(* A change of the state wakes a watcher that waits for its end.           *)
LEMMA WatchingStep ==
  ASSUME TypeOK, Watching, [Next]_vars
  PROVE  Watching'
<1> USE  DEF TypeOK, StreamState, Profile, UserState, WatcherState, Watching,
     sensorVars, recoveryVars, userVars
<1>1. CASE Start
  BY <1>1 DEF Start, BeginStart, UpdateStreamState, Suppressed, Woken
<1>2. CASE Stop
  BY <1>2 DEF Stop, IsStreamActivated
<1>3. CASE StartBackend
  BY <1>3 DEF StartBackend
<1>4. CASE StartBackendThrows
  BY <1>4 DEF StartBackendThrows, UpdateStreamState, Suppressed, Woken
<1>5. CASE StopWait
  BY <1>5 DEF StopWait, StopMove
<1>6. CASE StopStopping
  BY <1>6 DEF StopStopping, StopMove, UpdateStreamState, Suppressed, Woken
<1>7. CASE StopBackend
  BY <1>7 DEF StopBackend, StopMove, StreamOff
<1>8. CASE StopStopped
  BY <1>8 DEF StopStopped, StopMove, UpdateStreamState, Suppressed, Woken
<1>9. CASE StopClear
  BY <1>9 DEF StopClear, StopMove
<1>10. CASE FrameArrives
  BY <1>10 DEF FrameArrives
<1>11. CASE FrameUpdates
  BY <1>11 DEF FrameUpdates, UpdateStreamState, Suppressed, Woken
<1>12. CASE Check
  BY <1>12 DEF Check, WatcherMove
<1>13. CASE Sleep
  BY <1>13 DEF Sleep, WatcherMove
<1>14. CASE WakeUp
  BY <1>14 DEF WakeUp, WatcherMove
<1>15. CASE StartingWaitEnds
  BY <1>15 DEF StartingWaitEnds, WaitEnds, WatcherMove
<1>16. CASE StreamingTimesOut
  BY <1>16 DEF StreamingTimesOut, WaitEnds, WatcherMove
<1>17. CASE GiveUp
  BY <1>17 DEF GiveUp, Suppressed
<1>18. CASE BeginRestart
  BY <1>18 DEF BeginRestart, WatcherMove
<1>19. CASE RestartStop
  BY <1>19 DEF RestartStop, WatcherMove, StreamOff
<1>20. CASE RestartClear
  BY <1>20 DEF RestartClear, WatcherMove
<1>21. CASE RestartStart
  BY <1>21 DEF RestartStart, Restarted, WatcherMove
<1>22. CASE EndRestart
  BY <1>22 DEF EndRestart, WatcherMove
<1>23. CASE UNCHANGED vars
  BY <1>23 DEF vars
<1>24. CASE StartUnknown
  BY <1>24 DEF StartUnknown, BeginStart, UpdateStreamState, Suppressed, Woken
<1>25. CASE StopBackendThrows
  BY <1>25 DEF StopBackendThrows, StopMove
<1> QED BY <1>1, <1>2, <1>3, <1>4, <1>5, <1>6, <1>7, <1>8, <1>9, <1>10, <1>11,
     <1>12, <1>13, <1>14, <1>15, <1>16, <1>17, <1>18, <1>19, <1>20, <1>21,
     <1>22, <1>23, <1>24, <1>25 DEF Next, User, Watcher

(* Whatever lets the watcher count from zero again has also brought a      *)
(* frame, or a start, or has ended the stream.                             *)
LEMMA CountedStep ==
  ASSUME TypeOK, Watching, Counted, [Next]_vars
  PROVE  Counted'
<1>0. MaxRecovery \in Nat /\ MaxStarts \in Nat
  BY SensorAssumption
<1> USE <1>0 DEF TypeOK, StreamState, Profile, UserState, WatcherState, Watching,
     Counted, Restarting, ExpectsFrames, RestartsAreBounded, sensorVars,
     recoveryVars, userVars
<1>1. CASE Start
  BY <1>1 DEF Start, BeginStart, UpdateStreamState, Suppressed, Woken
<1>2. CASE Stop
  BY <1>2 DEF Stop, IsStreamActivated
<1>3. CASE StartBackend
  BY <1>3 DEF StartBackend
<1>4. CASE StartBackendThrows
  BY <1>4 DEF StartBackendThrows, UpdateStreamState, Suppressed, Woken
<1>5. CASE StopWait
  BY <1>5 DEF StopWait, StopMove
<1>6. CASE StopStopping
  BY <1>6 DEF StopStopping, StopMove, UpdateStreamState, Suppressed, Woken
<1>7. CASE StopBackend
  BY <1>7 DEF StopBackend, StopMove, StreamOff
<1>8. CASE StopStopped
  BY <1>8 DEF StopStopped, StopMove, UpdateStreamState, Suppressed, Woken
<1>9. CASE StopClear
  BY <1>9 DEF StopClear, StopMove
<1>10. CASE FrameArrives
  BY <1>10 DEF FrameArrives
<1>11. CASE FrameUpdates
  BY <1>11 DEF FrameUpdates, UpdateStreamState, Suppressed, Woken
<1>12. CASE Check
  BY <1>12 DEF Check, WatcherMove
<1>13. CASE Sleep
  BY <1>13 DEF Sleep, WatcherMove
<1>14. CASE WakeUp
  BY <1>14 DEF WakeUp, WatcherMove
<1>15. CASE StartingWaitEnds
  BY <1>15 DEF StartingWaitEnds, WaitEnds, WatcherMove
<1>16. CASE StreamingTimesOut
  BY <1>16 DEF StreamingTimesOut, WaitEnds, WatcherMove
<1>17. CASE GiveUp
  BY <1>17 DEF GiveUp, Suppressed
<1>18. CASE BeginRestart
  BY <1>18 DEF BeginRestart, WatcherMove
<1>19. CASE RestartStop
  BY <1>19 DEF RestartStop, WatcherMove, StreamOff
<1>20. CASE RestartClear
  BY <1>20 DEF RestartClear, WatcherMove
<1>21. CASE RestartStart
  BY <1>21 DEF RestartStart, Restarted, WatcherMove
<1>22. CASE EndRestart
  BY <1>22 DEF EndRestart, WatcherMove
<1>23. CASE UNCHANGED vars
  BY <1>23 DEF vars
<1>24. CASE StartUnknown
  BY <1>24 DEF StartUnknown, BeginStart, UpdateStreamState, Suppressed, Woken
<1>25. CASE StopBackendThrows
  BY <1>25 DEF StopBackendThrows, StopMove
<1> QED BY <1>1, <1>2, <1>3, <1>4, <1>5, <1>6, <1>7, <1>8, <1>9, <1>10, <1>11,
     <1>12, <1>13, <1>14, <1>15, <1>16, <1>17, <1>18, <1>19, <1>20, <1>21,
     <1>22, <1>23, <1>24, <1>25 DEF Next, User, Watcher

(* A restart puts back what it took away, from a copy taken before.        *)
LEMMA KeptStep ==
  ASSUME TypeOK, Kept, [Next]_vars
  PROVE  Kept'
<1> USE  DEF TypeOK, StreamState, Profile, UserState, WatcherState, Kept, sensorVars,
     recoveryVars, userVars
<1>1. CASE Start
  BY <1>1 DEF Start, BeginStart, UpdateStreamState, Suppressed, Woken
<1>2. CASE Stop
  BY <1>2 DEF Stop, IsStreamActivated
<1>3. CASE StartBackend
  BY <1>3 DEF StartBackend
<1>4. CASE StartBackendThrows
  BY <1>4 DEF StartBackendThrows, UpdateStreamState, Suppressed, Woken
<1>5. CASE StopWait
  BY <1>5 DEF StopWait, StopMove
<1>6. CASE StopStopping
  BY <1>6 DEF StopStopping, StopMove, UpdateStreamState, Suppressed, Woken
<1>7. CASE StopBackend
  BY <1>7 DEF StopBackend, StopMove, StreamOff
<1>8. CASE StopStopped
  BY <1>8 DEF StopStopped, StopMove, UpdateStreamState, Suppressed, Woken
<1>9. CASE StopClear
  BY <1>9 DEF StopClear, StopMove
<1>10. CASE FrameArrives
  BY <1>10 DEF FrameArrives
<1>11. CASE FrameUpdates
  BY <1>11 DEF FrameUpdates, UpdateStreamState, Suppressed, Woken
<1>12. CASE Check
  BY <1>12 DEF Check, WatcherMove
<1>13. CASE Sleep
  BY <1>13 DEF Sleep, WatcherMove
<1>14. CASE WakeUp
  BY <1>14 DEF WakeUp, WatcherMove
<1>15. CASE StartingWaitEnds
  BY <1>15 DEF StartingWaitEnds, WaitEnds, WatcherMove
<1>16. CASE StreamingTimesOut
  BY <1>16 DEF StreamingTimesOut, WaitEnds, WatcherMove
<1>17. CASE GiveUp
  BY <1>17 DEF GiveUp, Suppressed
<1>18. CASE BeginRestart
  BY <1>18 DEF BeginRestart, WatcherMove
<1>19. CASE RestartStop
  BY <1>19 DEF RestartStop, WatcherMove, StreamOff
<1>20. CASE RestartClear
  BY <1>20 DEF RestartClear, WatcherMove
<1>21. CASE RestartStart
  BY <1>21 DEF RestartStart, Restarted, WatcherMove
<1>22. CASE EndRestart
  BY <1>22 DEF EndRestart, WatcherMove
<1>23. CASE UNCHANGED vars
  BY <1>23 DEF vars
<1>24. CASE StartUnknown
  BY <1>24 DEF StartUnknown, BeginStart, UpdateStreamState, Suppressed, Woken
<1>25. CASE StopBackendThrows
  BY <1>25 DEF StopBackendThrows, StopMove
<1> QED BY <1>1, <1>2, <1>3, <1>4, <1>5, <1>6, <1>7, <1>8, <1>9, <1>10, <1>11,
     <1>12, <1>13, <1>14, <1>15, <1>16, <1>17, <1>18, <1>19, <1>20, <1>21,
     <1>22, <1>23, <1>24, <1>25 DEF Next, User, Watcher

(* The calls of the user, without a watcher.                               *)
LEMMA PhaseStep ==
  ASSUME TypeOK, Kept, Phase, [Next]_vars
  PROVE  Phase'
<1> USE  DEF TypeOK, StreamState, Profile, UserState, WatcherState, Kept, Phase,
     GoesOn, ExpectsFrames, sensorVars, recoveryVars, userVars
<1>1. CASE Start
  BY <1>1 DEF Start, BeginStart, UpdateStreamState, Suppressed, Woken
<1>2. CASE Stop
  BY <1>2 DEF Stop, IsStreamActivated
<1>3. CASE StartBackend
  BY <1>3 DEF StartBackend
<1>4. CASE StartBackendThrows
  BY <1>4 DEF StartBackendThrows, UpdateStreamState, Suppressed, Woken
<1>5. CASE StopWait
  BY <1>5 DEF StopWait, StopMove
<1>6. CASE StopStopping
  BY <1>6 DEF StopStopping, StopMove, UpdateStreamState, Suppressed, Woken
<1>7. CASE StopBackend
  BY <1>7 DEF StopBackend, StopMove, StreamOff
<1>8. CASE StopStopped
  BY <1>8 DEF StopStopped, StopMove, UpdateStreamState, Suppressed, Woken
<1>9. CASE StopClear
  BY <1>9 DEF StopClear, StopMove
<1>10. CASE FrameArrives
  BY <1>10 DEF FrameArrives
<1>11. CASE FrameUpdates
  BY <1>11 DEF FrameUpdates, UpdateStreamState, Suppressed, Woken
<1>12. CASE Check
  BY <1>12 DEF Check, WatcherMove
<1>13. CASE Sleep
  BY <1>13 DEF Sleep, WatcherMove
<1>14. CASE WakeUp
  BY <1>14 DEF WakeUp, WatcherMove
<1>15. CASE StartingWaitEnds
  BY <1>15 DEF StartingWaitEnds, WaitEnds, WatcherMove
<1>16. CASE StreamingTimesOut
  BY <1>16 DEF StreamingTimesOut, WaitEnds, WatcherMove
<1>17. CASE GiveUp
  BY <1>17 DEF GiveUp, Suppressed
<1>18. CASE BeginRestart
  BY <1>18 DEF BeginRestart, WatcherMove
<1>19. CASE RestartStop
  BY <1>19 DEF RestartStop, WatcherMove, StreamOff
<1>20. CASE RestartClear
  BY <1>20 DEF RestartClear, WatcherMove
<1>21. CASE RestartStart
  BY <1>21 DEF RestartStart, Restarted, WatcherMove
<1>22. CASE EndRestart
  BY <1>22 DEF EndRestart, WatcherMove
<1>23. CASE UNCHANGED vars
  BY <1>23 DEF vars
<1>24. CASE StartUnknown
  BY <1>24 DEF StartUnknown, BeginStart, UpdateStreamState, Suppressed, Woken
<1>25. CASE StopBackendThrows
  BY <1>25 DEF StopBackendThrows, StopMove
<1> QED BY <1>1, <1>2, <1>3, <1>4, <1>5, <1>6, <1>7, <1>8, <1>9, <1>10, <1>11,
     <1>12, <1>13, <1>14, <1>15, <1>16, <1>17, <1>18, <1>19, <1>20, <1>21,
     <1>22, <1>23, <1>24, <1>25 DEF Next, User, Watcher

-----------------------------------------------------------------------------
(* A sensor nobody has started, with or without a watcher.                 *)
LEMMA InitInv ==
  ASSUME Init
  PROVE  SensorInv
<1>1. MaxRecovery \in Nat /\ MaxStarts \in Nat
  BY SensorAssumption
<1>2. watcher \in {"check", "none"}
  BY DEF Init
<1>3. TypeOK
  <2>1. recoveryCount \in 0..MaxRecovery /\ starts \in 0..MaxStarts /\ tries \in Nat
    BY <1>1 DEF Init
  <2>2. onRecovering = FALSE /\ recoverer = FALSE
    BY DEF Init
  <2>3. watcher \notin {"stop", "clear", "start", "count"} /\ watcher \in WatcherState
    BY <1>2 DEF WatcherState
  <2>4. /\ profile \in Profile /\ callback = FALSE /\ backend = FALSE
        /\ inFlight = FALSE /\ saved \in Saved
        /\ mishap = {} /\ mishap \in Mishaps
    BY DEF Init, Profile, Saved, Mishaps
  <2>5. streamState \in StreamState /\ user \in UserState /\ stream \in {"on", "off", "failed"}
    BY DEF Init, StreamState, UserState
  <2> QED BY <2>1, <2>2, <2>3, <2>4, <2>5 DEF TypeOK
<1>4. Watching /\ Counted
  BY <1>1, <1>2 DEF Init, Watching, Counted, RestartsAreBounded, Restarting, ExpectsFrames
<1>5. Kept /\ Phase
  BY <1>2 DEF Init, Kept, Phase
<1> QED BY <1>3, <1>4, <1>5 DEF SensorInv

(* The inductive invariant of the sensor's stream.                         *)
THEOREM SensorInvHolds == Spec => []SensorInv
<1>1. Init => SensorInv
  BY InitInv
<1>2. SensorInv /\ [Next]_vars => SensorInv'
  BY TypeStep, WatchingStep, CountedStep, KeptStep, PhaseStep DEF SensorInv
<1> QED BY <1>1, <1>2, PTL DEF Spec

(* No thread leaves the ranges of its variables; a frame is only on its    *)
(* way while the backend streams (SensorBase.cpp, onRecovering_ and        *)
(* streamRecoverMutex_).                                                   *)
THEOREM TypeCorrect == Spec => []TypeOK
<1>1. SensorInv => TypeOK
  BY DEF SensorInv
<1> QED BY <1>1, SensorInvHolds, PTL

(* A stream without frames is not restarted more than maxRecoveryCount_    *)
(* times since its last frame or start (SensorBase.cpp, watchStreamState). *)
THEOREM RestartsAreBoundedHolds == Spec => []RestartsAreBounded
<1>1. SensorInv => RestartsAreBounded
  BY DEF SensorInv, Counted
<1> QED BY <1>1, SensorInvHolds, PTL

(* A restart, even one whose start throws, keeps the profile and the       *)
(* callback of the user's stream (SensorBase::restartStream).              *)
THEOREM RestartKeepsStreamHolds == Spec => []RestartKeepsStream
<1>1. SensorInv => RestartKeepsStream
  BY DEF SensorInv, TypeOK, Kept, RestartKeepsStream
<1> QED BY <1>1, SensorInvHolds, PTL

(* Without recovery, between calls, the state says that the sensor streams *)
(* only if the backend does, and the backend streams only with a state     *)
(* that says so, a profile and a callback; what an unknown profile, a      *)
(* second start and a failing stopStream leave behind is excepted          *)
(* (VideoSensor::start and stop, onBackendFrameCallback).                  *)
THEOREM StateTellsBackendHolds == Spec => []StateTellsBackend
<1>1. SensorInv => StateTellsBackend
  BY DEF SensorInv, TypeOK, Kept, Phase, GoesOn, ExpectsFrames, IsStreamActivated,
     StateTellsBackend
<1> QED BY <1>1, SensorInvHolds, PTL

-----------------------------------------------------------------------------
(* GlobalTimestamp.                                                        *)
(* The loop belongs to the enabled fit, or to the caller that joins it.    *)
Switching ==
  /\ calling[Switcher] \in {"join", "drop"} => ~enable
  /\ calling[Switcher] = "drop" => loop = "none"
  /\ ~enable /\ calling[Switcher] # "join" => loop = "none"

Disabled == ~enable /\ calling[Switcher] \notin {"join", "drop"}
Sampling == enable \/ loop \notin {"none", "ended"} \/ Ensuring

(* The samples in the queue are of one clock: of the device's, unless its  *)
(* jump still waits for its refit or nobody will use them.                 *)
Samples ==
  ~crossed =>
    /\ \A i, j \in DOMAIN queue : queue[i] = queue[j]
    /\ Sampling /\ ~Pending => \A i \in DOMAIN queue : queue[i] = clock
    /\ loop = "push" => sample = clock /\ ~Pending
    /\ Disabled => queue = <<>> /\ ~Ensuring

Sound(f) == f.enough /\ \E x \in Clocks : f.clocks = {x}

(* Whoever is about to calculate finds enough of them.                     *)
Sums ==
  ~crossed =>
    /\ loop = "calc" => Enough(queue)
    /\ \A c \in Callers : calling[c] = "calc" => Enough(queue)
    /\ \A t \in Threads : At(t) = "publish" => Sound(sum[t])
    /\ fit # NoFit => Sound(fit)

ClockInv == FitTypeOK /\ Switching /\ Samples /\ Sums

-----------------------------------------------------------------------------
(* The loop is not a caller, and what a step pushes is a sample.           *)
LEMMA ClockFacts ==
  /\ Loop \notin Callers /\ Switcher \in Callers /\ Threads = Callers \cup {Loop}
  /\ Refill \in Nat /\ MinSamples \in Nat /\ 2 <= MinSamples /\ MaxQueue \in Nat
  /\ MaxSwitches \in Nat /\ NoFit \in Fits
BY TimestampAssumption DEF Threads, Loop, NoFit, Fits

(* What is summed up is of some clocks.                                    *)
LEMMA SumTypes ==
  ASSUME NEW q \in Seq(Clocks)
  PROVE  [enough |-> Len(q) >= MinSamples, clocks |-> {q[i] : i \in 1..Len(q)}] \in Fits
BY DEF Fits

(* A push leaves a sequence of samples.                                    *)
LEMMA PushedTypes ==
  ASSUME NEW q \in Seq(Clocks), NEW x \in Clocks
  PROVE  Pushed(q, x) \in Seq(Clocks)
<1>1. CASE Len(q) > MaxQueue
  <2>1. q # <<>> /\ Len(q) \in Nat
    BY <1>1, ClockFacts, EmptySeq
  <2>2. Tail(q) \in Seq(Clocks)
    BY <2>1, HeadTailProperties
  <2>3. Append(Tail(q), x) \in Seq(Clocks) /\ <<x>> \in Seq(Clocks)
    BY <2>2, AppendProperties
  <2> QED BY <1>1, <2>3 DEF Pushed, Shortened
<1>2. CASE ~(Len(q) > MaxQueue)
  <2>1. Append(q, x) \in Seq(Clocks) /\ <<x>> \in Seq(Clocks)
    BY AppendProperties
  <2> QED BY <1>2, <2>1 DEF Pushed, Shortened
<1> QED BY <1>1, <1>2

(* Every step keeps the types.                                             *)
LEMMA ClockTypes ==
  ASSUME FitTypeOK, [FitNext]_fitVars
  PROVE  FitTypeOK'
<1> USE ClockFacts, TimestampAssumption DEF FitTypeOK, Places, deviceVars, switchVars,
        queueVars, callerVars
<1>1. CASE LoopReads
  BY <1>1 DEF LoopReads, Goes, At, Served
<1>2. CASE LoopReadsNothing
  BY <1>2 DEF LoopReadsNothing, Goes, At
<1>3. CASE LoopPushes
  <2>1. queue' \in Seq(Clocks)
    BY <1>3, PushedTypes DEF LoopPushes, FitTypeOK
  <2> QED BY <1>3, <2>1 DEF LoopPushes, Goes, At
<1>4. CASE LoopSkips
  BY <1>4 DEF LoopSkips, Skip, Goes, At
<1>5. CASE LoopSums
  <2>1. loop' = "publish" /\ need' = FALSE
    BY <1>5 DEF LoopSums, Sum, Goes, At
  <2>2. sum' \in [Threads -> Fits]
    BY <1>5, SumTypes DEF LoopSums, Sum
  <2>3. UNCHANGED <<deviceVars, switchVars, queue, calling, fills, calc, lock,
                    server, fit, sample, crossed>>
    BY <1>5 DEF LoopSums, Sum, Goes, At
  <2> QED BY <2>1, <2>2, <2>3
<1>6. CASE LoopPublishes
  BY <1>6 DEF LoopPublishes, Publish, Goes, At
<1>7. CASE LoopWaits
  BY <1>7 DEF LoopWaits, Goes, At, Tested
<1>8. CASE LoopTests
  BY <1>8 DEF LoopTests, Goes, At, Tested
<1>9. CASE Enable
  BY <1>9 DEF Enable
<1>10. CASE Disable
  <2>1. calling' \in [Callers -> Places] /\ loop' = loop
    BY <1>10 DEF Disable, Goes, At
  <2>2. enable' \in BOOLEAN /\ exit' \in BOOLEAN
    BY <1>10 DEF Disable, Exits
  <2>3. switches' \in 0..MaxSwitches
    BY <1>10 DEF Disable
  <2>4. UNCHANGED <<deviceVars, queueVars, fills, calc, lock, server, fit,
                    sample, sum, crossed>>
    BY <1>10 DEF Disable
  <2> QED BY <2>1, <2>2, <2>3, <2>4
<1>11. CASE Joined
  BY <1>11 DEF Joined
<1>12. CASE Drop
  <2>1. calling' \in [Callers -> Places] /\ loop' = loop
    BY <1>12 DEF Drop, Goes, At
  <2>2. queue' \in Seq(Clocks)
    BY <1>12, EmptySeq DEF Drop
  <2>3. crossed' \in BOOLEAN
    BY <1>12 DEF Drop, Ensuring
  <2>4. UNCHANGED <<deviceVars, switchVars, need, fills, calc, lock, server, fit,
                    sample, sum>>
    BY <1>12 DEF Drop
  <2> QED BY <2>1, <2>2, <2>3, <2>4
<1>13. ASSUME NEW c \in Callers, Reset(c) PROVE FitTypeOK'
  BY <1>13 DEF Reset, Jump, Goes, At
<1>14. ASSUME NEW c \in Callers, SyncWithHost(c) PROVE FitTypeOK'
  BY <1>14 DEF SyncWithHost, Jump, Goes, At
<1>15. ASSUME NEW c \in Callers, RefitDisabled(c) PROVE FitTypeOK'
  BY <1>15 DEF RefitDisabled, Released, Goes, At
<1>16. ASSUME NEW c \in Callers, Clear(c) PROVE FitTypeOK'
  <2>1. calling' \in [Callers -> Places] /\ loop' = loop
    BY <1>16 DEF Clear, Goes, At
  <2>2. queue' \in Seq(Clocks) /\ need' \in BOOLEAN
    BY <1>16, EmptySeq DEF Clear
  <2>3. crossed' \in BOOLEAN
    BY <1>16 DEF Clear, Ensuring
  <2>4. UNCHANGED <<deviceVars, switchVars, fills, calc, lock, server, fit,
                    sample, sum>>
    BY <1>16 DEF Clear
  <2> QED BY <2>1, <2>2, <2>3, <2>4
<1>17. ASSUME NEW c \in Callers, EnsureLocks(c) PROVE FitTypeOK'
  BY <1>17 DEF EnsureLocks, Goes, At
<1>18. ASSUME NEW c \in Callers, Fill(c) PROVE FitTypeOK'
  <2>1. calling' \in [Callers -> Places] /\ loop' = loop
    BY <1>18 DEF Fill, FillMove, Goes, At
  <2>2. fills' \in [Callers -> 0..Refill]
    <3>1. fills' = [fills EXCEPT ![c] = fills[c] + 1] /\ ~(fills[c] >= Refill)
      BY <1>18 DEF Fill, Filled
    <3>2. fills[c] \in 0..Refill /\ Refill \in Nat
      BY ClockFacts
    <3>3. fills[c] + 1 \in 0..Refill
      BY <3>1, <3>2
    <3> QED BY <3>1, <3>3
  <2>3. queue' \in Seq(Clocks)
    BY <1>18, AppendProperties DEF Fill
  <2>4. need' \in BOOLEAN /\ calc' \in [Callers -> BOOLEAN]
    BY <1>18 DEF Fill
  <2>5. crossed' \in BOOLEAN
    BY <1>18 DEF Fill, Pending
  <2>6. UNCHANGED <<deviceVars, switchVars, lock, server, fit, sample, sum>>
    BY <1>18 DEF Fill, FillMove
  <2> QED BY <2>1, <2>2, <2>3, <2>4, <2>5, <2>6
<1>19. ASSUME NEW c \in Callers, FillTooSlow(c) PROVE FitTypeOK'
  <2>1. calling' \in [Callers -> Places] /\ loop' = loop
    BY <1>19 DEF FillTooSlow, FillMove, Goes, At
  <2>2. fills' \in [Callers -> 0..Refill]
    <3>1. fills' = [fills EXCEPT ![c] = fills[c] + 1] /\ ~(fills[c] >= Refill)
      BY <1>19 DEF FillTooSlow, Filled
    <3>2. fills[c] \in 0..Refill /\ Refill \in Nat
      BY ClockFacts
    <3>3. fills[c] + 1 \in 0..Refill
      BY <3>1, <3>2
    <3> QED BY <3>1, <3>3
  <2>3. UNCHANGED <<deviceVars, switchVars, queueVars, calc, lock, server,
                    fit, sample, sum, crossed>>
    BY <1>19 DEF FillTooSlow, FillMove
  <2> QED BY <2>1, <2>2, <2>3
<1>20. ASSUME NEW c \in Callers, FillThrows(c) PROVE FitTypeOK'
  <2>1. calling' \in [Callers -> Places] /\ loop' = loop
    BY <1>20 DEF FillThrows, FillMove, Goes, At
  <2>2. /\ fills' \in [Callers -> 0..Refill] /\ calc' \in [Callers -> BOOLEAN]
        /\ lock' = Nobody
    BY <1>20 DEF FillThrows, Leaves
  <2>3. server' \in {server, Nobody}
    BY <1>20 DEF FillThrows, Released
  <2>4. UNCHANGED <<deviceVars, switchVars, queueVars, fit, sample, sum,
                    crossed>>
    BY <1>20 DEF FillThrows, FillMove
  <2> QED BY <2>1, <2>2, <2>3, <2>4
<1>21. ASSUME NEW c \in Callers, FillGivesUp(c) PROVE FitTypeOK'
  <2>1. calling' \in [Callers -> Places] /\ loop' = loop
    BY <1>21 DEF FillGivesUp, FillMove, Goes, At
  <2>2. /\ fills' \in [Callers -> 0..Refill] /\ calc' \in [Callers -> BOOLEAN]
        /\ lock' = Nobody
    BY <1>21 DEF FillGivesUp, Leaves
  <2>3. server' \in {server, Nobody}
    BY <1>21 DEF FillGivesUp, Released
  <2>4. UNCHANGED <<deviceVars, switchVars, queueVars, fit, sample, sum,
                    crossed>>
    BY <1>21 DEF FillGivesUp, FillMove
  <2> QED BY <2>1, <2>2, <2>3, <2>4
<1>22. ASSUME NEW c \in Callers, FillEnds(c) PROVE FitTypeOK'
  <2>1. calling' \in [Callers -> Places] /\ loop' = loop
    BY <1>22 DEF FillEnds, FillMove, Goes, At
  <2>2. /\ fills' \in [Callers -> 0..Refill] /\ calc' \in [Callers -> BOOLEAN]
        /\ lock' = Nobody
    BY <1>22 DEF FillEnds, Leaves
  <2>3. server' \in {server, Nobody}
    BY <1>22 DEF FillEnds, Released
  <2>4. UNCHANGED <<deviceVars, switchVars, queueVars, fit, sample, sum,
                    crossed>>
    BY <1>22 DEF FillEnds, FillMove
  <2> QED BY <2>1, <2>2, <2>3, <2>4
<1>23. ASSUME NEW c \in Callers, CallerSkips(c) PROVE FitTypeOK'
  BY <1>23 DEF CallerSkips, Skip, Released, Goes, At
<1>24. ASSUME NEW c \in Callers, CallerSums(c) PROVE FitTypeOK'
  <2>1. calling' \in [Callers -> Places] /\ need' = FALSE /\ loop' = loop
    BY <1>24 DEF CallerSums, Sum, Goes, At
  <2>2. sum' \in [Threads -> Fits]
    BY <1>24, SumTypes DEF CallerSums, Sum
  <2>3. UNCHANGED <<deviceVars, switchVars, queue, fills, calc, lock, server,
                    fit, sample, crossed>>
    BY <1>24 DEF CallerSums, Sum
  <2> QED BY <2>1, <2>2, <2>3
<1>25. ASSUME NEW c \in Callers, CallerPublishes(c) PROVE FitTypeOK'
  BY <1>25 DEF CallerPublishes, Publish, Released, Goes, At
<1>26. CASE UNCHANGED fitVars
  BY <1>26 DEF fitVars
<1> QED BY <1>1, <1>2, <1>3, <1>4, <1>5, <1>6, <1>7, <1>8, <1>9, <1>10, <1>11, <1>12, <1>13,
           <1>14, <1>15, <1>16, <1>17, <1>18, <1>19, <1>20, <1>21, <1>22, <1>23, <1>24,
           <1>25, <1>26 DEF FitNext, LoopGoesOn, CallerGoesOn

(* Who disables the fit joins the loop before he goes on.                  *)
LEMMA SwitchingStep ==
  ASSUME FitTypeOK, Switching, [FitNext]_fitVars
  PROVE  Switching'
<1> USE ClockFacts DEF Switching, FitTypeOK, deviceVars, switchVars, queueVars, callerVars
<1>1. CASE LoopReads
  BY <1>1 DEF LoopReads, Goes, At, Served
<1>2. CASE LoopReadsNothing
  BY <1>2 DEF LoopReadsNothing, Goes, At
<1>3. CASE LoopPushes
  BY <1>3 DEF LoopPushes, Goes, At
<1>4. CASE LoopSkips
  BY <1>4 DEF LoopSkips, Skip, Goes, At
<1>5. CASE LoopSums
  BY <1>5 DEF LoopSums, Sum, Goes, At
<1>6. CASE LoopPublishes
  BY <1>6 DEF LoopPublishes, Publish, Goes, At
<1>7. CASE LoopWaits
  BY <1>7 DEF LoopWaits, Goes, At, Tested
<1>8. CASE LoopTests
  BY <1>8 DEF LoopTests, Goes, At, Tested
<1>9. CASE Enable
  BY <1>9 DEF Enable
<1>10. CASE Disable
  BY <1>10 DEF Disable, Goes, At, Exits
<1>11. CASE Joined
  BY <1>11 DEF Joined
<1>12. CASE Drop
  BY <1>12 DEF Drop, Goes, At
<1>13. ASSUME NEW c \in Callers, Reset(c) PROVE Switching'
  BY <1>13 DEF Reset, Jump, Goes, At
<1>14. ASSUME NEW c \in Callers, SyncWithHost(c) PROVE Switching'
  BY <1>14 DEF SyncWithHost, Jump, Goes, At
<1>15. ASSUME NEW c \in Callers, RefitDisabled(c) PROVE Switching'
  BY <1>15 DEF RefitDisabled, Released, Goes, At
<1>16. ASSUME NEW c \in Callers, Clear(c) PROVE Switching'
  BY <1>16 DEF Clear, Goes, At
<1>17. ASSUME NEW c \in Callers, EnsureLocks(c) PROVE Switching'
  BY <1>17 DEF EnsureLocks, Goes, At
<1>18. ASSUME NEW c \in Callers, Fill(c) PROVE Switching'
  BY <1>18 DEF Fill, FillMove, Goes, At
<1>19. ASSUME NEW c \in Callers, FillTooSlow(c) PROVE Switching'
  BY <1>19 DEF FillTooSlow, FillMove, Goes, At
<1>20. ASSUME NEW c \in Callers, FillThrows(c) PROVE Switching'
  BY <1>20 DEF FillThrows, FillMove, Leaves, Released, Goes, At
<1>21. ASSUME NEW c \in Callers, FillGivesUp(c) PROVE Switching'
  BY <1>21 DEF FillGivesUp, FillMove, Leaves, Released, Goes, At
<1>22. ASSUME NEW c \in Callers, FillEnds(c) PROVE Switching'
  BY <1>22 DEF FillEnds, FillMove, Leaves, Goes, At
<1>23. ASSUME NEW c \in Callers, CallerSkips(c) PROVE Switching'
  BY <1>23 DEF CallerSkips, Skip, Released, Goes, At
<1>24. ASSUME NEW c \in Callers, CallerSums(c) PROVE Switching'
  BY <1>24 DEF CallerSums, Sum, Goes, At
<1>25. ASSUME NEW c \in Callers, CallerPublishes(c) PROVE Switching'
  BY <1>25 DEF CallerPublishes, Publish, Released, Goes, At
<1>26. CASE UNCHANGED fitVars
  BY <1>26 DEF fitVars
<1> QED BY <1>1, <1>2, <1>3, <1>4, <1>5, <1>6, <1>7, <1>8, <1>9, <1>10, <1>11, <1>12, <1>13,
           <1>14, <1>15, <1>16, <1>17, <1>18, <1>19, <1>20, <1>21, <1>22, <1>23, <1>24,
           <1>25, <1>26 DEF FitNext, LoopGoesOn, CallerGoesOn

(* Pushing a sample of the clock that all the others are of.               *)
LEMMA PushedFacts ==
  ASSUME NEW q \in Seq(Clocks), NEW x \in Clocks,
         \A i \in DOMAIN q : q[i] = x
  PROVE  /\ \A i \in DOMAIN Pushed(q, x) : Pushed(q, x)[i] = x
         /\ Len(Pushed(q, x)) \in Nat /\ Len(q) \in Nat
              /\ Len(q) <= Len(Pushed(q, x))
<1>1. Len(q) \in Nat /\ DOMAIN q = 1..Len(q) /\ x \in Int /\ ~(x < x)
  BY TimestampAssumption
<1>2. CASE Len(q) > MaxQueue
  <2>1. q # <<>>
    BY <1>1, <1>2, ClockFacts, EmptySeq
  <2>2. PICK r \in Seq(Clocks) : r = Tail(q)
    BY <2>1, HeadTailProperties
  <2>3. Len(r) = Len(q) - 1 /\ \A i \in 1..Len(r) : r[i] = q[i + 1]
    BY <2>1, <2>2, HeadTailProperties
  <2>4. Len(r) \in Nat /\ DOMAIN r = 1..Len(r)
    OBVIOUS
  <2>5. ASSUME NEW i \in DOMAIN r PROVE r[i] = x
    <3>1. i \in 1..Len(r) /\ i + 1 \in DOMAIN q
      BY <1>1, <2>3, <2>4
    <3> QED BY <2>3, <3>1
  <2>6. r # <<>> => ~(x < r[Len(r)])
    BY <1>1, <2>4, <2>5, EmptySeq
  <2>7. Pushed(q, x) = Append(r, x)
    BY <1>2, <2>2, <2>6 DEF Pushed, Shortened
  <2>8. Append(r, x) \in Seq(Clocks) /\ Len(Append(r, x)) = Len(r) + 1
        /\ \A i \in DOMAIN Append(r, x) : Append(r, x)[i] = x
    BY <2>4, <2>5, AppendProperties
  <2> QED BY <1>1, <2>3, <2>4, <2>7, <2>8
<1>3. CASE ~(Len(q) > MaxQueue)
  <2>1. q # <<>> => ~(x < q[Len(q)])
    BY <1>1, EmptySeq
  <2>2. Pushed(q, x) = Append(q, x)
    BY <1>3, <2>1 DEF Pushed, Shortened
  <2>3. Append(q, x) \in Seq(Clocks) /\ Len(Append(q, x)) = Len(q) + 1
        /\ \A i \in DOMAIN Append(q, x) : Append(q, x)[i] = x
    BY <1>1, AppendProperties
  <2> QED BY <1>1, <2>2, <2>3
<1> QED BY <1>2, <1>3

(* A line of enough samples of one clock is sound.                         *)
LEMMA SumIsSound ==
  ASSUME NEW q \in Seq(Clocks), Enough(q), \A i,
         j \in DOMAIN q : q[i] = q[j]
  PROVE  Sound([enough |-> Len(q) >= MinSamples, clocks |-> {q[i] : i \in 1..Len(q)}])
<1>1. Len(q) \in Nat /\ DOMAIN q = 1..Len(q) /\ Len(q) >= MinSamples /\ 1 \in 1..Len(q)
  BY ClockFacts DEF Enough
<1>2. q[1] \in Clocks /\ \A i \in 1..Len(q) : q[i] = q[1]
  BY <1>1
<1>3. {q[i] : i \in 1..Len(q)} = {q[1]}
  BY <1>1, <1>2
<1> QED BY <1>1, <1>2, <1>3 DEF Sound

(* No step mixes the samples of two clocks, unless it crosses another.     *)
LEMMA SamplesStep ==
  ASSUME FitTypeOK, Switching, Samples, [FitNext]_fitVars
  PROVE  Samples'
<1> USE ClockFacts DEF Samples, Switching, Sampling, Disabled, Pending, Ensuring, FitTypeOK,
        Places, deviceVars, switchVars, queueVars, callerVars
<1>1. CASE LoopReads
  BY <1>1 DEF LoopReads, Goes, At, Served
<1>2. CASE LoopReadsNothing
  BY <1>2 DEF LoopReadsNothing, Goes, At
<1>3. CASE LoopPushes
  <2>1. loop = "push" /\ loop' # "push" /\ queue' = Pushed(queue, sample)
        /\ UNCHANGED <<clock, calling, crossed, enable>>
    BY <1>3 DEF LoopPushes, Goes, At
  <2>2. ~Disabled' \/ crossed'
    BY <2>1
  <2>3. ASSUME ~crossed
        PROVE  \A i \in DOMAIN queue' : queue'[i] = clock'
    <3>1. sample = clock /\ \A i \in DOMAIN queue : queue[i] = clock
      BY <2>1, <2>3
    <3> QED BY <2>1, <3>1, PushedFacts
  <2> QED BY <2>1, <2>2, <2>3
<1>4. CASE LoopSkips
  BY <1>4 DEF LoopSkips, Skip, Goes, At
<1>5. CASE LoopSums
  BY <1>5 DEF LoopSums, Sum, Goes, At
<1>6. CASE LoopPublishes
  BY <1>6 DEF LoopPublishes, Publish, Goes, At
<1>7. CASE LoopWaits
  BY <1>7 DEF LoopWaits, Goes, At, Tested
<1>8. CASE LoopTests
  BY <1>8 DEF LoopTests, Goes, At, Tested
<1>9. CASE Enable
  BY <1>9 DEF Enable
<1>10. CASE Disable
  BY <1>10 DEF Disable, Goes, At, Exits
<1>11. CASE Joined
  BY <1>11 DEF Joined
<1>12. CASE Drop
  <2>1. queue' = <<>> /\ loop = "none" /\ loop' = "none" /\ calling[Switcher] = "drop"
        /\ calling' = [calling EXCEPT ![Switcher] = "idle"] /\ (~crossed' => ~crossed
             /\ ~Ensuring)
        /\ UNCHANGED <<clock, enable>>
    BY <1>12 DEF Drop, Goes, At
  <2>2. ~crossed' => ~Ensuring'
    BY <2>1
  <2>3. DOMAIN queue' = {}
    BY <2>1
  <2> QED BY <2>1, <2>2, <2>3
<1>13. ASSUME NEW c \in Callers, Reset(c) PROVE Samples'
  BY <1>13 DEF Reset, Jump, Goes, At
<1>14. ASSUME NEW c \in Callers, SyncWithHost(c) PROVE Samples'
  BY <1>14 DEF SyncWithHost, Jump, Goes, At
<1>15. ASSUME NEW c \in Callers, RefitDisabled(c) PROVE Samples'
  BY <1>15 DEF RefitDisabled, Released, Goes, At
<1>16. ASSUME NEW c \in Callers, Clear(c) PROVE Samples'
  BY <1>16 DEF Clear, Goes, At
<1>17. ASSUME NEW c \in Callers, EnsureLocks(c) PROVE Samples'
  BY <1>17 DEF EnsureLocks, Goes, At
<1>18. ASSUME NEW c \in Callers, Fill(c) PROVE Samples'
  <2>1. calling[c] = "fill" /\ calling' = calling /\ loop' = loop
    BY <1>18 DEF Fill, FillMove, Goes, At
  <2>2. /\ queue' = Append(queue, clock) /\ UNCHANGED <<clock, enable, sample>>
        /\ (~crossed' => ~crossed /\ ~Pending)
    BY <1>18 DEF Fill, FillMove
  <2>3. ASSUME ~crossed'
        PROVE  \A i \in DOMAIN queue' : queue'[i] = clock'
    <3>1. \A i \in DOMAIN queue : queue[i] = clock
      BY <2>1, <2>2, <2>3
    <3>2. PICK q \in Seq(Clocks) : q = queue
      OBVIOUS
    <3>3. PICK x \in Clocks : x = clock
      OBVIOUS
    <3>4. \A i \in DOMAIN q : q[i] = x
      BY <3>1, <3>2, <3>3
    <3>5. Len(q) \in Nat /\ DOMAIN q = 1..Len(q) /\ DOMAIN Append(q, x) = 1..Len(q) + 1
            /\ Append(q, x)[Len(q) + 1] = x /\ \A i \in 1..Len(q) : Append(q, x)[i] = q[i]
      BY AppendProperties
    <3>6. \A i \in DOMAIN Append(q, x) : Append(q, x)[i] = x
      BY <3>4, <3>5
    <3> QED BY <2>2, <3>2, <3>3, <3>6
  <2>4. ~crossed' => ~Disabled'
    BY <2>1, <2>2
  <2> QED BY <2>1, <2>2, <2>3, <2>4
<1>19. ASSUME NEW c \in Callers, FillTooSlow(c) PROVE Samples'
  BY <1>19 DEF FillTooSlow, FillMove, Goes, At
<1>20. ASSUME NEW c \in Callers, FillThrows(c) PROVE Samples'
  BY <1>20 DEF FillThrows, FillMove, Leaves, Released, Goes, At
<1>21. ASSUME NEW c \in Callers, FillGivesUp(c) PROVE Samples'
  BY <1>21 DEF FillGivesUp, FillMove, Leaves, Released, Goes, At
<1>22. ASSUME NEW c \in Callers, FillEnds(c) PROVE Samples'
  BY <1>22 DEF FillEnds, FillMove, Leaves, Goes, At
<1>23. ASSUME NEW c \in Callers, CallerSkips(c) PROVE Samples'
  BY <1>23 DEF CallerSkips, Skip, Released, Goes, At
<1>24. ASSUME NEW c \in Callers, CallerSums(c) PROVE Samples'
  BY <1>24 DEF CallerSums, Sum, Goes, At
<1>25. ASSUME NEW c \in Callers, CallerPublishes(c) PROVE Samples'
  BY <1>25 DEF CallerPublishes, Publish, Released, Goes, At
<1>26. CASE UNCHANGED fitVars
  BY <1>26 DEF fitVars
<1> QED BY <1>1, <1>2, <1>3, <1>4, <1>5, <1>6, <1>7, <1>8, <1>9, <1>10, <1>11, <1>12, <1>13,
           <1>14, <1>15, <1>16, <1>17, <1>18, <1>19, <1>20, <1>21, <1>22, <1>23, <1>24,
           <1>25, <1>26 DEF FitNext, LoopGoesOn, CallerGoesOn

(* ... and every calculation is of enough of them.                         *)
LEMMA SumsStep ==
  ASSUME FitTypeOK, Switching, Samples, Sums,
         [FitNext]_fitVars
  PROVE  Sums'
<1> USE ClockFacts DEF Sums, Samples, Sampling, Pending, Ensuring, FitTypeOK, Places,
        deviceVars, switchVars, queueVars, callerVars
<1>1. CASE LoopReads
  BY <1>1 DEF LoopReads, Goes, At, Served
<1>2. CASE LoopReadsNothing
  BY <1>2 DEF LoopReadsNothing, Goes, At
<1>3. CASE LoopPushes
  <2>1. loop = "push" /\ loop' \in {"calc", "test"} /\ queue' = Pushed(queue, sample)
        /\ (loop' = "calc" => Enough(queue')) /\ UNCHANGED <<calling, crossed, sum, fit>>
    BY <1>3 DEF LoopPushes, Goes, At
  <2>2. ASSUME ~crossed, NEW c \in Callers, calling[c] = "calc" PROVE Enough(queue')
    <3>1. sample = clock /\ \A i \in DOMAIN queue : queue[i] = clock
      BY <2>1, <2>2
    <3>2. Len(queue) >= MinSamples
      BY <2>2 DEF Enough
    <3>3. Len(queue') \in Nat /\ Len(queue) \in Nat /\ Len(queue) <= Len(queue')
      BY <2>1, <3>1, PushedFacts
    <3> QED BY <3>2, <3>3, ClockFacts DEF Enough
  <2>3. \A t \in Threads : At(t)' = "publish" => At(t) = "publish"
    BY <2>1 DEF At
  <2> QED BY <2>1, <2>2, <2>3
<1>4. CASE LoopSkips
  BY <1>4 DEF LoopSkips, Skip, Goes, At
<1>5. CASE LoopSums
  <2>1. loop = "calc" /\ loop' = "publish" /\ calling' = calling
        /\ UNCHANGED <<queue, crossed, fit>>
        /\ sum' = [sum EXCEPT ![Loop] = [enough |-> Len(queue) >= MinSamples,
                                       clocks |-> {queue[i] : i \in 1..Len(queue)}]]
    BY <1>5 DEF LoopSums, Sum, Goes, At
  <2>2. ~crossed => Sound(sum'[Loop])
    BY <2>1, SumIsSound
  <2>3. ASSUME NEW u \in Threads \ {Loop}
        PROVE  At(u)' = At(u) /\ sum'[u] = sum[u]
    BY <2>1, <2>3 DEF At
  <2>4. Enough(queue)' = Enough(queue)
    BY <2>1 DEF Enough
  <2> QED BY <2>1, <2>2, <2>3, <2>4
<1>6. CASE LoopPublishes
  BY <1>6 DEF LoopPublishes, Publish, Goes, At
<1>7. CASE LoopWaits
  BY <1>7 DEF LoopWaits, Goes, At, Tested
<1>8. CASE LoopTests
  BY <1>8 DEF LoopTests, Goes, At, Tested
<1>9. CASE Enable
  <2>1. loop' = "read" /\ UNCHANGED <<calling, queue, crossed, sum, fit>>
    BY <1>9 DEF Enable
  <2>2. \A t \in Threads : At(t)' = "publish" => At(t) = "publish"
    BY <2>1 DEF At
  <2>3. Enough(queue)' = Enough(queue)
    BY <2>1 DEF Enough
  <2> QED BY <2>1, <2>2, <2>3
<1>10. CASE Disable
  BY <1>10 DEF Disable, Goes, At, Exits
<1>11. CASE Joined
  <2>1. loop' = "none" /\ calling' = [calling EXCEPT ![Switcher] = "drop"]
        /\ UNCHANGED <<queue, crossed, sum, fit>>
    BY <1>11 DEF Joined
  <2>2. \A t \in Threads : At(t)' = "publish" => At(t) = "publish"
    BY <2>1 DEF At
  <2>3. Enough(queue)' = Enough(queue)
    BY <2>1 DEF Enough
  <2>4. \A c \in Callers : calling'[c] = "calc" => calling[c] = "calc"
    BY <2>1
  <2> QED BY <2>1, <2>2, <2>3, <2>4
<1>12. CASE Drop
  <2>1. calling[Switcher] = "drop" /\ loop' = loop
          /\ calling' = [calling EXCEPT ![Switcher] = "idle"]
    BY <1>12 DEF Drop, Goes, At
  <2>2. (~crossed' => ~crossed /\ ~Ensuring) /\ UNCHANGED <<sum, fit>>
    BY <1>12 DEF Drop
  <2>3. \A t \in Threads : At(t)' = "publish" => At(t) = "publish"
    BY <2>1 DEF At
  <2>4. ~crossed' => \A c \in Callers : calling'[c] # "calc"
    BY <2>1, <2>2
  <2>5. loop' # "calc"
    BY <2>1 DEF Switching
  <2> QED BY <2>2, <2>3, <2>4, <2>5
<1>13. ASSUME NEW c \in Callers, Reset(c) PROVE Sums'
  BY <1>13 DEF Reset, Jump, Goes, At
<1>14. ASSUME NEW c \in Callers, SyncWithHost(c) PROVE Sums'
  BY <1>14 DEF SyncWithHost, Jump, Goes, At
<1>15. ASSUME NEW c \in Callers, RefitDisabled(c) PROVE Sums'
  BY <1>15 DEF RefitDisabled, Released, Goes, At
<1>16. ASSUME NEW c \in Callers, Clear(c) PROVE Sums'
  BY <1>16 DEF Clear, Goes, At
<1>17. ASSUME NEW c \in Callers, EnsureLocks(c) PROVE Sums'
  BY <1>17 DEF EnsureLocks, Goes, At
<1>18. ASSUME NEW c \in Callers, Fill(c) PROVE Sums'
  <2>1. calling' = calling /\ loop' = loop /\ queue' = Append(queue, clock)
        /\ (~crossed' => ~crossed) /\ UNCHANGED <<sum, fit>>
    BY <1>18 DEF Fill, FillMove, Goes, At
  <2>2. \A t \in Threads : At(t)' = At(t)
    BY <2>1 DEF At
  <2>3. Enough(queue) => Enough(queue')
    <3>1. Len(queue') = Len(queue) + 1 /\ Len(queue) \in Nat
      BY <2>1, AppendProperties
    <3> QED BY <3>1, ClockFacts DEF Enough
  <2> QED BY <2>1, <2>2, <2>3
<1>19. ASSUME NEW c \in Callers, FillTooSlow(c) PROVE Sums'
  BY <1>19 DEF FillTooSlow, FillMove, Goes, At
<1>20. ASSUME NEW c \in Callers, FillThrows(c) PROVE Sums'
  BY <1>20 DEF FillThrows, FillMove, Leaves, Released, Goes, At
<1>21. ASSUME NEW c \in Callers, FillGivesUp(c) PROVE Sums'
  BY <1>21 DEF FillGivesUp, FillMove, Leaves, Released, Goes, At
<1>22. ASSUME NEW c \in Callers, FillEnds(c) PROVE Sums'
  BY <1>22 DEF FillEnds, FillMove, Leaves, Goes, At
<1>23. ASSUME NEW c \in Callers, CallerSkips(c) PROVE Sums'
  BY <1>23 DEF CallerSkips, Skip, Released, Goes, At
<1>24. ASSUME NEW c \in Callers, CallerSums(c) PROVE Sums'
  <2>1. calling[c] = "calc" /\ loop' = loop /\ calling' = [calling EXCEPT ![c] = "publish"]
        /\ UNCHANGED <<queue, crossed, fit>>
        /\ sum' = [sum EXCEPT ![c] = [enough |-> Len(queue) >= MinSamples,
                                       clocks |-> {queue[i] : i \in 1..Len(queue)}]]
    BY <1>24 DEF CallerSums, Sum, Goes, At
  <2>2. ~crossed => Sound(sum'[c])
    BY <2>1, SumIsSound
  <2>3. ASSUME NEW u \in Threads \ {c}
        PROVE  At(u)' = At(u) /\ sum'[u] = sum[u]
    BY <2>1, <2>3 DEF At
  <2>4. Enough(queue)' = Enough(queue)
    BY <2>1 DEF Enough
  <2> QED BY <2>1, <2>2, <2>3, <2>4
<1>25. ASSUME NEW c \in Callers, CallerPublishes(c) PROVE Sums'
  BY <1>25 DEF CallerPublishes, Publish, Released, Goes, At
<1>26. CASE UNCHANGED fitVars
  <2>1. UNCHANGED <<calling, loop, queue, crossed, sum, fit>>
    BY <1>26 DEF fitVars
  <2> QED BY <2>1 DEF Enough, At
<1> QED BY <1>1, <1>2, <1>3, <1>4, <1>5, <1>6, <1>7, <1>8, <1>9, <1>10, <1>11, <1>12, <1>13,
           <1>14, <1>15, <1>16, <1>17, <1>18, <1>19, <1>20, <1>21, <1>22, <1>23, <1>24,
           <1>25, <1>26 DEF FitNext, LoopGoesOn, CallerGoesOn

(* ClockInv is an invariant: types, the switching of the loop, what is in  *)
(* the queue and what has been summed up of it.                            *)
THEOREM ClockInvHolds == FitSpec => []ClockInv
<1>1. FitInit => ClockInv
  <2>1. ASSUME FitInit PROVE FitTypeOK
    <3>1. <<>> \in Seq(Clocks) /\ FirstClock \in Clocks
      BY TimestampAssumption
    <3>2. /\ calling \in [Callers -> Places] /\ fills \in [Callers -> 0..Refill]
          /\ calc \in [Callers -> BOOLEAN]
      BY <2>1, ClockFacts DEF FitInit, Places
    <3>3. fit \in Fits /\ sum \in [Threads -> Fits]
      BY <2>1, ClockFacts DEF FitInit
    <3>4. /\ clock \in Clocks /\ ahead \subseteq Clocks /\ sample \in Clocks
          /\ queue \in Seq(Clocks)
      BY <2>1, <3>1 DEF FitInit
    <3>5. {enable, exit, need, crossed} \subseteq BOOLEAN
      BY <2>1 DEF FitInit
    <3>6. {lock, server} \subseteq Callers \cup {Nobody} /\ loop = "none"
      BY <2>1 DEF FitInit
    <3>7. switches \in 0..MaxSwitches
      BY <2>1, ClockFacts DEF FitInit
    <3> QED BY <3>2, <3>3, <3>4, <3>5, <3>6, <3>7 DEF FitTypeOK
  <2>2. ASSUME FitInit PROVE Switching
    BY <2>2, ClockFacts DEF FitInit, Switching
  <2>3. ASSUME FitInit PROVE Samples
    BY <2>3, ClockFacts DEF FitInit, Samples, Sampling, Ensuring, Disabled
  <2>4. ASSUME FitInit PROVE Sums
    BY <2>4, ClockFacts DEF FitInit, Sums, At
  <2> QED BY <2>1, <2>2, <2>3, <2>4 DEF ClockInv
<1>2. ClockInv /\ [FitNext]_fitVars => ClockInv'
  BY ClockTypes, SwitchingStep, SamplesStep, SumsStep DEF ClockInv
<1> QED BY <1>1, <1>2, PTL DEF FitSpec

(* FitIsSound: unless the clock crossed, or the queue was cleared, while a *)
(* sample or a calculation was under way, the published line is of enough  *)
(* samples of one clock.                                                   *)
THEOREM FitIsSoundHolds == FitSpec => []FitIsSound
<1>1. ClockInv => FitIsSound
  <2> SUFFICES ASSUME ClockInv, ~crossed, fit # NoFit
               PROVE  fit.enough /\ \E x \in Clocks : fit.clocks = {x}
    BY DEF FitIsSound
  <2> QED BY DEF ClockInv, Sums, Sound
<1> QED BY <1>1, ClockInvHolds, PTL

-----------------------------------------------------------------------------
(* DeviceHotplug.                                                          *)
Inserting(u, d) == pc[u] # Idle /\ pc[u].at = "insert" /\ held[u] = d
Awaited(p) == \E h \in handlers : p \in h.ports
Stale(p) == \E d \in Active(p) : ~Present(d)
Unreported(p) == \E i \in DOMAIN events : events[i].kind = "removed" /\ events[i].port = p

(* Indices name devices, an active device is held by somebody, and who     *)
(* builds one holds no other.                                              *)
Holding ==
  /\ \A u \in Users : held[u] \in 0..Len(device)
  /\ \A p \in Ports : created[p] # 0 =>
       created[p] \in DOMAIN device /\ device[created[p]].port = p
  /\ \A d \in DOMAIN device : device[d].active => Alive(d)
  /\ \A u \in Users : pc[u] # Idle =>
       IF pc[u].at = "build" THEN held[u] = 0
                             ELSE held[u] # 0 /\ device[held[u]].port = pc[u].port

(* Without overlapping, one call at a time builds the device of a port,    *)
(* and createdDevices_ finds every active device that is not just built.   *)
Tracking ==
  ~overlapped =>
    /\ \A u, v \in Users :
         (pc[u] # Idle /\ pc[v] # Idle /\ pc[u].port = pc[v].port) => u = v
    /\ \A u \in Users : pc[u] # Idle => created[pc[u].port] = 0
    /\ \A d \in DOMAIN device : device[d].active =>
         created[device[d].port] = d \/ \E u \in Users : Inserting(u, d)

(* Unless a removal outdated the look of the arrivals' thread, what is     *)
(* listed is among the ports known to the watcher.                         *)
Looking ==
  ~outdated =>
    /\ Listed \subseteq current
    /\ arrival = "append" => seen \subseteq current

(* The removal of a port that has a device, or that one is built for, will *)
(* be handled; and a device that has gone is about to be removed.          *)
Expecting ==
  (~overlapped /\ ~outdated) =>
    \A p \in Ports :
      /\ Building(p) \/ Active(p) # {} => p \in Listed \/ Awaited(p)
      /\ Stale(p) => Unreported(p) \/ Awaited(p)

HotplugInv == HotplugTypeOK /\ Holding /\ Tracking /\ Looking /\ Expecting

-----------------------------------------------------------------------------
(* A function over 1..n is a sequence.                                     *)
LEMMA FunctionIsSeq ==
  ASSUME NEW S, NEW n \in Nat, NEW f \in [1..n -> S]
  PROVE  f \in Seq(S)
OBVIOUS

(* What TypeOK says of the devices and of the calls of createDevice, and   *)
(* of the records that the steps make.                                     *)
LEMMA RecordFacts ==
  /\ \A c \in Calls : c # Idle /\ c.port \in Ports
       /\ c.at \in {"build", "insert"}
  /\ \A c \in Calls : [c EXCEPT !.at = "insert"] = [at |-> "insert", port |-> c.port]
  /\ \A p \in Ports, a \in {"build", "insert"} : [at |-> a, port |-> p] \in Calls
  /\ \A d \in Devices : d.port \in Ports /\ d.plug \in 1..MaxPlugs
       /\ d.active \in BOOLEAN
 
       /\ \A p \in Ports, n \in 1..MaxPlugs : [port |-> p, plug |-> n, active |-> TRUE] \in Devices
  /\ \A d \in Devices : LET e == [d EXCEPT !.active = FALSE]
                        IN e \in Devices /\ ~e.active /\ e.port = d.port
                             /\ e.plug = d.plug
  /\ \A e \in Reports : e.port \in Ports /\ e.plug \in 1..MaxPlugs
  /\ \A k \in {"arrival", "removed"}, p \in Ports, n \in 1..MaxPlugs :
       [kind |-> k, port |-> p, plug |-> n] \in Reports
  /\ \A S \in SUBSET Ports, n \in 1..MaxPlugs : [ports |-> S, plug |-> n] \in Removals
  /\ \A h \in Removals : h.ports \subseteq Ports
<1>1. \A c \in Calls : c # Idle
  BY DEF Calls, Idle
<1>2. \A c \in Calls : [c EXCEPT !.at = "insert"] = [at |-> "insert", port |-> c.port]
  BY DEF Calls
<1>3. ASSUME NEW d \in Devices, NEW e, e = [d EXCEPT !.active = FALSE]
      PROVE  e \in Devices /\ ~e.active /\ e.port = d.port /\ e.plug = d.plug
  BY <1>3 DEF Devices
<1> QED BY <1>1, <1>2, <1>3 DEF Calls, Devices, Reports, Removals

LEMMA CallFacts ==
  ASSUME HotplugTypeOK
  PROVE  /\ device \in Seq(Devices)
         /\ Len(device) \in Nat /\ DOMAIN device = 1..Len(device)
         /\ \A u \in Users : pc[u] # Idle => pc[u] \in Calls
         /\ \A u \in Users : pc[u] # Idle => pc[u].port \in Ports
              /\ pc[u].at \in {"build", "insert"}
         /\ \A d \in DOMAIN device :
              device[d] \in Devices /\ device[d].port \in Ports
                /\ device[d].active \in BOOLEAN
         /\ pc \in [Users -> Calls \cup {Idle}]
              /\ held \in [Users -> 0..MaxDevices]
         /\ created \in [Ports -> 0..MaxDevices]
<1>1. device \in Seq(Devices) /\ pc \in [Users -> Calls \cup {Idle}]
      /\ held \in [Users -> 0..MaxDevices] /\ created \in [Ports -> 0..MaxDevices]
  BY DEF HotplugTypeOK
<1>2. Len(device) \in Nat /\ DOMAIN device = 1..Len(device)
  BY <1>1
<1>3. \A d \in DOMAIN device : device[d] \in Devices
  BY <1>1, <1>2
<1> QED BY <1>1, <1>2, <1>3, RecordFacts

(* Every step keeps the types.                                             *)
LEMMA HotplugTypes ==
  ASSUME HotplugTypeOK, Holding, [HotplugNext]_hotplugVars
  PROVE  HotplugTypeOK'
<1> USE HotplugAssumption, RecordFacts DEF HotplugTypeOK, platformVars, listVars,
        arrivalVars, useVars, histories
<1>1. ASSUME NEW p \in Ports, Plug(p) PROVE HotplugTypeOK'
  <2>1. plugs' \in 0..MaxPlugs /\ plug' \in [Ports -> 0..plugs']
    <3>1. plugs' = plugs + 1 /\ plugs < MaxPlugs /\ plug' = [plug EXCEPT ![p] = plugs']
      BY <1>1 DEF Plug
    <3>2. plugs' \in 0..MaxPlugs /\ 0..plugs \subseteq 0..plugs' /\ plugs' \in 0..plugs'
      BY <3>1
    <3> QED BY <3>1, <3>2
  <2>2. events' \in Seq(Reports)
    <3>1. plugs' \in 1..MaxPlugs
      BY <1>1 DEF Plug
    <3>2. [kind |-> "arrival", port |-> p, plug |-> plugs'] \in Reports
      BY <3>1, RecordFacts
    <3> QED BY <1>1, <3>2, AppendProperties DEF Plug, Reported
  <2>3. UNCHANGED <<listVars, arrivalVars, handlers, useVars,
                    histories>>
    BY <1>1 DEF Plug
  <2> QED BY <2>1, <2>2, <2>3
<1>2. ASSUME NEW p \in Ports, Unplug(p) PROVE HotplugTypeOK'
  <2>1. plugs' \in 0..MaxPlugs /\ plug' \in [Ports -> 0..plugs']
    BY <1>2, CallFacts DEF Unplug
  <2>2. events' \in Seq(Reports)
    <3>1. plug[p] \in 1..MaxPlugs
      BY <1>2 DEF Unplug
    <3>2. [kind |-> "removed", port |-> p, plug |-> plug[p]] \in Reports
      BY <3>1, RecordFacts
    <3> QED BY <1>2, <3>2, AppendProperties DEF Unplug, Reported
  <2>3. UNCHANGED <<listVars, arrivalVars, handlers, useVars,
                    histories>>
    BY <1>2 DEF Unplug
  <2> QED BY <2>1, <2>2, <2>3
<1>3. CASE Arrived
  <2>1. events' \in Seq(Reports)
    BY <1>3, HeadTailProperties DEF Arrived
  <2>2. {flag', missed'} \subseteq BOOLEAN /\ arrival' \in {arrival, "test"}
    BY <1>3 DEF Arrived
  <2>3. UNCHANGED <<platformVars, listVars, known, seen, handlers,
                    useVars, outdated, overlapped>>
    BY <1>3 DEF Arrived
  <2> QED BY <2>1, <2>2, <2>3
<1>4. CASE Removed
  <2>1. events' \in Seq(Reports) /\ Head(events) \in Reports
    BY <1>4, HeadTailProperties DEF Removed
  <2>2. Head(events).port \in Ports /\ Head(events).plug \in 1..MaxPlugs
    BY <2>1, RecordFacts
  <2>3. list' \in [Ports -> Nat] /\ current' \subseteq Ports
    BY <1>4, <2>2 DEF Removed, Relisted
  <2>4. handlers' \subseteq Removals
    <3>1. [ports |-> Gone(Head(events).port), plug |-> Head(events).plug] \in Removals
      BY <2>2, RecordFacts DEF Gone, Listed
    <3> QED BY <1>4, <3>1 DEF Removed
  <2>5. outdated' \in BOOLEAN
    BY <1>4 DEF Removed
  <2>6. UNCHANGED <<platformVars, infos, arrivalVars, useVars,
                    missed, overlapped>>
    BY <1>4 DEF Removed
  <2> QED BY <2>1, <2>3, <2>4, <2>5, <2>6
<1>5. CASE ArrivalTests
  BY <1>5 DEF ArrivalTests, ArrivalMove
<1>6. CASE ArrivalWaits
  BY <1>6 DEF ArrivalWaits, ArrivalMove
<1>7. CASE Settles
  <2>1. known' \subseteq Ports /\ arrival' \in {"settle", "look"} /\ flag' = FALSE
    BY <1>7 DEF Settles, ArrivalMove, Listed
  <2>2. UNCHANGED <<listVars, seen, platformVars, events, handlers,
                    useVars, histories>>
    BY <1>7 DEF Settles, ArrivalMove
  <2> QED BY ZenonT(30), <2>1, <2>2
<1>8. CASE Looks
  <2>1. seen' \subseteq Ports /\ arrival' = "match"
    BY <1>8 DEF Looks, ArrivalMove, Plugged
  <2>2. UNCHANGED <<listVars, flag, known, platformVars, events, handlers,
                    useVars, histories>>
    BY <1>8 DEF Looks, ArrivalMove
  <2> QED BY <2>1, <2>2
<1>9. CASE Matches
  BY <1>9 DEF Matches, ArrivalMove
<1>10. CASE Appends
  BY <1>10 DEF Appends, ArrivalMove
<1>11. ASSUME NEW h \in handlers, Handle(h) PROVE HotplugTypeOK'
  <2>1. handlers' \subseteq Removals /\ overlapped' \in BOOLEAN
    BY <1>11 DEF Handle
  <2>2. device' \in Seq(Devices)
    <3>1. \A d \in DOMAIN device : [device[d] EXCEPT !.active = FALSE] \in Devices
      BY CallFacts, RecordFacts
    <3>2. /\ DOMAIN device' = 1..Len(device)
          /\ \A d \in 1..Len(device) : device'[d] \in Devices
      BY <1>11, <3>1, CallFacts DEF Handle
    <3>3. PICK f : f = device'
      OBVIOUS
    <3>4. f \in [1..Len(device) -> Devices]
      BY <1>11, <3>2, <3>3 DEF Handle
    <3>5. f \in Seq(Devices)
      <4>1. PICK n \in Nat : n = Len(device)
        BY CallFacts
      <4>2. f \in [1..n -> Devices]
        BY <3>4, <4>1
      <4> QED BY <4>2, FunctionIsSeq
    <3> QED BY <3>3, <3>5
  <2>3. created' \in [Ports -> 0..MaxDevices]
    BY <1>11 DEF Handle
  <2>4. UNCHANGED <<platformVars, events, listVars, arrivalVars, pc,
                    held, missed, outdated>>
    BY <1>11 DEF Handle
  <2> QED BY <2>1, <2>2, <2>3, <2>4
<1>12. ASSUME NEW u \in Users, NEW p \in Ports, Share(u, p) PROVE HotplugTypeOK'
  BY <1>12 DEF Share
<1>13. ASSUME NEW u \in Users, NEW p \in Ports, Create(u, p) PROVE HotplugTypeOK'
  BY <1>13 DEF Create
<1>14. ASSUME NEW u \in Users, Build(u) PROVE HotplugTypeOK'
  <2>1. pc[u] \in Calls /\ pc[u].port \in Ports /\ plug[pc[u].port] \in 1..MaxPlugs
    <3>1. pc[u] # Idle /\ plug[pc[u].port] # 0
      BY <1>14 DEF Build
    <3>2. pc[u] \in Calls /\ pc[u].port \in Ports
      BY <3>1, CallFacts
    <3> QED BY <3>1, <3>2
  <2>2. [port |-> pc[u].port, plug |-> plug[pc[u].port], active |-> TRUE] \in Devices
    BY <2>1 DEF Devices
  <2>3. device' \in Seq(Devices) /\ Len(device') = Len(device) + 1
          /\ Len(device') \in 0..MaxDevices
    BY <1>14, <2>2, CallFacts, AppendProperties DEF Build
  <2>4. held' \in [Users -> 0..MaxDevices]
    BY <1>14, <2>3 DEF Build
  <2>5. pc' \in [Users -> Calls \cup {Idle}]
    <3>1. [pc[u] EXCEPT !.at = "insert"] \in Calls
      BY <2>1, RecordFacts
    <3>2. pc' = [pc EXCEPT ![u] = [pc[u] EXCEPT !.at = "insert"]]
      BY <1>14 DEF Build
    <3> QED BY <3>1, <3>2
  <2>6. UNCHANGED <<platformVars, events, listVars, arrivalVars,
                    handlers, created, histories>>
    BY <1>14 DEF Build
  <2> QED BY <2>3, <2>4, <2>5, <2>6
<1>15. ASSUME NEW u \in Users, BuildThrows(u) PROVE HotplugTypeOK'
  BY <1>15 DEF BuildThrows
<1>16. ASSUME NEW u \in Users, Insert(u) PROVE HotplugTypeOK'
  BY <1>16 DEF Insert
<1>17. ASSUME NEW u \in Users, Release(u) PROVE HotplugTypeOK'
  <2>1. held[u] \in DOMAIN device
    BY <1>17, CallFacts DEF Release, Holding
  <2>2. [device[held[u]] EXCEPT !.active = FALSE] \in Devices
    BY <2>1, CallFacts, RecordFacts
  <2>3. device' \in Seq(Devices)
    BY <1>17, <2>1, <2>2, CallFacts DEF Release
  <2>4. held' \in [Users -> 0..MaxDevices]
    BY <1>17 DEF Release
  <2>5. UNCHANGED <<platformVars, events, listVars, arrivalVars,
                    handlers, created, pc, histories>>
    BY <1>17 DEF Release
  <2> QED BY <2>3, <2>4, <2>5
<1>18. ASSUME NEW u \in Users, Reboot(u) PROVE HotplugTypeOK'
  <2>1. held[u] \in DOMAIN device
    BY <1>18, CallFacts DEF Reboot, Holding
  <2>2. [device[held[u]] EXCEPT !.active = FALSE] \in Devices
    BY <2>1, CallFacts, RecordFacts
  <2>3. device' \in Seq(Devices)
    BY <1>18, <2>1, <2>2, CallFacts DEF Reboot
  <2>4. held' \in [Users -> 0..MaxDevices]
    BY <1>18 DEF Reboot
  <2>5. UNCHANGED <<platformVars, events, listVars, arrivalVars,
                    handlers, created, pc, histories>>
    BY <1>18 DEF Reboot
  <2> QED BY <2>3, <2>4, <2>5
<1>19. CASE UNCHANGED hotplugVars
  BY <1>19 DEF hotplugVars
<1> QED BY <1>1, <1>2, <1>3, <1>4, <1>5, <1>6, <1>7, <1>8, <1>9, <1>10, <1>11, <1>12, <1>13,
           <1>14, <1>15, <1>16, <1>17, <1>18, <1>19 DEF HotplugNext, Watches, Arrivals

(* ... and an active device with its holders.                              *)
LEMMA HoldingStep ==
  ASSUME HotplugTypeOK, Holding, [HotplugNext]_hotplugVars
  PROVE  Holding'
<1> USE CallFacts, RecordFacts DEF Holding, Alive, platformVars, listVars, arrivalVars,
        useVars, histories
<1>1. ASSUME NEW p \in Ports, Plug(p) PROVE Holding'
  BY <1>1 DEF Plug, Reported
<1>2. ASSUME NEW p \in Ports, Unplug(p) PROVE Holding'
  BY <1>2 DEF Unplug, Reported
<1>3. CASE Arrived
  BY <1>3 DEF Arrived
<1>4. CASE Removed
  BY <1>4 DEF Removed
<1>5. CASE ArrivalTests
  BY <1>5 DEF ArrivalTests, ArrivalMove
<1>6. CASE ArrivalWaits
  BY <1>6 DEF ArrivalWaits, ArrivalMove
<1>7. CASE Settles
  BY <1>7 DEF Settles, ArrivalMove
<1>8. CASE Looks
  BY <1>8 DEF Looks, ArrivalMove
<1>9. CASE Matches
  BY <1>9 DEF Matches, ArrivalMove
<1>10. CASE Appends
  BY <1>10 DEF Appends, ArrivalMove
<1>11. ASSUME NEW h \in handlers, Handle(h) PROVE Holding'
  BY <1>11 DEF Handle
<1>12. ASSUME NEW u \in Users, NEW p \in Ports, Share(u, p) PROVE Holding'
  BY <1>12 DEF Share
<1>13. ASSUME NEW u \in Users, NEW p \in Ports, Create(u, p) PROVE Holding'
  BY <1>13 DEF Create
<1>14. ASSUME NEW u \in Users, Build(u) PROVE Holding'
  BY <1>14 DEF Build
<1>15. ASSUME NEW u \in Users, BuildThrows(u) PROVE Holding'
  BY <1>15 DEF BuildThrows
<1>16. ASSUME NEW u \in Users, Insert(u) PROVE Holding'
  BY <1>16 DEF Insert
<1>17. ASSUME NEW u \in Users, Release(u) PROVE Holding'
  BY <1>17 DEF Release
<1>18. ASSUME NEW u \in Users, Reboot(u) PROVE Holding'
  BY <1>18 DEF Reboot
<1>19. CASE UNCHANGED hotplugVars
  BY <1>19 DEF hotplugVars
<1> QED BY <1>1, <1>2, <1>3, <1>4, <1>5, <1>6, <1>7, <1>8, <1>9, <1>10, <1>11, <1>12, <1>13,
           <1>14, <1>15, <1>16, <1>17, <1>18, <1>19 DEF HotplugNext, Watches, Arrivals

(* createdDevices_ loses no device, unless calls overlap.                  *)
LEMMA TrackingStep ==
  ASSUME HotplugTypeOK, Holding, Tracking, [HotplugNext]_hotplugVars
  PROVE  Tracking'
<1> USE CallFacts DEF Tracking, Inserting, platformVars, listVars, arrivalVars, useVars,
        histories
<1>1. ASSUME NEW p \in Ports, Plug(p) PROVE Tracking'
  BY <1>1 DEF Plug, Reported
<1>2. ASSUME NEW p \in Ports, Unplug(p) PROVE Tracking'
  BY <1>2 DEF Unplug, Reported
<1>3. CASE Arrived
  BY <1>3 DEF Arrived
<1>4. CASE Removed
  BY <1>4 DEF Removed
<1>5. CASE ArrivalTests
  BY <1>5 DEF ArrivalTests, ArrivalMove
<1>6. CASE ArrivalWaits
  BY <1>6 DEF ArrivalWaits, ArrivalMove
<1>7. CASE Settles
  BY <1>7 DEF Settles, ArrivalMove
<1>8. CASE Looks
  BY <1>8 DEF Looks, ArrivalMove
<1>9. CASE Matches
  BY <1>9 DEF Matches, ArrivalMove
<1>10. CASE Appends
  BY <1>10 DEF Appends, ArrivalMove
<1>11. ASSUME NEW h \in handlers, Handle(h) PROVE Tracking'
  <2>1. /\ UNCHANGED <<pc, held>> /\ DOMAIN device' = DOMAIN device
        /\ (~overlapped' => ~overlapped /\ \A p \in h.ports : ~Building(p))
        /\ \A p \in Ports : created'[p] = IF p \in h.ports THEN 0 ELSE created[p]
    BY <1>11 DEF Handle
  <2>2. ASSUME NEW d \in DOMAIN device, device'[d].active
        PROVE  /\ device'[d] = device[d] /\ \A p \in h.ports : created[p] # d
    BY <1>11, <2>2, CallFacts, RecordFacts DEF Handle
  <2>3. ASSUME ~overlapped', NEW d \in DOMAIN device, device'[d].active
        PROVE  created'[device'[d].port] = d \/ \E u \in Users : Inserting(u, d)
    <3>1. CASE \E u \in Users : Inserting(u, d)
      BY <3>1
    <3>2. CASE created[device[d].port] = d
      BY <2>1, <2>2, <2>3, <3>2, CallFacts
    <3> QED BY <2>1, <2>2, <2>3, <3>1, <3>2
  <2> QED BY <2>1, <2>3, CallFacts
<1>12. ASSUME NEW u \in Users, NEW p \in Ports, Share(u, p) PROVE Tracking'
  BY <1>12 DEF Share
<1>13. ASSUME NEW u \in Users, NEW p \in Ports, Create(u, p) PROVE Tracking'
  <2>1. /\ pc[u] = Idle /\ pc' = [pc EXCEPT ![u] = [at |-> "build", port |-> p]]
        /\ created' = [created EXCEPT ![p] = 0] /\ UNCHANGED <<device, held>>
        /\ (~overlapped' => ~overlapped /\ ~Building(p))
        /\ (created[p] = 0 \/ ~Alive(created[p]))
    BY <1>13 DEF Create
  <2>2. pc'[u] = [at |-> "build", port |-> p] /\ pc'[u].port = p
        /\ \A v \in Users \ {u} : pc'[v] = pc[v]
    BY <2>1, CallFacts
  <2>3. ASSUME ~overlapped', NEW v \in Users \ {u}, pc[v] # Idle PROVE pc[v].port # p
    BY <2>1, <2>3 DEF Building
  <2>4. ASSUME ~overlapped', NEW d \in DOMAIN device, device[d].active
        PROVE  created'[device[d].port] = d \/ \E v \in Users : Inserting(v, d)'
    <3>1. CASE \E v \in Users : Inserting(v, d)
      BY <2>1, <2>2, <3>1
    <3>2. CASE created[device[d].port] = d
      <4>1. device[d].port # p
        BY <2>1, <2>4, <3>2, CallFacts DEF Holding
      <4> QED BY <2>1, <3>2, <4>1, CallFacts
    <3> QED BY <2>1, <2>4, <3>1, <3>2
  <2> QED BY <2>1, <2>2, <2>3, <2>4, CallFacts
<1>14. ASSUME NEW u \in Users, Build(u) PROVE Tracking'
  <2>1. /\ pc[u] \in Calls /\ pc[u].port \in Ports /\ pc[u].at = "build" /\ held[u] = 0
        /\ pc'[u] # Idle /\ pc'[u].at = "insert" /\ pc'[u].port = pc[u].port
        /\ \A v \in Users \ {u} : pc'[v] = pc[v] /\ held'[v] = held[v]
    <3>1. /\ pc[u] # Idle /\ pc[u].at = "build"
          /\ pc' = [pc EXCEPT ![u] = [pc[u] EXCEPT !.at = "insert"]]
          /\ held' = [held EXCEPT ![u] = Len(device')]
      BY <1>14 DEF Build
    <3>2. pc[u] \in Calls /\ pc[u].port \in Ports /\ held[u] = 0
      BY <3>1, CallFacts DEF Holding
    <3>3. pc'[u] = [at |-> "insert", port |-> pc[u].port] /\ pc'[u] \in Calls
      BY ZenonT(30), <3>1, <3>2, CallFacts, RecordFacts
    <3>4. \A v \in Users \ {u} : pc'[v] = pc[v] /\ held'[v] = held[v]
      BY <3>1, CallFacts
    <3> QED BY <3>1, <3>2, <3>3, <3>4, RecordFacts
  <2>2. /\ Len(device') = Len(device) + 1 /\ DOMAIN device' = 1..Len(device) + 1
        /\ device'[Len(device) + 1].port = pc[u].port /\ held'[u] = Len(device) + 1
        /\ \A d \in DOMAIN device : device'[d] = device[d]
    BY <1>14, CallFacts, AppendProperties DEF Build
  <2>3. UNCHANGED <<created, overlapped>>
    BY <1>14 DEF Build
  <2>4. ASSUME ~overlapped, NEW d \in DOMAIN device', device'[d].active
        PROVE  created[device'[d].port] = d \/ \E v \in Users : Inserting(v, d)'
    <3>1. CASE d = Len(device) + 1
      BY <2>1, <2>2, <3>1
    <3>2. CASE d # Len(device) + 1
      <4>1. d \in DOMAIN device /\ device[d].active /\ device'[d] = device[d]
        BY <2>2, <2>4, <3>2, CallFacts
      <4>2. \A v \in Users : Inserting(v, d) => v # u /\ Inserting(v, d)'
        BY <2>1
      <4> QED BY <2>4, <4>1, <4>2
    <3> QED BY <3>1, <3>2
  <2>5. \A v \in Users : pc'[v] # Idle => pc[v] # Idle
          /\ pc'[v].port = pc[v].port
    BY <2>1, RecordFacts
  <2> QED BY <2>3, <2>4, <2>5
<1>15. ASSUME NEW u \in Users, BuildThrows(u) PROVE Tracking'
  BY <1>15 DEF BuildThrows
<1>16. ASSUME NEW u \in Users, Insert(u) PROVE Tracking'
  <2>1. /\ pc[u] # Idle /\ pc[u].at = "insert" /\ pc[u].port \in Ports
        /\ pc' = [pc EXCEPT ![u] = Idle] /\ UNCHANGED <<device, held, overlapped>>
        /\ created' = [created EXCEPT ![pc[u].port] = IF created[pc[u].port] = 0
                                                     THEN held[u] ELSE created[pc[u].port]]
        /\ device[held[u]].port = pc[u].port
    <3>1. /\ pc[u] # Idle /\ pc[u].at = "insert"
          /\ pc' = [pc EXCEPT ![u] = Idle] /\ UNCHANGED <<device, held, overlapped>>
          /\ created' = [created EXCEPT ![pc[u].port] = IF created[pc[u].port] = 0
                                                       THEN held[u] ELSE created[pc[u].port]]
      BY <1>16 DEF Insert
    <3>2. pc[u].port \in Ports /\ device[held[u]].port = pc[u].port
      BY <3>1, CallFacts DEF Holding
    <3> QED BY <3>1, <3>2
  <2>2. pc'[u] = Idle /\ \A v \in Users \ {u} : pc'[v] = pc[v]
    BY <2>1, CallFacts
  <2>3. \A q \in Ports : created'[q] = IF q = pc[u].port /\ created[q] = 0 THEN held[u]
          ELSE created[q]
    <3>1. created \in [Ports -> 0..MaxDevices]
      BY CallFacts
    <3> QED BY <2>1, <3>1
  <2>4. ASSUME ~overlapped, NEW v \in Users, pc'[v] # Idle
        PROVE  created'[pc'[v].port] = 0
    BY <2>1, <2>2, <2>3, <2>4, CallFacts
  <2>5. ASSUME ~overlapped, NEW d \in DOMAIN device, device[d].active
        PROVE  created'[device[d].port] = d \/ \E v \in Users : Inserting(v, d)'
    <3>1. CASE \E v \in Users \ {u} : Inserting(v, d)
      BY <2>1, <2>2, <3>1
    <3>2. CASE Inserting(u, d)
      BY <2>1, <2>3, <2>5, <3>2
    <3>3. CASE created[device[d].port] = d
      <4>1. d # 0 /\ device[d].port \in Ports
        BY CallFacts
      <4> QED BY <2>3, <3>3, <4>1
    <3> QED BY <2>5, <3>1, <3>2, <3>3
  <2> QED BY <2>1, <2>2, <2>4, <2>5
<1>17. ASSUME NEW u \in Users, Release(u) PROVE Tracking'
  BY <1>17 DEF Release
<1>18. ASSUME NEW u \in Users, Reboot(u) PROVE Tracking'
  BY <1>18 DEF Reboot
<1>19. CASE UNCHANGED hotplugVars
  BY <1>19 DEF hotplugVars
<1> QED BY <1>1, <1>2, <1>3, <1>4, <1>5, <1>6, <1>7, <1>8, <1>9, <1>10, <1>11, <1>12, <1>13,
           <1>14, <1>15, <1>16, <1>17, <1>18, <1>19 DEF HotplugNext, Watches, Arrivals

(* The list and the ports of the watcher stay together.                    *)
LEMMA LookingStep ==
  ASSUME HotplugTypeOK, Looking, [HotplugNext]_hotplugVars
  PROVE  Looking'
<1> USE  DEF Looking, Listed, platformVars, listVars, arrivalVars, useVars, histories
<1>1. ASSUME NEW p \in Ports, Plug(p) PROVE Looking'
  BY <1>1 DEF Plug, Reported
<1>2. ASSUME NEW p \in Ports, Unplug(p) PROVE Looking'
  BY <1>2 DEF Unplug, Reported
<1>3. CASE Arrived
  BY <1>3 DEF Arrived
<1>4. CASE Removed
  <2>1. /\ list' = Relisted(Head(events).port)
             /\ current' = current \ {Head(events).port}
        /\ UNCHANGED <<arrival, seen>>
        /\ (~outdated' => ~outdated /\ arrival # "append")
    BY <1>4 DEF Removed
  <2>2. ASSUME ~outdated, NEW q \in Ports, list'[q] > 0 PROVE q \in current'
    BY <2>1, <2>2 DEF Relisted, HotplugTypeOK
  <2> QED BY <2>1, <2>2
<1>5. CASE ArrivalTests
  BY <1>5 DEF ArrivalTests, ArrivalMove
<1>6. CASE ArrivalWaits
  BY <1>6 DEF ArrivalWaits, ArrivalMove
<1>7. CASE Settles
  BY <1>7 DEF Settles, ArrivalMove
<1>8. CASE Looks
  BY <1>8 DEF Looks, ArrivalMove
<1>9. CASE Matches
  BY <1>9 DEF Matches, ArrivalMove
<1>10. CASE Appends
  BY <1>10 DEF Appends, ArrivalMove
<1>11. ASSUME NEW h \in handlers, Handle(h) PROVE Looking'
  BY <1>11 DEF Handle
<1>12. ASSUME NEW u \in Users, NEW p \in Ports, Share(u, p) PROVE Looking'
  BY <1>12 DEF Share
<1>13. ASSUME NEW u \in Users, NEW p \in Ports, Create(u, p) PROVE Looking'
  BY <1>13 DEF Create
<1>14. ASSUME NEW u \in Users, Build(u) PROVE Looking'
  BY <1>14 DEF Build
<1>15. ASSUME NEW u \in Users, BuildThrows(u) PROVE Looking'
  BY <1>15 DEF BuildThrows
<1>16. ASSUME NEW u \in Users, Insert(u) PROVE Looking'
  BY <1>16 DEF Insert
<1>17. ASSUME NEW u \in Users, Release(u) PROVE Looking'
  BY <1>17 DEF Release
<1>18. ASSUME NEW u \in Users, Reboot(u) PROVE Looking'
  BY <1>18 DEF Reboot
<1>19. CASE UNCHANGED hotplugVars
  BY <1>19 DEF hotplugVars
<1> QED BY <1>1, <1>2, <1>3, <1>4, <1>5, <1>6, <1>7, <1>8, <1>9, <1>10, <1>11, <1>12, <1>13,
           <1>14, <1>15, <1>16, <1>17, <1>18, <1>19 DEF HotplugNext, Watches, Arrivals

(* A step that takes no report away, makes no device and begins no call    *)
(* keeps what is expected of the watcher.                                  *)
LEMMA ExpectingKept ==
  ASSUME Expecting, ~overlapped' /\ ~outdated' => ~overlapped /\ ~outdated,
         \A p \in Ports :
           /\ Building(p)' => Building(p)
           /\ Active(p)' \subseteq Active(p)
           /\ Stale(p)' => Stale(p)
           /\ p \in Listed => p \in Listed'
           /\ Awaited(p) => Awaited(p)'
           /\ Unreported(p) => Unreported(p)'
  PROVE  Expecting'
BY DEF Expecting

(* What happens to the devices in a step that makes none.                  *)
LEMMA NoNewDevice ==
  ASSUME HotplugTypeOK, HotplugTypeOK', plug' = plug,
         \A d \in DOMAIN device' :
           /\ d \in DOMAIN device /\ (device'[d].active => device[d].active)
           /\ device'[d].port = device[d].port /\ device'[d].plug = device[d].plug
  PROVE  \A p \in Ports : Active(p)' \subseteq Active(p) /\ (Stale(p)'
           => Stale(p))
<1>1. DOMAIN device = 1..Len(device) /\ DOMAIN device' = 1..Len(device')
  BY CallFacts DEF HotplugTypeOK
<1>2. ASSUME NEW p \in Ports PROVE Active(p)' \subseteq Active(p)
  BY <1>1 DEF Active
<1>3. ASSUME NEW p \in Ports, NEW d \in Active(p)', ~Present(d)'
      PROVE  ~Present(d)
  BY <1>1, <1>3 DEF Active, Present
<1> QED BY <1>2, <1>3 DEF Stale

(* No removal gets lost that a device is waiting for.                      *)
LEMMA ExpectingStep ==
  ASSUME HotplugTypeOK, HotplugTypeOK', Holding, Tracking, Looking, Expecting,
         [HotplugNext]_hotplugVars
  PROVE  Expecting'
<1> USE DEF platformVars, listVars, arrivalVars, useVars, histories
<1>1. DOMAIN device = 1..Len(device) /\ DOMAIN device' = 1..Len(device')
  BY CallFacts DEF HotplugTypeOK
<1>2. ASSUME UNCHANGED <<plug, list, events, handlers, device, pc>>,
             ~overlapped' /\ ~outdated' => ~overlapped /\ ~outdated
      PROVE  Expecting'
  BY <1>2, ExpectingKept DEF Building, Active, Stale, Present, Listed, Awaited, Unreported
<1>3. CASE ArrivalTests \/ ArrivalWaits \/ Settles \/ Looks
             \/ Matches
  BY <1>2, <1>3 DEF ArrivalTests, ArrivalWaits, Settles, Looks, Matches, ArrivalMove
<1>4. ASSUME NEW u \in Users, NEW p \in Ports, Share(u, p) PROVE Expecting'
  BY <1>2, <1>4 DEF Share
<1>5. CASE UNCHANGED hotplugVars
  BY <1>2, <1>5 DEF hotplugVars
<1>6. CASE Appends
  <2>1. UNCHANGED <<plug, events, handlers, device, pc, overlapped, outdated>>
    BY <1>6 DEF Appends, ArrivalMove
  <2>2. \A p \in Ports : p \in Listed => p \in Listed'
    BY <1>6 DEF Appends, Listed, HotplugTypeOK
  <2> QED BY <2>1, <2>2, ExpectingKept DEF Building, Active, Stale, Present, Awaited,
             Unreported
<1>7. CASE Arrived
  <2>1. UNCHANGED <<plug, list, handlers, device, pc, overlapped, outdated>>
    BY <1>7 DEF Arrived
  <2>2. ASSUME NEW p \in Ports, Unreported(p) PROVE Unreported(p)'
    <3>1. PICK i \in DOMAIN events : events[i].kind = "removed" /\ events[i].port = p
      BY <2>2 DEF Unreported
    <3>2. /\ events # <<>> /\ events' = Tail(events) /\ Head(events).kind = "arrival"
          /\ events \in Seq(Reports)
      BY <1>7 DEF Arrived, HotplugTypeOK
    <3>3. i \in 1..Len(events) /\ i # 1 /\ Len(events) \in Nat
      BY <3>1, <3>2
    <3>4. i - 1 \in DOMAIN events' /\ events'[i - 1] = events[i]
      BY <3>2, <3>3, HeadTailProperties
    <3> QED BY <3>1, <3>4 DEF Unreported
  <2> QED BY <2>1, <2>2, ExpectingKept DEF Building, Active, Stale, Present, Listed, Awaited
<1>8. ASSUME NEW u \in Users, BuildThrows(u) \/ Insert(u) PROVE Expecting'
  <2>1. /\ UNCHANGED <<plug, list, events, handlers, device, overlapped, outdated>>
        /\ pc' = [pc EXCEPT ![u] = Idle]
    BY <1>8 DEF BuildThrows, Insert
  <2>2. \A p \in Ports : Building(p)' => Building(p)
    BY <2>1, CallFacts DEF Building
  <2> QED BY <2>1, <2>2, ExpectingKept DEF Active, Stale, Present, Listed, Awaited,
             Unreported
<1>9. ASSUME NEW u \in Users, Release(u) \/ Reboot(u) PROVE Expecting'
  <2>1. UNCHANGED <<plug, list, events, handlers, pc, overlapped, outdated>>
    BY <1>9 DEF Release, Reboot
  <2>2. held[u] \in DOMAIN device
    BY <1>9, CallFacts DEF Release, Reboot, Holding
  <2>3. device' = device
          \/ device' = [device EXCEPT ![held[u]] = [device[held[u]] EXCEPT !.active = FALSE]]
    BY <1>9 DEF Release, Reboot
  <2>4. \A d \in DOMAIN device' :
          /\ d \in DOMAIN device /\ (device'[d].active => device[d].active)
          /\ device'[d].port = device[d].port /\ device'[d].plug = device[d].plug
    BY ZenonT(30), <2>2, <2>3, CallFacts, RecordFacts
  <2>5. \A p \in Ports : Active(p)' \subseteq Active(p) /\ (Stale(p)'
          => Stale(p))
    BY <2>1, <2>4, NoNewDevice
  <2> QED BY <2>1, <2>5, ExpectingKept DEF Building, Listed, Awaited, Unreported
<1>10. ASSUME NEW p \in Ports, Plug(p) PROVE Expecting'
  <2>1. /\ plug[p] = 0 /\ plug' = [plug EXCEPT ![p] = plugs']
        /\ events' = Append(events, [kind |-> "arrival", port |-> p, plug |-> plugs'])
        /\ UNCHANGED <<list, handlers, device, pc, overlapped, outdated>>
    BY <1>10 DEF Plug, Reported
  <2>2. ASSUME NEW q \in Ports, Unreported(q) PROVE Unreported(q)'
    <3>1. events \in Seq(Reports) /\ Len(events) \in Nat
      BY DEF HotplugTypeOK
    <3> QED BY <2>1, <2>2, <3>1, AppendProperties DEF Unreported
  <2>3. ASSUME NEW q \in Ports, NEW d \in Active(q), ~Present(d)'
        PROVE  ~Present(d)
    <3>1. d \in DOMAIN device /\ device[d] \in Devices /\ device[d].port = q
      BY <1>1, CallFacts DEF Active
    <3>2. device[d].plug # 0
      BY <3>1, RecordFacts
    <3> QED BY <2>1, <2>3, <3>1, <3>2 DEF Present, HotplugTypeOK
  <2>4. \A q \in Ports : Stale(q)' => Stale(q)
    BY <2>1, <2>3 DEF Stale, Active
  <2> QED BY <2>1, <2>2, <2>4, ExpectingKept DEF Building, Active, Listed, Awaited
<1>11. ASSUME NEW p \in Ports, Unplug(p) PROVE Expecting'
  <2>1. /\ plug' = [plug EXCEPT ![p] = 0]
        /\ events' = Append(events, [kind |-> "removed", port |-> p, plug |-> plug[p]])
        /\ UNCHANGED <<list, handlers, device, pc, overlapped, outdated>>
    BY <1>11 DEF Unplug, Reported
  <2>2. events \in Seq(Reports) /\ Len(events) \in Nat
    BY DEF HotplugTypeOK
  <2>3. ASSUME NEW q \in Ports, Unreported(q) PROVE Unreported(q)'
    BY <2>1, <2>2, <2>3, AppendProperties DEF Unreported
  <2>4. Unreported(p)'
    <3>1. Len(events) + 1 \in DOMAIN events'
          /\ events'[Len(events) + 1] = [kind |-> "removed", port |-> p, plug |-> plug[p]]
      BY <2>1, <2>2, AppendProperties
    <3> QED BY <3>1 DEF Unreported
  <2>5. ASSUME NEW q \in Ports, q # p PROVE Stale(q)' => Stale(q)
    <3>1. plug'[q] = plug[q]
      BY <2>1, <2>5 DEF HotplugTypeOK
    <3>2. ASSUME NEW d \in Active(q), ~Present(d)' PROVE ~Present(d)
      <4>1. device[d].port = q
        BY DEF Active
      <4> QED BY <2>1, <3>1, <3>2, <4>1 DEF Present
    <3>3. Active(q)' = Active(q)
      BY <2>1 DEF Active
    <3> QED BY <3>2, <3>3 DEF Stale
  <2>6. \A q \in Ports :
          /\ Building(q)' = Building(q)
               /\ Active(q)' = Active(q)
          /\ (q \in Listed)' = (q \in Listed) /\ Awaited(q)' = Awaited(q)
    BY <2>1 DEF Building, Active, Listed, Awaited
  <2> QED BY <2>1, <2>3, <2>4, <2>5, <2>6 DEF Expecting
<1>12. CASE Removed
  <2>1. PICK e \in Reports : e = Head(events)
    BY <1>12, HeadTailProperties DEF Removed, HotplugTypeOK
  <2>2. e.port \in Ports
    BY RecordFacts
  <2>3. /\ list' = Relisted(e.port) /\ UNCHANGED <<plug, device, pc, overlapped>>
        /\ handlers' = IF Gone(e.port) = {} THEN handlers
                         ELSE handlers \cup {[ports |-> Gone(e.port), plug |-> e.plug]}
        /\ events # <<>> /\ events' = Tail(events) /\ (~outdated' => ~outdated)
    BY <1>12, <2>1 DEF Removed
  <2>4. \A q \in Ports :
          /\ Building(q)' = Building(q)
               /\ Active(q)' = Active(q) /\ Stale(q)' = Stale(q)
          /\ (Awaited(q) => Awaited(q)')
    BY <2>3 DEF Building, Active, Stale, Present, Awaited
  <2>5. ASSUME ~outdated', NEW q \in Ports, q \in Listed
        PROVE  q \in Listed' \/ Awaited(q)'
    <3>1. q \in current /\ list[q] > 0
      BY <2>3, <2>5 DEF Looking, Listed
    <3>2. CASE q # e.port
      BY <2>3, <3>1, <3>2 DEF Listed, Relisted
    <3>3. CASE q = e.port
      <4>1. q \in Gone(e.port)
        BY <2>5, <3>1, <3>3 DEF Gone, Relisted
      <4>2. [ports |-> Gone(e.port), plug |-> e.plug] \in handlers'
        BY <2>3, <4>1
      <4> QED BY <4>1, <4>2 DEF Awaited
    <3> QED BY <3>2, <3>3
  <2>6. ASSUME NEW q \in Ports, q # e.port, Unreported(q) PROVE Unreported(q)'
    <3>1. PICK i \in DOMAIN events : events[i].kind = "removed" /\ events[i].port = q
      BY <2>6 DEF Unreported
    <3>2. events \in Seq(Reports)
      BY DEF HotplugTypeOK
    <3>3. i \in 1..Len(events) /\ i # 1 /\ Len(events) \in Nat
      BY <2>1, <2>3, <2>6, <3>1, <3>2
    <3>4. i - 1 \in DOMAIN events' /\ events'[i - 1] = events[i]
      BY <2>3, <3>2, <3>3, HeadTailProperties
    <3> QED BY <3>1, <3>4 DEF Unreported
  <2>7. e.port \notin Listed'
    BY <2>2, <2>3 DEF Listed, Relisted
  <2>8. ASSUME ~overlapped', ~outdated', NEW q \in Ports, Stale(q)
        PROVE  Unreported(q)' \/ Awaited(q)'
    <3>1. CASE q = e.port
      <4>1. q \in Listed \/ Awaited(q)
        BY <2>3, <2>8 DEF Expecting, Stale
      <4> QED BY <2>4, <2>5, <2>7, <2>8, <3>1, <4>1
    <3>2. CASE q # e.port
      BY <2>3, <2>4, <2>6, <2>8, <3>2 DEF Expecting
    <3> QED BY <3>1, <3>2
  <2> QED BY <2>3, <2>4, <2>5, <2>8 DEF Expecting
<1>13. ASSUME NEW h \in handlers, Handle(h) PROVE Expecting'
  <2>1. /\ handlers' = handlers \ {h} /\ DOMAIN device' = DOMAIN device
        /\ (~overlapped' => ~overlapped /\ \A p \in h.ports : ~Building(p))
        /\ UNCHANGED <<plug, events, list, pc, held, outdated>>
    BY <1>13 DEF Handle
  <2>2. ASSUME NEW d \in DOMAIN device
        PROVE  /\ (device'[d].active => device[d].active /\ \A p \in h.ports : created[p] # d)
               /\ device'[d].port = device[d].port /\ device'[d].plug = device[d].plug
    BY <1>13, CallFacts, RecordFacts DEF Handle
  <2>3. \A p \in Ports : Active(p)' \subseteq Active(p) /\ (Stale(p)'
          => Stale(p))
    BY <2>1, <2>2, NoNewDevice
  <2>4. ASSUME ~overlapped', NEW p \in h.ports, p \in Ports
        PROVE  ~Building(p)' /\ Active(p)' = {}
    <3>1. ~Building(p) /\ ~overlapped
      BY <2>1, <2>4
    <3>2. ASSUME NEW d \in Active(p)' PROVE FALSE
      <4>1. /\ d \in DOMAIN device /\ device[d].active /\ device[d].port = p
            /\ created[p] # d
        BY <1>1, <2>1, <2>2, <2>4, <3>2 DEF Active
      <4>2. PICK u \in Users : Inserting(u, d)
        BY <3>1, <4>1 DEF Tracking
      <4>3. pc[u].port = p
        BY <4>1, <4>2, CallFacts DEF Inserting, Holding
      <4> QED BY <3>1, <4>2, <4>3 DEF Building, Inserting
    <3> QED BY <2>1, <3>1, <3>2 DEF Building
  <2>5. ASSUME NEW p \in Ports, p \notin h.ports
        PROVE  /\ Building(p)' = Building(p)
                    /\ (p \in Listed)' = (p \in Listed)
               /\ Awaited(p)' = Awaited(p) /\ Unreported(p)' = Unreported(p)
    BY <2>1, <2>5 DEF Building, Listed, Awaited, Unreported
  <2>6. ASSUME ~overlapped', ~outdated', NEW p \in Ports, p \notin h.ports
        PROVE  /\ (Building(p)' \/ Active(p)' # {} => p \in Listed'
                    \/ Awaited(p)')
               /\ (Stale(p)' => Unreported(p)' \/ Awaited(p)')
    BY <2>1, <2>3, <2>5, <2>6 DEF Expecting
  <2>7. ASSUME ~overlapped', NEW p \in Ports, p \in h.ports
        PROVE  ~Building(p)' /\ Active(p)' = {} /\ ~Stale(p)'
    BY <2>4, <2>7 DEF Stale
  <2> QED BY <2>6, <2>7 DEF Expecting
<1>14. ASSUME NEW u \in Users, NEW p \in Ports, Create(u, p) PROVE Expecting'
  <2>1. /\ UNCHANGED <<plug, list, events, handlers, device, outdated>>
        /\ pc' = [pc EXCEPT ![u] = [at |-> "build", port |-> p]]
        /\ (~overlapped' => ~overlapped /\ p \in Listed)
    BY <1>14 DEF Create
  <2>2. \A q \in Ports : Building(q)' => Building(q) \/ q = p
    BY <2>1, CallFacts DEF Building
  <2>3. \A q \in Ports :
          /\ Active(q)' = Active(q) /\ Stale(q)' = Stale(q)
               /\ (q \in Listed)' = (q \in Listed)
          /\ Awaited(q)' = Awaited(q) /\ Unreported(q)' = Unreported(q)
    BY <2>1 DEF Active, Stale, Present, Listed, Awaited, Unreported
  <2> QED BY <2>1, <2>2, <2>3 DEF Expecting
<1>15. ASSUME NEW u \in Users, Build(u) PROVE Expecting'
  <2>1. /\ UNCHANGED <<plug, list, events, handlers, overlapped, outdated>>
        /\ pc[u] # Idle /\ pc' = [pc EXCEPT ![u] = [pc[u] EXCEPT !.at = "insert"]]
    BY <1>15 DEF Build
  <2>2. PICK p \in Ports : p = pc[u].port
    BY <2>1, CallFacts
  <2>3. \A q \in Ports : Building(q)' => Building(q)
    <3>1. pc'[u].port = p /\ \A v \in Users \ {u} : pc'[v] = pc[v]
      BY <2>1, <2>2, CallFacts, RecordFacts
    <3> QED BY <2>1, <2>2, <3>1 DEF Building
  <2>4. /\ Len(device') = Len(device) + 1
        /\ device'[Len(device) + 1] = [port |-> p, plug |-> plug[p], active |-> TRUE]
        /\ \A d \in DOMAIN device : device'[d] = device[d]
    BY <1>15, <2>2, CallFacts, AppendProperties DEF Build
  <2>5. ASSUME NEW q \in Ports, NEW d \in Active(q)'
        PROVE  d \in Active(q) \/ (q = p /\ Present(d)')
    <3>1. CASE d = Len(device) + 1
      BY <2>1, <2>4, <2>5, <3>1 DEF Active, Present
    <3>2. CASE d # Len(device) + 1
      <4>1. d \in DOMAIN device
        BY <1>1, <2>4, <2>5, <3>2, CallFacts DEF Active
      <4> QED BY <1>1, <2>4, <2>5, <4>1 DEF Active
    <3> QED BY <3>1, <3>2
  <2>6. ASSUME NEW q \in Ports, NEW d \in Active(q)
        PROVE  Present(d)' = Present(d)
    BY <1>1, <2>1, <2>4 DEF Active, Present
  <2>7. Building(p)
    BY <2>1, <2>2 DEF Building
  <2>8. \A q \in Ports :
          /\ (Building(q)' \/ Active(q)' # {} => Building(q)
               \/ Active(q) # {})
          /\ (Stale(q)' => Stale(q))
          /\ (q \in Listed)' = (q \in Listed)
          /\ Awaited(q)' = Awaited(q) /\ Unreported(q)' = Unreported(q)
    BY <2>1, <2>3, <2>5, <2>6, <2>7 DEF Stale, Listed, Awaited, Unreported
  <2> QED BY <2>1, <2>8 DEF Expecting
<1> QED BY <1>3, <1>4, <1>5, <1>6, <1>7, <1>8, <1>9, <1>10, <1>11, <1>12, <1>13, <1>14,
           <1>15 DEF HotplugNext, Watches, Arrivals

-----------------------------------------------------------------------------
(* UsbDeviceEnumerator.cpp and DeviceManager.cpp: the list, the handlers   *)
(* and the devices stay consistent, for every number of ports and users.   *)
THEOREM HotplugInvHolds == HotplugSpec => []HotplugInv
<1>1. HotplugInit => HotplugInv
  <2> SUFFICES ASSUME HotplugInit PROVE HotplugInv
    OBVIOUS
  <2> USE DEF HotplugInit
  <2>1. HotplugTypeOK
    <3>1. events \in Seq(Reports) /\ device \in Seq(Devices)
      OBVIOUS
    <3>2. 0 \in 0..MaxDevices /\ 0 \in 0..MaxPlugs /\ 0 \in 0..plugs /\ 0 \in Nat
      BY HotplugAssumption
    <3>3. plug \in [Ports -> 0..plugs] /\ list \in [Ports -> Nat]
      BY <3>2
    <3>4. created \in [Ports -> 0..MaxDevices] /\ held \in [Users -> 0..MaxDevices]
      BY <3>2
    <3>5. plugs \in 0..MaxPlugs /\ pc \in [Users -> Calls \cup {Idle}]
            /\ handlers \subseteq Removals
      BY <3>2
    <3> QED BY <3>1, <3>3, <3>4, <3>5 DEF HotplugTypeOK
  <2>2. DOMAIN device = {} /\ Len(device) = 0 /\ \A p \in Ports : Active(p) = {}
    BY DEF Active
  <2>3. Holding
    BY <2>2 DEF Holding
  <2>4. Tracking
    BY <2>2 DEF Tracking
  <2>5. Looking
    BY DEF Looking, Listed
  <2>6. Expecting
    BY <2>2 DEF Expecting, Building, Stale
  <2> QED BY <2>1, <2>3, <2>4, <2>5, <2>6 DEF HotplugInv
<1>2. HotplugInv /\ [HotplugNext]_hotplugVars => HotplugInv'
  <2> SUFFICES ASSUME HotplugInv, [HotplugNext]_hotplugVars PROVE HotplugInv'
    OBVIOUS
  <2>1. HotplugTypeOK /\ Holding /\ Tracking /\ Looking /\ Expecting
    BY DEF HotplugInv
  <2>2. HotplugTypeOK'
    BY <2>1, HotplugTypes
  <2>3. Holding' /\ Tracking' /\ Looking' /\ Expecting'
    BY <2>1, <2>2, HoldingStep, TrackingStep, LookingStep, ExpectingStep
  <2> QED BY <2>2, <2>3 DEF HotplugInv
<1> QED BY <1>1, <1>2, PTL DEF HotplugSpec

(* createdDevices_ and onDeviceChanged: a port has one active device at    *)
(* most, and none from an earlier plugging in once what was reported of    *)
(* the port is handled, unless calls overlap or a removal crosses a look.  *)
THEOREM DevicesArePresentHolds == HotplugSpec => []DevicesArePresent
<1>1. HotplugInv => DevicesArePresent
  <2> SUFFICES ASSUME HotplugInv, ~overlapped, ~outdated, NEW p \in Ports
               PROVE  /\ \A d, e \in Active(p) : d = e
                      /\ Handled => \A d \in Active(p) : Present(d)
    BY DEF DevicesArePresent
  <2>1. HotplugTypeOK /\ Holding /\ Tracking /\ Expecting
    BY DEF HotplugInv
  <2>2. \A d \in Active(p) : d \in DOMAIN device /\ device[d].active
          /\ device[d].port = p
    BY <2>1, CallFacts DEF Active
  <2>3. ASSUME NEW d \in Active(p), NEW e \in Active(p) PROVE d = e
    <3>1. created[p] = d \/ \E u \in Users : Inserting(u, d)
      BY <2>1, <2>2 DEF Tracking
    <3>2. created[p] = e \/ \E u \in Users : Inserting(u, e)
      BY <2>1, <2>2 DEF Tracking
    <3>3. ASSUME NEW c \in Active(p), NEW u \in Users, Inserting(u, c)
          PROVE  pc[u] # Idle /\ pc[u].port = p /\ held[u] = c /\ created[p] = 0
      <4>1. pc[u] # Idle /\ pc[u].at = "insert" /\ held[u] = c
        BY <3>3 DEF Inserting
      <4>2. device[c].port = pc[u].port
        BY <2>1, <4>1 DEF Holding
      <4>3. created[pc[u].port] = 0
        BY <2>1, <4>1 DEF Tracking
      <4> QED BY <2>2, <4>1, <4>2, <4>3
    <3>4. d # 0 /\ e # 0
      BY <2>1, <2>2, CallFacts
    <3> QED BY <2>1, <3>1, <3>2, <3>3, <3>4 DEF Tracking
  <2>4. ASSUME Handled PROVE \A d \in Active(p) : Present(d)
    <3>1. ~Unreported(p) /\ ~Awaited(p)
      BY <2>4 DEF Handled, Unreported, Awaited
    <3>2. ~Stale(p)
      BY <2>1, <3>1 DEF Expecting
    <3> QED BY <3>2 DEF Stale
  <2> QED BY <2>3, <2>4
<1>2. HotplugSpec => []HotplugInv
  BY HotplugInvHolds
<1> QED BY <1>1, <1>2, PTL
=============================================================================
