---------------------------- MODULE SensorStream -----------------------------
(***************************************************************************)
(* A video sensor's stream and its recovery: SensorBase                    *)
(* (device/component/sensor/SensorBase.cpp) with start and stop of         *)
(* VideoSensor.                                                            *)
(*   the user      start, stop                                             *)
(*   the watcher   watchStreamState: restarts a stream that delivers no    *)
(*                 frames                                                  *)
(*   the backend   delivers frames while it streams                        *)
(* streamState_ is written by updateStreamState under streamStateMutex_,   *)
(* which ignores every update while onRecovering_ is set.                  *)
(* streamRecoverMutex_ is held by the watcher during a restart.  A         *)
(* sleeping watcher is woken by a state update or by its timeout.          *)
(*                                                                         *)
(* Operators named Mut... are seeded faults; the specification uses none.  *)
(***************************************************************************)
EXTENDS Integers

CONSTANTS
  Recoveries,     \* recovery was enabled when the sensor was created: TRUE, FALSE
                  \* or either
  MaxRecovery,    \* maxRecoveryCount_
  Profiles,       \* profiles the user passes: "known" to the backend or "unknown"
  UserStops,      \* the user stops the stream
  StartFails,     \* startStream of the backend may throw
  StopFails,      \* stopStream of the backend may throw
  SlowStart,      \* startStream may take longer than noStreamTimeoutMs_
  MaxStarts       \* bound: starts by the user

ASSUME SensorAssumption ==
  /\ {UserStops, StartFails, StopFails, SlowStart} \cup Recoveries \subseteq BOOLEAN
  /\ Profiles \subseteq {"known", "unknown"}
  /\ MaxRecovery \in Nat \ {0} /\ MaxStarts \in Nat

VARIABLES
  streamState,   \* streamState_
  onRecovering,  \* onRecovering_
  recoveryCount, \* recoveryCount_
  profile,       \* activatedStreamProfile_, "none" when it is not set
  callback,      \* frameCallback_ is set
  backend,       \* the backend streams
  inFlight,      \* a frame has passed the check of onBackendFrameCallback
  user,          \* where the user is in a call
  watcher,       \* where the watcher is, "none" without recovery
  recoverer,     \* the watcher holds streamRecoverMutex_
  saved,         \* the profile and the callback restartStream keeps
  stream,        \* history: outcome of the user's last call
  mishap,        \* history: what calls of the user have left behind
  starts,        \* starts by the user
  tries          \* history: restarts since the last frame or start

sensorVars == <<profile, callback, backend, inFlight>>
recoveryVars == <<onRecovering, recoverer, recoveryCount, saved, tries>>
userVars == <<user, stream, mishap, starts>>
vars == <<streamState, watcher, sensorVars, recoveryVars, userVars>>

StreamState == {"stopped", "starting", "streaming", "stopping", "error", "start_failed"}
UserState == {"idle", "starting", "waiting", "stopping", "backend", "stopped", "clear"}
WatcherState == {"none", "check", "to_sleep", "asleep", "starting_wait", "streaming_wait",
                 "starting_woken", "woken", "decided", "stop", "clear", "start", "count"}

Profile == {"none", "known", "unknown"}
Saved == [profile : Profile, callback : BOOLEAN]
Mishaps == SUBSET {"unknown_profile", "started_twice", "stop_failed"}

(* onRecovering_ is set exactly while the watcher holds streamRecoverMutex_*)
(* for a restart.                                                          *)
TypeOK ==
  /\ streamState \in StreamState
  /\ profile \in Profile /\ callback \in BOOLEAN /\ backend \in BOOLEAN
  /\ inFlight \in BOOLEAN /\ (inFlight => backend)
  /\ onRecovering \in BOOLEAN /\ recoverer = onRecovering
  /\ onRecovering <=> watcher \in {"stop", "clear", "start", "count"}
  /\ recoveryCount \in 0..MaxRecovery
  /\ saved \in Saved
  /\ user \in UserState
  /\ watcher \in WatcherState
  /\ stream \in {"on", "off", "failed"}
  /\ mishap \in Mishaps
  /\ starts \in 0..MaxStarts
  /\ tries \in Nat

Init ==
  /\ streamState = "stopped"
  /\ profile = "none" /\ callback = FALSE /\ backend = FALSE /\ inFlight = FALSE
  /\ onRecovering = FALSE /\ recoverer = FALSE
  /\ recoveryCount = 0
  /\ saved = [profile |-> "none", callback |-> FALSE]
  /\ user = "idle"
  /\ \E recovery \in Recoveries : watcher = IF recovery THEN "check" ELSE "none"
  /\ stream = "off" /\ mishap = {}
  /\ starts = 0
  /\ tries = 0

-----------------------------------------------------------------------------
IsStreamActivated == streamState \in {"starting", "streaming", "error", "stopping"}

(* updateStreamState: suppressed during a recovery, and a late frame does  *)
(* not revive a stream that is being stopped.  notify_all reaches the      *)
(* watcher only while it waits.                                            *)
Suppressed(state) ==
  onRecovering \/ (state = "streaming" /\ streamState = "stopping")

Woken ==
  CASE watcher \in {"asleep", "streaming_wait"} -> "woken"
    [] watcher = "starting_wait" -> "starting_woken"
    [] OTHER -> watcher

UpdateStreamState(state) ==
  IF Suppressed(state)
    THEN UNCHANGED <<streamState, watcher>>
    ELSE streamState' = state /\ watcher' = Woken

-----------------------------------------------------------------------------
(* VideoSensor::start by the user, who may call it on a stream that is on. *)
BeginStart(sp) ==
  /\ user = "idle"
  /\ starts < MaxStarts
  /\ starts' = starts + 1
  /\ tries' = 0
  /\ profile' = sp /\ callback' = TRUE
  /\ UpdateStreamState("starting")
  /\ UNCHANGED <<backend, inFlight, onRecovering, recoverer, recoveryCount, saved>>

Start ==
  /\ "known" \in Profiles
  /\ BeginStart("known")
  /\ user' = "starting"
  /\ UNCHANGED <<stream, mishap>>

(* A profile without a backend profile: what was set stays.                *)
StartUnknown ==
  /\ "unknown" \in Profiles
  /\ BeginStart("unknown")
  /\ stream' = "failed"
  /\ mishap' = mishap \cup {"unknown_profile"}
  /\ UNCHANGED user

(* A port that streams already may restart the stream or throw.            *)
StartBackend ==
  /\ user = "starting"
  /\ backend' = TRUE
  /\ stream' = "on" /\ mishap' = {}
  /\ user' = "idle"
  /\ UNCHANGED <<streamState, watcher, profile, callback, inFlight, recoveryVars, starts>>

(* The backend throws, for a reason of its own or because it streams, and  *)
(* then goes on.                                                           *)
MutStartBackendThrows ==
  /\ user = "starting"
  /\ StartFails \/ backend
  /\ profile' = "none" /\ callback' = FALSE
  /\ stream' = "failed"
  /\ mishap' = IF backend THEN mishap \cup {"started_twice"} ELSE {}
  /\ user' = "idle"
  /\ UNCHANGED <<streamState, watcher, backend, inFlight, recoveryVars, starts>>

StartBackendThrows ==
  /\ user = "starting"
  /\ StartFails \/ backend
  /\ profile' = "none" /\ callback' = FALSE
  /\ UpdateStreamState("start_failed")
  /\ stream' = "failed"
  /\ mishap' = IF backend THEN mishap \cup {"started_twice"} ELSE {}
  /\ user' = "idle"
  /\ UNCHANGED <<backend, inFlight, recoveryVars, starts>>

(* VideoSensor::stop by the user.                                          *)
Stop ==
  /\ UserStops
  /\ user = "idle"
  /\ IF IsStreamActivated
       THEN user' = "waiting" /\ UNCHANGED stream
       ELSE stream' = "off" /\ UNCHANGED user
  /\ UNCHANGED <<streamState, watcher, sensorVars, recoveryVars, mishap, starts>>

StopMove(from, to) ==
  /\ user = from
  /\ user' = to
  /\ UNCHANGED <<recoveryVars, starts>>

(* waitRecoveringFinished: streamRecoverMutex_ is locked and let go.       *)
StopWait ==
  /\ StopMove("waiting", "stopping")
  /\ ~recoverer
  /\ UNCHANGED <<streamState, watcher, sensorVars, stream, mishap>>

StopStopping ==
  /\ StopMove("stopping", "backend")
  /\ UpdateStreamState("stopping")
  /\ UNCHANGED <<sensorVars, stream, mishap>>

(* The backend's stopStream joins the thread that delivers frames.         *)
StreamOff == ~inFlight /\ backend' = FALSE /\ UNCHANGED inFlight

StopBackend ==
  /\ StopMove("backend", "stopped")
  /\ StreamOff
  /\ mishap' = {}
  /\ UNCHANGED <<streamState, watcher, profile, callback, stream>>

(* stop() swallows what stopStream throws, and a port does nothing about a *)
(* profile it does not stream: the backend may go on.                      *)
StopBackendThrows ==
  /\ StopFails
  /\ StopMove("backend", "stopped")
  /\ mishap' = IF backend THEN {"stop_failed"} ELSE {}
  /\ UNCHANGED <<streamState, watcher, sensorVars, stream>>

StopStopped ==
  /\ StopMove("stopped", "clear")
  /\ UpdateStreamState("stopped")
  /\ UNCHANGED <<sensorVars, stream, mishap>>

StopClear ==
  /\ StopMove("clear", "idle")
  /\ profile' = "none" /\ callback' = FALSE
  /\ stream' = "off"
  /\ UNCHANGED <<streamState, watcher, backend, inFlight, mishap>>

User ==
  \/ StartBackend \/ StartBackendThrows
  \/ StopWait \/ StopStopping \/ StopBackend \/ StopBackendThrows \/ StopStopped \/ StopClear

-----------------------------------------------------------------------------
(* onBackendFrameCallback: the state is checked, and updated later.        *)
FrameArrives ==
  /\ backend /\ ~inFlight
  /\ streamState \in {"starting", "streaming"}
  /\ inFlight' = TRUE
  /\ UNCHANGED <<streamState, watcher, profile, callback, backend, recoveryVars, userVars>>

FrameUpdates ==
  /\ inFlight
  /\ UpdateStreamState("streaming")
  /\ inFlight' = FALSE
  /\ tries' = 0
  /\ UNCHANGED <<profile, callback, backend, onRecovering, recoverer, recoveryCount, saved,
                 userVars>>

-----------------------------------------------------------------------------
(* watchStreamState.  The state is read without the mutex; sleeping takes  *)
(* it, and an update in between is missed.  START_FAILED matches no branch *)
(* and the loop turns.                                                     *)
WatcherMove(from, to) ==
  /\ watcher = from
  /\ watcher' = to
  /\ UNCHANGED <<streamState, userVars>>

Check ==
  /\ streamState # "start_failed"
  /\ WatcherMove("check",
       CASE streamState = "starting"  -> "starting_wait"
         [] streamState = "streaming" -> "streaming_wait"
         [] OTHER                     -> "to_sleep")
  /\ UNCHANGED <<sensorVars, recoveryVars>>

Sleep == WatcherMove("to_sleep", "asleep") /\ UNCHANGED <<sensorVars, recoveryVars>>

WakeUp ==
  /\ WatcherMove("woken", "check")
  /\ recoveryCount' = 0
  /\ UNCHANGED <<sensorVars, onRecovering, recoverer, saved, tries>>

(* wait_for has ended.  While STREAMING a notification counts as a sign of *)
(* life; while STARTING only the state does.                               *)
WaitEnds(from, state) ==
  /\ WatcherMove(from, IF streamState = state THEN "decided" ELSE "check")
  /\ recoveryCount' = IF streamState = state THEN recoveryCount ELSE 0
  /\ UNCHANGED <<sensorVars, onRecovering, recoverer, saved, tries>>

StartingWaitEnds ==
  /\ SlowStart \/ user # "starting"
  /\ WaitEnds("starting_wait", "starting") \/ WaitEnds("starting_woken", "starting")
StreamingTimesOut == WaitEnds("streaming_wait", "streaming")

(* Too many restarts: ERROR.  Otherwise streamRecoverMutex_ is taken, and  *)
(* restartStream starts with what it has to keep.                          *)
MutGiveUp ==
  /\ watcher = "decided" /\ recoveryCount >= MaxRecovery
  /\ watcher' = "check"
  /\ UNCHANGED <<streamState, sensorVars, recoveryVars, userVars>>

GiveUp ==
  /\ watcher = "decided" /\ recoveryCount >= MaxRecovery
  /\ streamState' = IF Suppressed("error") THEN streamState ELSE "error"
  /\ watcher' = "check"
  /\ UNCHANGED <<sensorVars, recoveryVars, userVars>>

BeginRestart ==
  /\ recoveryCount < MaxRecovery
  /\ WatcherMove("decided", IF profile = "none" THEN "count" ELSE "stop")
  /\ recoverer' = TRUE /\ onRecovering' = TRUE
  /\ saved' = [profile |-> profile, callback |-> callback]
  /\ UNCHANGED <<sensorVars, recoveryCount, tries>>

(* stop() in restartStream: nothing if the user has stopped the stream.    *)
RestartStop ==
  /\ WatcherMove("stop", IF IsStreamActivated THEN "clear" ELSE "start")
  /\ \/ IsStreamActivated /\ StreamOff
     \/ (~IsStreamActivated \/ StopFails) /\ UNCHANGED <<backend, inFlight>>
  /\ UNCHANGED <<profile, callback, recoveryVars>>

RestartClear ==
  /\ WatcherMove("clear", "start")
  /\ profile' = "none" /\ callback' = FALSE
  /\ UNCHANGED <<backend, inFlight, recoveryVars>>

(* start() in restartStream; when it throws, profile and callback are put  *)
(* back all the same.                                                      *)
Restarted ==
  CASE saved.profile # "known" -> {backend}
    [] StartFails \/ backend   -> {backend, TRUE}
    [] OTHER                   -> {TRUE}

MutRestartStart ==
  /\ WatcherMove("start", "count")
  /\ backend' \in Restarted
  /\ profile' = (IF backend' THEN saved.profile ELSE "none")
  /\ callback' = (saved.callback /\ backend')
  /\ tries' = tries + 1
  /\ UNCHANGED <<inFlight, onRecovering, recoverer, recoveryCount, saved>>

RestartStart ==
  /\ WatcherMove("start", "count")
  /\ backend' \in Restarted
  /\ profile' = saved.profile /\ callback' = saved.callback
  /\ tries' = tries + 1
  /\ UNCHANGED <<inFlight, onRecovering, recoverer, recoveryCount, saved>>

MutEndRestart ==
  /\ WatcherMove("count", "check")
  /\ recoverer' = FALSE /\ onRecovering' = FALSE
  /\ UNCHANGED <<sensorVars, recoveryCount, saved, tries>>

MutEndRestartLocked ==
  /\ WatcherMove("count", "check")
  /\ recoveryCount' = recoveryCount + 1
  /\ onRecovering' = FALSE
  /\ UNCHANGED <<sensorVars, recoverer, saved, tries>>

EndRestart ==
  /\ WatcherMove("count", "check")
  /\ recoveryCount' = recoveryCount + 1
  /\ recoverer' = FALSE /\ onRecovering' = FALSE
  /\ UNCHANGED <<sensorVars, saved, tries>>

Watcher ==
  \/ Check \/ Sleep \/ WakeUp \/ StartingWaitEnds \/ StreamingTimesOut \/ GiveUp
  \/ BeginRestart \/ RestartStop \/ RestartClear \/ RestartStart \/ EndRestart

-----------------------------------------------------------------------------
Next == Start \/ StartUnknown \/ Stop \/ User \/ FrameArrives \/ FrameUpdates \/ Watcher

Spec == Init /\ [][Next]_vars

(* Calls go on and timeouts pass; no frame need ever come, but one that    *)
(* has come is delivered.  Between two restarts streamRecoverMutex_ is     *)
(* free for a whole timeout, so that a stop waiting for it gets it; a      *)
(* stopStream ends the capture loop before it waits for the last frame.    *)
FairSpec ==
  /\ Spec
  /\ WF_vars(User) /\ WF_vars(Watcher) /\ WF_vars(FrameUpdates)
  /\ SF_vars(StopWait) /\ SF_vars(StopBackend) /\ SF_vars(RestartStop)

-----------------------------------------------------------------------------
(* Without recovery, between calls the state says that the sensor streams  *)
(* only if the backend does, unless start was given a profile the backend  *)
(* does not know; and a backend that streams has a state that says so, a   *)
(* profile and a callback, unless stopStream has failed or start was       *)
(* called on a stream that is on.  A backend that does not start leaves    *)
(* nothing behind, nor does a frame that comes while the stream stops.     *)
StateTellsBackend ==
  (watcher = "none" /\ user = "idle") =>
     /\ streamState \in {"starting", "streaming"} => backend \/ "unknown_profile" \in mishap
     /\ backend => \/ IsStreamActivated /\ profile # "none" /\ callback
                   \/ mishap \cap {"started_twice", "stop_failed"} # {}

(* A restart, even one that fails, keeps the user's stream: its profile    *)
(* and its callback are there for the next one.                            *)
RestartKeepsStream ==
  (user = "idle" /\ stream = "on" /\ ~onRecovering) => profile # "none" /\ callback

(* A stream without frames is not restarted for ever: at most MaxRecovery  *)
(* times since its last frame.                                             *)
RestartsAreBounded == tries <= MaxRecovery

(* Recovery comes to an end: frames come back, or the sensor gives up with *)
(* ERROR, or the user has intervened.                                      *)
RecoveryEnds == (tries > 0) ~> (tries = 0 \/ streamState \notin {"starting", "streaming"})

(* Calls return: stop waits for a running recovery, which ends.            *)
CallsReturn == (user # "idle") ~> (user = "idle")
=============================================================================
