------------------------------ MODULE Playback -------------------------------
(***************************************************************************)
(* The player of a recorded file: media/playback/PlaybackDevicePort.cpp    *)
(* with its state machine (StateMachineBase.hpp) and the position of       *)
(* media/ros/RosbagReader.cpp.                                             *)
(*   the application   startStream, stopStream and the destructor          *)
(*   the control       pause, resume, seek, on another thread              *)
(*   the loop          playbackLoop: reads, waits, enqueues                *)
(*   the workers       dequeue threads of the sensors' frame queues        *)
(* playbackMutex_ is held across steps by stopStream, which joins a worker *)
(* under it, and by a loop that is about to block on playbackCv_.  Changes *)
(* of the status by resume and startStream, and all of seek, happen        *)
(* without it.                                                             *)
(*                                                                         *)
(* A frame is its position in the file; frames have distinct times.  The   *)
(* time between frames is left to chance: calculateSleepTime answers zero  *)
(* or more.  A frame queue is seen from outside (see FrameQueue).          *)
(*                                                                         *)
(* Operators named Mut... are seeded faults; the specification uses none.  *)
(***************************************************************************)
EXTENDS Integers, Sequences, FiniteSets, SequencesExt

CONSTANTS
  Sensors,     \* sensors with a recorded stream
  File,        \* the sensor of every recorded frame, in order
  Capacity,    \* maxFrameQueueSize_
  MaxStarts,   \* bound: calls of startStream
  MaxControls  \* bound: calls of pause, resume and seek

ASSUME PlaybackAssumption ==
  /\ IsFiniteSet(Sensors)
  /\ File \in Seq(Sensors) \ {<<>>}
  /\ Capacity \in Nat \ {0} /\ MaxStarts \in Nat /\ MaxControls \in Nat

VARIABLES
  status,        \* currentState_ of playbackStatus_
  active,        \* activeSensors_
  queue,         \* the frame queue of every sensor
  server,        \* its dequeue thread: "none", "serving" or "flushing"
  position,      \* sensorIterator_, End at the end of the file
  seekOccurred,  \* seekOccurred_
  looping,       \* isLooping_
  loop,          \* where playbackLoop is
  hand,          \* the frame it has read, 0 for none
  lastTime,      \* lastTime
  seeking,       \* its copy of seekOccurred_
  app,           \* where the application is in a call, and for which sensor
  control,       \* where the control thread is in a call
  previews,      \* frames seek has still to put into the queues
  started,       \* history: sensors the application has started
  moved,         \* history: since the file was rewound a seek has been under way
  unnoticed,     \* history: a stream was started on a player already PLAYING
  starts, controls

fileVars == <<position, seekOccurred>>
queueVars == <<queue, server>>
loopVars == <<loop, hand, lastTime, seeking>>
countVars == <<starts, controls>>
vars == <<status, active, queueVars, fileVars, looping, loopVars, app, control, previews,
          started, moved, unnoticed, countVars>>

End == Len(File) + 1
Idle == [at |-> "idle"]
Calling(step, s) == [at |-> step, sensor |-> s]

LoopState == {"wait", "to_sleep", "asleep", "load", "clear", "eof", "read", "time",
              "doze", "check", "test", "enqueue", "end", "ended"}

TypeOK ==
  /\ status \in {"stopped", "playing", "paused"}
  /\ active \subseteq Sensors /\ started \subseteq Sensors
  /\ queue \in [Sensors -> Seq(1..Len(File))]
  /\ \A s \in Sensors : Len(queue[s]) <= Capacity
  /\ server \in [Sensors -> {"none", "serving", "flushing"}]
  /\ position \in 1..End /\ lastTime \in 1..End /\ hand \in 0..Len(File)
  /\ loop \in LoopState
  /\ seekOccurred \in BOOLEAN /\ looping \in BOOLEAN /\ seeking \in BOOLEAN
  /\ moved \in BOOLEAN /\ unnoticed \in BOOLEAN
  /\ app \in [at : {"started", "play", "enter", "flush"}, sensor : Sensors]
              \cup [at : {"idle", "join", "destroyed"}]
  /\ control \in {"idle", "enter", "sought", "preview", "preview_enqueue", "flag", "notify"}
  /\ previews \subseteq 1..Len(File)
  /\ starts \in 0..MaxStarts /\ controls \in 0..MaxControls

Init ==
  /\ status = "stopped"
  /\ active = {}
  /\ queue = [s \in Sensors |-> <<>>]
  /\ server = [s \in Sensors |-> "none"]
  /\ position = 1 /\ seekOccurred = FALSE
  /\ looping = TRUE
  /\ loop = "wait" /\ hand = 0 /\ lastTime = 1 /\ seeking = FALSE
  /\ app = Idle /\ control = "idle"
  /\ previews = {}
  /\ started = {} /\ moved = FALSE /\ unnoticed = FALSE
  /\ starts = 0 /\ controls = 0

-----------------------------------------------------------------------------
(* playbackMutex_ is free, for a critical section of one step.             *)
Free == app.at # "flush" /\ loop # "to_sleep"

(* playbackCv_.notify_all: reaches the loop only while it is blocked.      *)
Notify == loop' = IF loop = "asleep" THEN "wait" ELSE loop

(* RosReader::stop.                                                        *)
Rewind ==
  /\ position' = 1
  /\ moved' = (seekOccurred \/ control \notin {"idle", "enter"})

(* FrameQueue::enqueue.                                                    *)
Enqueued(f) ==
  LET s == File[f]
  IN IF server[s] # "flushing" /\ Len(queue[s]) < Capacity
       THEN [queue EXCEPT ![s] = Append(@, f)]
       ELSE queue

-----------------------------------------------------------------------------
(* startStream.  The sensor becomes active under the mutex ...             *)
StartStream(s) ==
  /\ app = Idle /\ looping /\ s \notin started
  /\ starts < MaxStarts
  /\ Free
  /\ starts' = starts + 1
  /\ started' = started \cup {s}
  /\ server' = [server EXCEPT ![s] = "serving"]
  /\ active' = active \cup {s}
  /\ unnoticed' = (unnoticed \/ (status = "playing" /\ active = {}))
  /\ app' = Calling("started", s)
  /\ UNCHANGED <<status, queue, fileVars, looping, loopVars, control, previews,
                 moved, controls>>

(* ... the status is read without it ...                                   *)
StartReadsStatus ==
  /\ app.at = "started"
  /\ app' = IF status = "stopped" THEN [app EXCEPT !.at = "play"] ELSE Idle
  /\ UNCHANGED <<status, active, queueVars, fileVars, looping, loopVars, control,
                 previews, started, moved, unnoticed, countVars>>

(* ... and changed: transitionTo, before its callbacks ...                 *)
StartPlays ==
  /\ app.at = "play"
  /\ status' = "playing"
  /\ app' = IF status = "playing" THEN Idle ELSE [app EXCEPT !.at = "enter"]
  /\ UNCHANGED <<active, queueVars, fileVars, looping, loopVars, control, previews,
                 started, moved, unnoticed, countVars>>

(* ... of which the one for PLAYING notifies the loop, under the mutex.    *)
MutEntered ==
  /\ Free
  /\ UNCHANGED <<status, active, queueVars, fileVars, looping, loopVars, previews, started,
                 moved, unnoticed, countVars>>

Entered ==
  /\ Free
  /\ Notify
  /\ UNCHANGED <<status, active, queueVars, fileVars, looping, hand, lastTime, seeking,
                 previews, started, moved, unnoticed, countVars>>

StartEnters == app.at = "enter" /\ app' = Idle /\ Entered /\ UNCHANGED control

-----------------------------------------------------------------------------
(* stopStream: everything under the mutex, the join of the worker included.*)
MutStopStream(s) ==
  /\ app = Idle /\ looping /\ s \in started
  /\ Free
  /\ server' = [server EXCEPT ![s] = "flushing"]
  /\ app' = Calling("flush", s)
  /\ UNCHANGED <<status, active, queue, fileVars, looping, loopVars, control, previews,
                 started, moved, unnoticed, countVars>>

StopStream(s) ==
  /\ app = Idle /\ looping /\ s \in started
  /\ Free
  /\ active' = active \ {s}
  /\ server' = [server EXCEPT ![s] = "flushing"]
  /\ app' = Calling("flush", s)
  /\ UNCHANGED <<status, queue, fileVars, looping, loopVars, control, previews,
                 started, moved, unnoticed, countVars>>

(* The queue is drained; reset() gives it back as new, and the last stream *)
(* rewinds the file and stops the playback.                                *)
StopReturns ==
  /\ app.at = "flush" /\ queue[app.sensor] = <<>>
  /\ server' = [server EXCEPT ![app.sensor] = "none"]
  /\ started' = started \ {app.sensor}
  /\ IF active = {}
       THEN Rewind /\ status' = "stopped"
       ELSE UNCHANGED <<position, moved, status>>
  /\ Notify
  /\ app' = Idle
  /\ UNCHANGED <<active, queue, seekOccurred, looping, hand, lastTime, seeking, control,
                 previews, unnoticed, countVars>>

(* The destructor: the sensors, which hold the port, are gone.             *)
MutDestroy ==
  /\ app = Idle /\ control = "idle" /\ looping /\ started = {}
  /\ looping' = FALSE
  /\ app' = [at |-> "join"]
  /\ UNCHANGED <<status, active, queueVars, fileVars, loopVars, control, previews,
                 started, moved, unnoticed, countVars>>

Destroy ==
  /\ app = Idle /\ control = "idle" /\ looping /\ started = {}
  /\ Free
  /\ looping' = FALSE
  /\ Notify
  /\ app' = [at |-> "join"]
  /\ UNCHANGED <<status, active, queueVars, fileVars, hand, lastTime, seeking, control,
                 previews, started, moved, unnoticed, countVars>>

Joined ==
  /\ app.at = "join" /\ loop = "ended"
  /\ app' = [at |-> "destroyed"]
  /\ UNCHANGED <<status, active, queueVars, fileVars, looping, loopVars, control,
                 previews, started, moved, unnoticed, countVars>>

-----------------------------------------------------------------------------
ControlCall ==
  /\ control = "idle" /\ looping
  /\ controls < MaxControls
  /\ controls' = controls + 1
  /\ UNCHANGED <<active, queueVars, seekOccurred, looping, hand, lastTime, seeking, app,
                 previews, started, unnoticed, starts>>

Pause ==
  /\ ControlCall
  /\ Free
  /\ status' = "paused"
  /\ Notify
  /\ UNCHANGED <<position, moved, control>>

Resume ==
  /\ ControlCall
  /\ status' = "playing"
  /\ control' = IF status = "playing" THEN "idle" ELSE "enter"
  /\ UNCHANGED <<position, moved, loop>>

ResumeEnters == control = "enter" /\ control' = "idle" /\ Entered /\ UNCHANGED app

(* seek to the frame at p.  A PAUSED player shows the last frame of every  *)
(* active sensor before the new position at once.                          *)
Seek(p) ==
  /\ ControlCall
  /\ position' = p
  /\ moved' = TRUE
  /\ control' = "sought"
  /\ UNCHANGED <<status, loop>>

SeekMove(from, to) ==
  /\ control = from
  /\ control' = to
  /\ UNCHANGED <<status, active, server, position, looping, hand, lastTime, seeking, app,
                 started, moved, unnoticed, countVars>>

(* readLastDatas, for the position it was called with.                     *)
LastFrames(p) ==
  {f \in 1..p : f <= Len(File) /\ \A g \in f+1..p : g <= Len(File) => File[g] # File[f]}

(* The status is read; the position is the argument of the call, which no  *)
(* reading has changed in these frames.                                    *)
SeekReadsStatus ==
  /\ SeekMove("sought", IF status = "paused" THEN "preview" ELSE "flag")
  /\ previews' = IF status = "paused" THEN LastFrames(position) ELSE {}
  /\ UNCHANGED <<queue, seekOccurred, loop>>

(* readLastDatas throws: the reader stands at the new position, and nobody *)
(* is told.                                                                *)
SeekThrows ==
  /\ status = "paused"
  /\ SeekMove("sought", "idle")
  /\ UNCHANGED <<queue, seekOccurred, previews, loop>>

(* One frame after the other: its sensor is tested under the mutex, and    *)
(* the frame goes into the queue without it.                               *)
First == CHOOSE f \in previews : \A g \in previews : f <= g

PreviewTests ==
  /\ previews # {} /\ Free
  /\ SeekMove("preview", IF File[First] \in active THEN "preview_enqueue" ELSE "preview")
  /\ previews' = IF File[First] \in active THEN previews ELSE previews \ {First}
  /\ UNCHANGED <<queue, seekOccurred, loop>>

PreviewEnqueues ==
  /\ SeekMove("preview_enqueue", "preview")
  /\ queue' = Enqueued(First)
  /\ previews' = previews \ {First}
  /\ UNCHANGED <<seekOccurred, loop>>

PreviewEnds ==
  /\ previews = {}
  /\ SeekMove("preview", "flag")
  /\ UNCHANGED <<queue, seekOccurred, previews, loop>>

SeekFlags ==
  /\ SeekMove("flag", "notify")
  /\ seekOccurred' = TRUE
  /\ UNCHANGED <<queue, previews, loop>>

SeekNotifies ==
  /\ SeekMove("notify", "idle")
  /\ Notify
  /\ UNCHANGED <<queue, seekOccurred, previews>>

-----------------------------------------------------------------------------
(* playbackLoop.  The next round begins without frame, lastTime and        *)
(* seekOccurred of this one.                                               *)
LoopMove(from, to) ==
  /\ loop = from
  /\ loop' = to
  /\ UNCHANGED <<looping, server, app, control, previews, started, unnoticed, countVars>>

NextRound == hand' = 0 /\ lastTime' = 1 /\ seeking' = FALSE
Keeps == UNCHANGED <<hand, lastTime, seeking>>
KeepsUnless(to) == IF to = "wait" THEN NextRound ELSE Keeps

NoEffect == UNCHANGED <<status, active, queue, fileVars, moved>>

HasWork == seekOccurred \/ (status = "playing" /\ active # {})

(* The predicate of the wait, under the mutex.  Blocking comes after it,   *)
(* and a notification without the mutex in between is lost.                *)
LoopWaits ==
  /\ Free
  /\ LoopMove("wait", CASE ~looping -> "ended"
                        [] looping /\ HasWork -> "load"
                        [] OTHER -> "to_sleep")
  /\ Keeps /\ NoEffect

LoopSleeps == LoopMove("to_sleep", "asleep") /\ Keeps /\ NoEffect

LoopLoads ==
  /\ LoopMove("load", "clear")
  /\ seeking' = seekOccurred
  /\ UNCHANGED <<hand, lastTime>> /\ NoEffect

LoopClears ==
  /\ LoopMove("clear", "eof")
  /\ seekOccurred' = FALSE
  /\ Keeps
  /\ UNCHANGED <<status, active, queue, position, moved>>

LoopLooksForEnd ==
  /\ LoopMove("eof", IF position = End THEN "end" ELSE "read")
  /\ Keeps /\ NoEffect

(* readNextData; a message of which no frame can be made is passed over.   *)
LoopReads ==
  /\ LoopMove("read", "time")
  /\ hand' = position
  /\ UNCHANGED <<lastTime, seeking>>

LoopReadsNothing == LoopMove("read", "wait") /\ NextRound

ReadNextData ==
  /\ LoopReads \/ LoopReadsNothing
  /\ position' = position + 1
  /\ UNCHANGED <<status, active, queue, seekOccurred, moved>>

(* getCurTime and calculateSleepTime: after a seek the frame goes out      *)
(* without delay and lastTime is not looked at.                            *)
LoopNotesTime ==
  /\ \E to \in (IF seeking THEN {"test"} ELSE {"check", "doze"}) : LoopMove("time", to)
  /\ lastTime' = IF seeking THEN lastTime ELSE position
  /\ seeking' = FALSE
  /\ UNCHANGED hand /\ NoEffect

(* The timed wait ends by itself or by a notification.                     *)
Interrupted == ~looping \/ seekOccurred \/ status # "playing"

LoopWakes ==
  /\ Free
  /\ LoopMove("doze", IF Interrupted THEN "wait" ELSE "check")
  /\ KeepsUnless(loop') /\ NoEffect

LoopChecks ==
  /\ LoopMove("check", IF position # lastTime THEN "wait" ELSE "test")
  /\ lastTime' = 1 /\ hand' = (IF loop' = "wait" THEN 0 ELSE hand)
  /\ UNCHANGED seeking /\ NoEffect

LoopTests ==
  /\ Free
  /\ LoopMove("test", IF File[hand] \in active THEN "enqueue" ELSE "wait")
  /\ KeepsUnless(loop') /\ NoEffect

LoopEnqueues ==
  /\ LoopMove("enqueue", "wait")
  /\ queue' = Enqueued(hand)
  /\ NextRound
  /\ UNCHANGED <<status, active, fileVars, moved>>

(* stopAllStream at the end of the file: the queues go on being served.    *)
MutStopAllStream ==
  /\ Free
  /\ LoopMove("end", "wait")
  /\ active' = {}
  /\ status' = "stopped"
  /\ NextRound
  /\ UNCHANGED <<queue, fileVars, moved>>

StopAllStream ==
  /\ Free
  /\ LoopMove("end", "wait")
  /\ active' = {}
  /\ status' = "stopped"
  /\ Rewind
  /\ NextRound
  /\ UNCHANGED <<queue, seekOccurred>>

-----------------------------------------------------------------------------
(* The worker of a sensor takes a frame and calls the sensor.              *)
Deliver(s) ==
  /\ server[s] # "none" /\ queue[s] # <<>>
  /\ queue' = [queue EXCEPT ![s] = Tail(@)]
  /\ UNCHANGED <<status, active, server, fileVars, looping, loopVars, app, control,
                 previews, started, moved, unnoticed, countVars>>

-----------------------------------------------------------------------------
AppCalls == Destroy \/ \E s \in Sensors : StartStream(s) \/ StopStream(s)
App == StartReadsStatus \/ StartPlays \/ StartEnters \/ StopReturns \/ Joined

ControlCalls == Pause \/ Resume \/ \E p \in 1..Len(File) : Seek(p)
Control ==
  \/ ResumeEnters
  \/ SeekReadsStatus \/ SeekThrows \/ PreviewTests \/ PreviewEnqueues \/ PreviewEnds
  \/ SeekFlags \/ SeekNotifies

Loop ==
  \/ LoopWaits \/ LoopSleeps \/ LoopLoads \/ LoopClears \/ LoopLooksForEnd \/ ReadNextData
  \/ LoopNotesTime \/ LoopWakes \/ LoopChecks \/ LoopTests \/ LoopEnqueues
  \/ StopAllStream

Next ==
  \/ AppCalls \/ App \/ ControlCalls \/ Control \/ Loop
  \/ (\E s \in Sensors : Deliver(s))

Spec == Init /\ [][Next]_vars

(* Threads go on: a mutex is held for microseconds, except by a stop,      *)
(* which ends, and nobody takes it again and again.                        *)
FairSpec ==
  /\ Spec
  /\ WF_vars(App) /\ WF_vars(Control) /\ WF_vars(Loop)
  /\ \A s \in Sensors : WF_vars(Deliver(s))

-----------------------------------------------------------------------------
(* A frame that was tested against activeSensors_ before stopStream may    *)
(* come into the queue after its reset and open the next session.  It is   *)
(* never more than one of the loop and one of a seek.                      *)
StaleFramesAreFew == \A s \in Sensors : server[s] = "none" => Len(queue[s]) <= 2

(* A stopped player stands at the beginning of the file; a loop that was   *)
(* on its way to a read takes at most the first frame, though it may do so *)
(* after the file was rewound.                                             *)
RewoundWhenStopped ==
  (loop = "asleep" /\ status = "stopped" /\ ~moved) => position <= 2

(* A player that plays gets to the end of the file, or is stopped or       *)
(* paused: the loop sleeps through no change.  The exception is a stream   *)
(* started while the player was PLAYING without a stream (after a resume,  *)
(* or at the end of the file): startStream does not notify then.           *)
PlayingGoesOn ==
  (status = "playing" /\ active # {}) ~> (status # "playing" \/ active = {} \/ unnoticed)

(* Calls return, the destructor included, which joins the loop.            *)
CallsReturn ==
  /\ (app.at \notin {"idle", "destroyed"}) ~> (app.at \in {"idle", "destroyed"})
  /\ (control # "idle") ~> (control = "idle")
=============================================================================
