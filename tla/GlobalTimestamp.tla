--------------------------- MODULE GlobalTimestamp ---------------------------
(***************************************************************************)
(* The fit of the device's clock to the host's:                            *)
(* device/component/timestamp/GlobalTimestampFitter.cpp.                   *)
(*   the loop      fittingLoop: samples the device's clock, fits a line    *)
(*   the callers   enable and disable it, reset the device's clock by its  *)
(*                 property or set it to the host's, and refit at once     *)
(* A sample is told by the clock it was taken from: the device's clock     *)
(* jumps, forward or back, to one of Clocks.  A section under sampleMutex_ *)
(* is one step, but for ensureFitting, which samples the device under it;  *)
(* a reset holds the property server's mutex until its refit returns.      *)
(*                                                                         *)
(* Operators named Mut... are seeded faults; the specification uses none.  *)
(***************************************************************************)
EXTENDS Integers, Sequences

CONSTANTS
  Callers,       \* threads of the application and of the SDK
  Switcher,      \* the one of them that calls enable
  Nobody,
  Clocks,        \* the times the device's clock may jump to
  FirstClock,    \* the one it starts with
  MinSamples,    \* samples a fit needs, 4 in the code
  Refill,        \* samples ensureFitting asks for, 6 in the code
  MaxQueue,      \* maxQueueSize_
  MaxSwitches    \* bound: calls of enable and disable

ASSUME TimestampAssumption ==
  /\ Switcher \in Callers /\ {Nobody, "loop"} \cap Callers = {}
  /\ Clocks \subseteq Int /\ FirstClock \in Clocks
  /\ MinSamples \in 2..Refill /\ {Refill, MaxQueue, MaxSwitches} \subseteq Nat

VARIABLES
  clock,       \* what the device's clock counts from
  ahead,       \* bound: where it may still jump
  enable, exit,    \* enable_, sampleLoopExit_
  queue,       \* samplingQueue_
  need,        \* needCalculation_
  fit,         \* linearFuncParam_: whether it is of enough samples, and of which
               \* clocks they are
  loop,        \* where sampleThread_ is
  sample,      \* the sample of the loop
  calling,     \* where the callers are
  sum,         \* what calcLinearParam has summed up, by thread
  fills, calc, \* the locals of ensureFitting, by caller
  lock,        \* the caller that holds sampleMutex_ over several steps
  server,      \* the caller that holds the property server's mutex
  crossed,     \* history: somebody was taking or using samples while the clock jumped
               \* or the queue was cleared
  switches

deviceVars == <<clock, ahead>>
switchVars == <<enable, exit, switches>>
queueVars == <<queue, need>>
callerVars == <<calling, fills, calc, lock, server>>
fitVars == <<deviceVars, switchVars, queueVars, callerVars, fit, loop, sample, sum, crossed>>

Loop == "loop"
Threads == Callers \cup {Loop}
NoFit == [enough |-> TRUE, clocks |-> {}]
Fits == [enough : BOOLEAN, clocks : SUBSET Clocks]

Places == {"idle", "join", "drop", "refit", "ensure", "fill", "calc", "publish"}

FitTypeOK ==
  /\ clock \in Clocks /\ ahead \subseteq Clocks
  /\ {enable, exit, need, crossed} \subseteq BOOLEAN
  /\ queue \in Seq(Clocks) /\ sample \in Clocks
  /\ fit \in Fits /\ sum \in [Threads -> Fits]
  /\ loop \in {"none", "test", "read", "push", "calc", "publish", "wait", "ended"}
  /\ calling \in [Callers -> Places]
  /\ fills \in [Callers -> 0..Refill] /\ calc \in [Callers -> BOOLEAN]
  /\ {lock, server} \subseteq Callers \cup {Nobody}
  /\ switches \in 0..MaxSwitches

FitInit ==
  /\ clock = FirstClock /\ ahead = Clocks \ {clock}
  /\ enable = FALSE /\ exit = FALSE
  /\ queue = <<>> /\ need = FALSE /\ fit = NoFit
  /\ loop = "none" /\ sample = FirstClock
  /\ calling = [c \in Callers |-> "idle"]
  /\ sum = [t \in Threads |-> NoFit]
  /\ fills = [c \in Callers |-> 0] /\ calc = [c \in Callers |-> FALSE]
  /\ lock = Nobody /\ server = Nobody
  /\ crossed = FALSE /\ switches = 0

At(t) == IF t = Loop THEN loop ELSE calling[t]

Goes(t, from, to) ==
  /\ At(t) = from
  /\ IF t = Loop THEN loop' = to /\ UNCHANGED calling
                 ELSE calling' = [calling EXCEPT ![t] = to] /\ UNCHANGED loop

Locked(t) == lock \notin {Nobody, t}
Served(t) == server \in {Nobody, t}

(* ensureFitting and the calculation after it are not over yet.            *)
Ensuring == \E c \in Callers : calling[c] \in {"ensure", "fill", "calc"}

(* A jump still waits for its refit.                                       *)
Pending == \E c \in Callers : calling[c] = "refit"

MutEnough(q) == TRUE
Enough(q) == Len(q) >= MinSamples

-----------------------------------------------------------------------------
(* calcLinearParam: sums up under sampleMutex_ ...                         *)
Needed == need

Skip(t, next) ==
  /\ Goes(t, "calc", next) /\ ~Locked(t) /\ ~Needed
  /\ UNCHANGED <<deviceVars, switchVars, queueVars, fills, calc, lock, fit, sample, sum, crossed>>

(* ... reading the front of a queue that may be empty ...                  *)
Sum(t) ==
  /\ Goes(t, "calc", "publish") /\ ~Locked(t) /\ Needed
  /\ need' = FALSE
  /\ sum' = [sum EXCEPT ![t] = [enough |-> Len(queue) >= MinSamples,
                                    clocks |-> {queue[i] : i \in 1..Len(queue)}]]
  /\ UNCHANGED <<deviceVars, switchVars, queue, fills, calc, lock, server, fit, sample, crossed>>

(* ... and writes the line under linearFuncParamMutex_.                    *)
Publish(t, next) ==
  /\ Goes(t, "publish", next)
  /\ fit' = sum[t] /\ sum' = [sum EXCEPT ![t] = NoFit]
  /\ UNCHANGED <<deviceVars, switchVars, queueVars, fills, calc, lock, sample, crossed>>

-----------------------------------------------------------------------------
(* fittingLoop.  The device answers in time ...                            *)
LoopReads ==
  /\ Goes(Loop, "read", "push") /\ Served(Loop)
  /\ sample' = clock
  /\ crossed' = (crossed \/ Pending)
  /\ UNCHANGED <<deviceVars, switchVars, queueVars, fills, calc, lock, server, fit, sum>>

(* ... or it does not, and the loop sleeps.                                *)
LoopReadsNothing ==
  /\ Goes(Loop, "read", "test") /\ Served(Loop)
  /\ UNCHANGED <<deviceVars, switchVars, queueVars, fills, calc, lock, server, fit, sample, sum,
                 crossed>>

(* The oldest sample makes room; all go when time has run backwards.       *)
Shortened(q) == IF Len(q) > MaxQueue THEN Tail(q) ELSE q
MutPushed(q, x) == IF Len(q) > MaxQueue THEN Append(SubSeq(q, 1, MaxQueue), x) ELSE Append(q, x)
Pushed(q, x) ==
  LET kept == Shortened(q)
  IN IF kept # <<>> /\ x < kept[Len(kept)] THEN <<x>> ELSE Append(kept, x)

LoopPushes ==
  /\ Goes(Loop, "push", IF Enough(Pushed(queue, sample)) THEN "calc" ELSE "test") /\ ~Locked(Loop)
  /\ queue' = Pushed(queue, sample)
  /\ need' = TRUE /\ sample' = FirstClock
  /\ UNCHANGED <<deviceVars, switchVars, fills, calc, lock, server, fit, sum, crossed>>

Tested == IF exit THEN "ended" ELSE "read"

LoopWaits ==
  /\ Goes(Loop, "wait", Tested) /\ ~Locked(Loop)
  /\ UNCHANGED <<deviceVars, switchVars, queueVars, fills, calc, lock, server, fit, sample, sum,
                 crossed>>

LoopTests ==
  /\ Goes(Loop, "test", Tested)
  /\ UNCHANGED <<deviceVars, switchVars, queueVars, fills, calc, lock, server, fit, sample, sum,
                 crossed>>

LoopSkips == Skip(Loop, "wait") /\ UNCHANGED server
LoopSums == Sum(Loop)
LoopPublishes == Publish(Loop, "wait") /\ UNCHANGED server

-----------------------------------------------------------------------------
(* enable(true): a new thread; sampleLoopExit_ is as enable(false) left it.*)
Enable ==
  /\ calling[Switcher] = "idle" /\ switches < MaxSwitches /\ switches' = switches + 1
  /\ ~enable /\ enable' = TRUE
  /\ loop' = "read"
  /\ UNCHANGED <<deviceVars, exit, queueVars, callerVars, fit, sample, sum, crossed>>

(* enable(false): joins the loop, then clears the queue.                   *)
MutExits == exit
Exits == TRUE
Disable ==
  /\ Goes(Switcher, "idle", "join") /\ switches < MaxSwitches /\ switches' = switches + 1
  /\ enable /\ enable' = FALSE
  /\ exit' = Exits
  /\ UNCHANGED <<deviceVars, queueVars, fills, calc, lock, server, fit, sample, sum, crossed>>

Joined ==
  /\ calling[Switcher] = "join" /\ calling' = [calling EXCEPT ![Switcher] = "drop"]
  /\ loop = "ended" /\ loop' = "none"
  /\ UNCHANGED <<deviceVars, switchVars, queueVars, fills, calc, lock, server, fit, sample, sum,
                 crossed>>

Drop ==
  /\ Goes(Switcher, "drop", "idle") /\ ~Locked(Switcher)
  /\ queue' = <<>>
  /\ crossed' = (crossed \/ Ensuring)
  /\ UNCHANGED <<deviceVars, switchVars, need, fills, calc, lock, server, fit, sample, sum>>

-----------------------------------------------------------------------------
(* The device's clock jumps.  A loop that holds a sample will push it.     *)
Jump ==
  /\ clock' \in ahead /\ ahead' = ahead \ {clock'}
  /\ crossed' = (crossed \/ loop = "push")

(* A write of the reset property, which calls reFitting under the server's *)
(* mutex, or timerSyncWithHost and then reFitting.                         *)
Reset(c) ==
  /\ Goes(c, "idle", "refit") /\ server = Nobody /\ server' = c
  /\ Jump
  /\ UNCHANGED <<switchVars, queueVars, fills, calc, lock, fit, sample, sum>>

SyncWithHost(c) ==
  /\ Goes(c, "idle", "refit") /\ server = Nobody
  /\ Jump
  /\ UNCHANGED <<switchVars, queueVars, fills, calc, lock, server, fit, sample, sum>>

(* The caller returns; a reset gives the server's mutex back.              *)
Released(c) == server' = IF server = c THEN Nobody ELSE server

(* A loop that is being joined may go on with what it has.                 *)
RefitDisabled(c) ==
  /\ Goes(c, "refit", "idle") /\ ~enable /\ Released(c)
  /\ crossed' = (crossed \/ Ensuring \/ loop \notin {"none", "ended"})
  /\ UNCHANGED <<deviceVars, switchVars, queueVars, fills, calc, lock, fit, sample, sum>>

Clear(c) ==
  /\ Goes(c, "refit", "ensure") /\ enable /\ ~Locked(c)
  /\ need' = TRUE
  /\ queue' = <<>>
  /\ crossed' = (crossed \/ Ensuring \/ loop \in {"push", "calc"})
  /\ UNCHANGED <<deviceVars, switchVars, fills, calc, lock, server, fit, sample, sum>>

(* ensureFitting holds sampleMutex_ while it samples the device.           *)
EnsureLocks(c) ==
  /\ Goes(c, "ensure", "fill") /\ lock = Nobody /\ lock' = c
  /\ UNCHANGED <<deviceVars, switchVars, queueVars, fills, calc, server, fit, sample, sum, crossed>>

Filled(c) == Len(queue) >= Refill \/ fills[c] >= Refill

FillMove(c, to) ==
  /\ Goes(c, "fill", to)
  /\ UNCHANGED <<deviceVars, switchVars, fit, sample, sum>>

Fill(c) ==
  /\ FillMove(c, "fill") /\ ~Filled(c) /\ Served(c)
  /\ fills' = [fills EXCEPT ![c] = @ + 1]
  /\ queue' = Append(queue, clock)
  /\ need' = TRUE /\ calc' = [calc EXCEPT ![c] = TRUE]
  /\ crossed' = (crossed \/ Pending)
  /\ UNCHANGED <<lock, server>>

Leaves(c) ==
  /\ lock' = Nobody
  /\ fills' = [fills EXCEPT ![c] = 0] /\ calc' = [calc EXCEPT ![c] = FALSE]

(* An answer that took too long is not used; a failure ends the call.      *)
FillTooSlow(c) ==
  /\ FillMove(c, "fill") /\ ~Filled(c) /\ Served(c)
  /\ fills' = [fills EXCEPT ![c] = @ + 1]
  /\ UNCHANGED <<queueVars, calc, lock, server, crossed>>

FillThrows(c) ==
  /\ FillMove(c, "idle") /\ ~Filled(c) /\ Served(c)
  /\ Leaves(c) /\ Released(c)
  /\ UNCHANGED <<queueVars, crossed>>

FillGivesUp(c) ==
  /\ FillMove(c, "idle") /\ Filled(c) /\ (~Enough(queue) \/ ~calc[c])
  /\ Leaves(c) /\ Released(c)
  /\ UNCHANGED <<queueVars, crossed>>

FillEnds(c) ==
  /\ FillMove(c, "calc") /\ Filled(c) /\ Enough(queue) /\ calc[c]
  /\ Leaves(c)
  /\ UNCHANGED <<queueVars, server, crossed>>

CallerSkips(c) == Skip(c, "idle") /\ Released(c)
CallerSums(c) == Sum(c)
CallerPublishes(c) == Publish(c, "idle") /\ Released(c)

-----------------------------------------------------------------------------
LoopGoesOn ==
  \/ LoopReadsNothing \/ LoopPushes
  \/ LoopSkips \/ LoopSums \/ LoopPublishes \/ LoopWaits \/ LoopTests

CallerGoesOn(c) ==
  \/ RefitDisabled(c) \/ Clear(c) \/ EnsureLocks(c)
  \/ Fill(c) \/ FillTooSlow(c) \/ FillThrows(c) \/ FillGivesUp(c) \/ FillEnds(c)
  \/ CallerSkips(c) \/ CallerSums(c) \/ CallerPublishes(c)

FitNext ==
  \/ LoopReads \/ LoopGoesOn
  \/ Enable \/ Disable \/ Joined \/ Drop
  \/ \E c \in Callers : Reset(c) \/ SyncWithHost(c) \/ CallerGoesOn(c)

FitSpec == FitInit /\ [][FitNext]_fitVars

(* Threads go on, and the device answers in time now and then.  A mutex is *)
(* wanted by finitely many calls, so that weak fairness hands it out.      *)
FairFitSpec ==
  /\ FitSpec
  /\ SF_fitVars(LoopReads) /\ WF_fitVars(LoopGoesOn)
  /\ WF_fitVars(Joined) /\ WF_fitVars(Drop)
  /\ \A c \in Callers : WF_fitVars(CallerGoesOn(c))

-----------------------------------------------------------------------------
(* A reset that waits for sampleMutex_, and an ensureFitting that has it   *)
(* and waits for the property server: neither goes on.                     *)
Embrace ==
  \E c, d \in Callers :
    /\ server = c /\ lock = d /\ c # d
    /\ calling[c] \in {"refit", "ensure", "calc"} /\ ~Filled(d)

(* As long as no sample and no fit was under way when the clock jumped and *)
(* the queue was cleared, the line is of enough samples, of one clock.     *)
FitIsSound ==
  (~crossed /\ fit # NoFit) => (fit.enough /\ \E x \in Clocks : fit.clocks = {x})

(* While the fit stays enabled, and the loop was not told to end before,   *)
(* the line is of the device's clock in the end, whatever has been mixed   *)
(* into the queue: what was comes out at its front.                        *)
FitSettles ==
  <>[](enable /\ ~exit) =>
    <>[]((fit.enough /\ fit.clocks = {clock}) \/ Embrace)

(* enable, the reset and the sync return, unless the two mutexes are taken *)
(* in opposite orders.                                                     *)
FitCallsReturn == \A c \in Callers : (calling[c] # "idle") ~> (calling[c] = "idle" \/ Embrace)
=============================================================================
