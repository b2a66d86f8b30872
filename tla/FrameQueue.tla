----------------------------- MODULE FrameQueue -----------------------------
(***************************************************************************)
(* The bounded queue core/frame/FrameQueue.hpp: a std::queue guarded by    *)
(* mutex_, three flags, a callback and one dequeue thread.  Every operator *)
(* below is one critical section, or one run of writes made without the    *)
(* mutex, of a member function; the modules that own a queue               *)
(* (FilterExtension, Pipeline) put them in the order in which the threads  *)
(* of the program call them.                                               *)
(*                                                                         *)
(* Operators named Mut... are seeded faults; the specification uses none.  *)
(***************************************************************************)
EXTENDS Integers, Sequences

CONSTANT Capacity           \* capacity_

ASSUME CapacityAssumption == Capacity \in Nat \ {0}

VARIABLES
  queue,      \* queue_: frames waiting, oldest first
  stopped,    \* stopped_: no dequeue thread is supposed to run
  stopping,   \* stopping_: leave at once
  flushing,   \* flushing_: leave when the queue is empty
  callback,   \* callback_ holds a function
  thread,     \* dequeueThread_, see ThreadState
  inflight,   \* the frame taken by the dequeue thread, <<>> or <<f>>
  crashed     \* std::terminate has been called

queueVars == <<queue, stopped, stopping, flushing, callback, thread, inflight, crashed>>

(* "none": not joinable; "loop": at the wait on condition_; "callback":    *)
(* running callback_ outside the mutex; "exiting": out of the loop, before *)
(* stopped_ = true; "done": ended and still to be joined.                  *)
ThreadState == {"none", "loop", "callback", "exiting", "done"}

(* A dequeue thread runs that will take frames from the queue.             *)
Serving == thread \in {"loop", "callback"}

QueueTypeOK ==
  /\ queue \in Seq(Nat)
  /\ stopped \in BOOLEAN
  /\ stopping \in BOOLEAN
  /\ flushing \in BOOLEAN
  /\ callback \in BOOLEAN
  /\ thread \in ThreadState
  /\ inflight \in Seq(Nat)
  /\ crashed \in BOOLEAN

QueueInit ==
  /\ queue = <<>>
  /\ stopped = TRUE
  /\ stopping = FALSE
  /\ flushing = FALSE
  /\ callback = FALSE
  /\ thread = "none"
  /\ inflight = <<>>
  /\ crashed = FALSE

-----------------------------------------------------------------------------
(* enqueue: refused when the queue is full or being flushed.               *)
Accepts == Len(queue) < Capacity /\ ~flushing

Enqueue(f) ==
  /\ queue' = IF Accepts THEN Append(queue, f) ELSE queue
  /\ UNCHANGED <<stopped, stopping, flushing, callback, thread, inflight, crashed>>

(* dequeue: the oldest frame, if there is one.  The wait with a timeout    *)
(* ends here when a frame is there, and leaves the queue alone otherwise.  *)
Dequeue ==
  /\ queue # <<>>
  /\ queue' = Tail(queue)
  /\ UNCHANGED <<stopped, stopping, flushing, callback, thread, inflight, crashed>>

-----------------------------------------------------------------------------
(* start: the writes before the thread is created, none under mutex_.      *)
StartFlags ==
  /\ callback' = TRUE
  /\ stopped' = FALSE
  /\ stopping' = FALSE
  /\ flushing' = FALSE
  /\ UNCHANGED <<queue, thread, inflight, crashed>>

(* dequeueThread_ = std::thread(...): assigning to a std::thread that is   *)
(* still joinable calls std::terminate.                                    *)
StartThread ==
  /\ IF thread = "none"
       THEN thread' = "loop" /\ UNCHANGED crashed
       ELSE crashed' = TRUE /\ UNCHANGED thread
  /\ UNCHANGED <<queue, stopped, stopping, flushing, callback, inflight>>

-----------------------------------------------------------------------------
(* The dequeue thread.  stopping_ is looked at before the queue, flushing_ *)
(* only lets it leave when the queue is empty.                             *)
MutMustLeave == stopping \/ flushing
MustLeave == stopping \/ (flushing /\ queue = <<>>)

WorkerTake ==
  /\ thread = "loop"
  /\ ~MustLeave
  /\ queue # <<>>
  /\ inflight' = <<Head(queue)>>
  /\ queue' = Tail(queue)
  /\ thread' = "callback"
  /\ UNCHANGED <<stopped, stopping, flushing, callback, crashed>>

(* callback_(frame); an empty std::function throws bad_function_call, and  *)
(* an exception that leaves the thread function terminates the program.    *)
WorkerCallback ==
  /\ thread = "callback"
  /\ inflight' = <<>>
  /\ thread' = "loop"
  /\ crashed' = (crashed \/ ~callback)
  /\ UNCHANGED <<queue, stopped, stopping, flushing, callback>>

WorkerLeave ==
  /\ thread = "loop"
  /\ MustLeave
  /\ thread' = "exiting"
  /\ UNCHANGED <<queue, stopped, stopping, flushing, callback, inflight, crashed>>

WorkerEnd ==
  /\ thread = "exiting"
  /\ thread' = "done"
  /\ stopped' = TRUE
  /\ UNCHANGED <<queue, stopping, flushing, callback, inflight, crashed>>

-----------------------------------------------------------------------------
(* flush and stop: raise a flag under the mutex, join the thread if there  *)
(* is one; stop then empties the queue.                                    *)
MutSignalFlush == UNCHANGED queueVars
SignalFlush ==
  /\ flushing' = TRUE
  /\ UNCHANGED <<queue, stopped, stopping, callback, thread, inflight, crashed>>

SignalStop ==
  /\ stopping' = TRUE
  /\ UNCHANGED <<queue, stopped, flushing, callback, thread, inflight, crashed>>

MutJoin ==
  /\ thread' = IF thread = "done" THEN "none" ELSE thread
  /\ UNCHANGED <<queue, stopped, stopping, flushing, callback, inflight, crashed>>

Join ==
  /\ thread \in {"none", "done"}
  /\ thread' = "none"
  /\ UNCHANGED <<queue, stopped, stopping, flushing, callback, inflight, crashed>>

Clear ==
  /\ queue' = <<>>
  /\ UNCHANGED <<stopped, stopping, flushing, callback, thread, inflight, crashed>>

(* The four writes that end reset(), none under mutex_.                    *)
ResetFlags ==
  /\ callback' = FALSE
  /\ stopping' = FALSE
  /\ flushing' = FALSE
  /\ stopped' = TRUE
  /\ UNCHANGED <<queue, thread, inflight, crashed>>
=============================================================================
