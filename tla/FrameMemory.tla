---------------------------- MODULE FrameMemory -----------------------------
(***************************************************************************)
(* The memory frames live in (core/frame/FrameMemoryPool.cpp,              *)
(* FrameBufferManager.cpp): a pool of buffer managers, one per frame type  *)
(* and size, over one allocator with a limit.                              *)
(*   producers   create frames; two streams of one kind share a manager    *)
(*   deleters    drop the last reference to a frame, on any thread         *)
(*   App         calls ob_free_idle_memory and ob_set_max_frame_memory     *)
(* bufMgrMapMutex_ guards the pool, a recursive mutex_ every manager.  The *)
(* allocator's mutex is innermost and held for one step only.  Erasing a   *)
(* manager nobody refers to frees what releaseIdleBuffer frees, and the    *)
(* next frame of its kind brings it back: the model keeps the manager.     *)
(*                                                                         *)
(* Operators named Mut... are seeded faults; the specification uses none.  *)
(***************************************************************************)
EXTENDS Integers, Sequences, FiniteSets, FiniteSetsExt, Functions

CONSTANTS
  Managers,    \* keys of bufMgrMap_, in the order of the map
  Producers,   \* threads that create frames
  ManagerOf,   \* the manager a producer's frames come from
  Deleters,    \* threads that drop frames
  App,         \* the thread of the application
  Nobody,      \* no owner of a mutex
  Size,        \* frameTotalSize_ of a manager
  Buffers,     \* bound: the addresses malloc may return
  MaxIdle,     \* 100 in reclaimBuffer
  Limits,      \* what maxSizeInByte_ may be set to; the largest comes first
  AppFrees     \* the application calls ob_free_idle_memory

ASSUME MemoryAssumption ==
  /\ Managers \subseteq Nat /\ IsFiniteSet(Managers)
  /\ ManagerOf \in [Producers -> Managers]
  /\ Size \in [Managers -> Nat \ {0}]
  /\ MaxIdle \in Nat \ {0}
  /\ Limits \subseteq Nat /\ Limits # {} /\ IsFiniteSet(Limits)
  /\ AppFrees \in BOOLEAN
  /\ Producers \cap Deleters = {} /\ App \notin Producers \cup Deleters
  /\ Nobody \notin Producers \cup Deleters \cup {App}

Threads == Producers \cup Deleters \cup {App}

VARIABLES
  limit,     \* maxSizeInByte_
  used,      \* usedSize_
  mapMutex,  \* owner of bufMgrMapMutex_
  mutex,     \* owner of the mutex_ of every manager
  idle,      \* availableFrameBuffers_ of every manager
  live,      \* buffers of the frames a manager has given out
  dying,     \* the frame a deleter destroys: its manager and its buffer
  todo,      \* managers a thread has still to visit in freeIdleMemory
  pc         \* where a thread is

vars == <<limit, used, mapMutex, mutex, idle, live, dying, todo, pc>>

NoFrame == [manager |-> Nobody, buffer |-> Nobody]

ProducerState == {"idle", "manager", "acquire", "lock_map", "free", "retry"}

TypeOK ==
  /\ limit \in Limits /\ used \in Nat
  /\ mapMutex \in Threads \cup {Nobody}
  /\ mutex \in [Managers -> Threads \cup {Nobody}]
  /\ idle \in [Managers -> Seq(Buffers)]
  /\ \A m \in Managers : Len(idle[m]) <= MaxIdle
  /\ live \in [Managers -> SUBSET Buffers]
  /\ dying \in [Deleters -> {NoFrame} \cup [manager : Managers, buffer : Buffers]]
  /\ todo \in [Threads -> SUBSET Managers]
  /\ pc \in [Threads -> ProducerState \cup {"reclaim", "destroy"}]

Init ==
  /\ limit = Max(Limits)
  /\ used = 0
  /\ mapMutex = Nobody
  /\ mutex = [m \in Managers |-> Nobody]
  /\ idle = [m \in Managers |-> <<>>]
  /\ live = [m \in Managers |-> {}]
  /\ dying = [d \in Deleters |-> NoFrame]
  /\ todo = [t \in Threads |-> {}]
  /\ pc = [t \in Threads |-> "idle"]

-----------------------------------------------------------------------------
Move(t, from, to) == pc[t] = from /\ pc' = [pc EXCEPT ![t] = to]

Lock(m, t) == mutex[m] = Nobody /\ mutex' = [mutex EXCEPT ![m] = t]
Unlock(m) == mutex' = [mutex EXCEPT ![m] = Nobody]

(* Addresses malloc has given out and free has not had back.               *)
Allocated ==
  {dying[d].buffer : d \in {e \in Deleters : pc[e] = "reclaim"}}
    \cup UNION {live[m] \cup Range(idle[m]) : m \in Managers}

Fits(m) == used + Size[m] <= limit

(* allocate, and the frame made of the buffer.                             *)
Allocate(m) ==
  /\ Fits(m)
  /\ used' = used + Size[m]
  /\ \E b \in Buffers \ Allocated : live' = [live EXCEPT ![m] = @ \cup {b}]

-----------------------------------------------------------------------------
(* FrameFactory: createFrameBufferManager under bufMgrMapMutex_, then      *)
(* acquireFrame, which runs acquireBuffer under mutex_.                    *)
GetManager(p) ==
  /\ mapMutex = Nobody
  /\ Move(p, "idle", "manager")
  /\ UNCHANGED <<limit, used, mapMutex, mutex, idle, live, dying, todo>>

LockManager(p) ==
  /\ Move(p, "manager", "acquire")
  /\ Lock(ManagerOf[p], p)
  /\ UNCHANGED <<limit, used, mapMutex, idle, live, dying, todo>>

TakeIdle(p) ==
  LET m == ManagerOf[p]
  IN /\ idle[m] # <<>>
     /\ Move(p, "acquire", "idle")
     /\ idle' = [idle EXCEPT ![m] = Tail(@)]
     /\ live' = [live EXCEPT ![m] = @ \cup {Head(idle[m])}]
     /\ Unlock(m)
     /\ UNCHANGED <<limit, used, mapMutex, dying, todo>>

AllocateNew(p) ==
  /\ idle[ManagerOf[p]] = <<>>
  /\ Move(p, "acquire", "idle")
  /\ Allocate(ManagerOf[p])
  /\ Unlock(ManagerOf[p])
  /\ UNCHANGED <<limit, mapMutex, idle, dying, todo>>

(* allocate returns nullptr: freeIdleMemory, with mutex_ held.             *)
MutOutOfMemory(p) ==
  /\ idle[ManagerOf[p]] = <<>>
  /\ ~Fits(ManagerOf[p])
  /\ Move(p, "acquire", "lock_map")
  /\ Unlock(ManagerOf[p])
  /\ UNCHANGED <<limit, used, mapMutex, idle, live, dying, todo>>

OutOfMemory(p) ==
  /\ idle[ManagerOf[p]] = <<>>
  /\ ~Fits(ManagerOf[p])
  /\ Move(p, "acquire", "lock_map")
  /\ UNCHANGED <<limit, used, mapMutex, mutex, idle, live, dying, todo>>

RetryAllocate(p) ==
  /\ Move(p, "retry", "idle")
  /\ Allocate(ManagerOf[p])
  /\ Unlock(ManagerOf[p])
  /\ UNCHANGED <<limit, mapMutex, idle, dying, todo>>

(* memory_exception leaves acquireBuffer, and the lock is let go.          *)
RetryThrows(p) ==
  /\ ~Fits(ManagerOf[p])
  /\ Move(p, "retry", "idle")
  /\ Unlock(ManagerOf[p])
  /\ UNCHANGED <<limit, used, mapMutex, idle, live, dying, todo>>

-----------------------------------------------------------------------------
(* freeIdleMemory: every manager in turn, bufMgrMapMutex_ held throughout. *)
FreeIdleMemory ==
  /\ AppFrees
  /\ Move(App, "idle", "lock_map")
  /\ UNCHANGED <<limit, used, mapMutex, mutex, idle, live, dying, todo>>

LockMap(t) ==
  /\ mapMutex = Nobody
  /\ Move(t, "lock_map", "free")
  /\ mapMutex' = t
  /\ todo' = [todo EXCEPT ![t] = Managers]
  /\ UNCHANGED <<limit, used, mutex, idle, live, dying>>

(* releaseIdleBuffer: mutex_ is recursive, so a producer passes its own.   *)
ReleaseIdleBuffer(t) ==
  LET m == Min(todo[t])
  IN /\ pc[t] = "free" /\ todo[t] # {}
     /\ mutex[m] \in {Nobody, t}
     /\ used' = used - Size[m] * Len(idle[m])
     /\ idle' = [idle EXCEPT ![m] = <<>>]
     /\ todo' = [todo EXCEPT ![t] = @ \ {m}]
     /\ UNCHANGED <<limit, mapMutex, mutex, live, dying, pc>>

FreeReturns(t) ==
  /\ todo[t] = {}
  /\ Move(t, "free", IF t \in Producers THEN "retry" ELSE "idle")
  /\ mapMutex' = Nobody
  /\ UNCHANGED <<limit, used, mutex, idle, live, dying, todo>>

(* A limit below what is in use is stored as it is.                        *)
SetMaxFrameMemorySize ==
  /\ pc[App] = "idle"
  /\ limit' \in Limits
  /\ UNCHANGED <<used, mapMutex, mutex, idle, live, dying, todo, pc>>

-----------------------------------------------------------------------------
(* A frame's last reference goes: its deleter locks the manager, ~T gives  *)
(* the buffer back (reclaimBuffer) and goes on working on the object,      *)
(* which lies in that buffer.                                              *)
Delete(d, m, b) ==
  /\ Move(d, "idle", "reclaim")
  /\ b \in live[m]
  /\ Lock(m, d)
  /\ live' = [live EXCEPT ![m] = @ \ {b}]
  /\ dying' = [dying EXCEPT ![d] = [manager |-> m, buffer |-> b]]
  /\ UNCHANGED <<limit, used, mapMutex, idle, todo>>

(* With more than MaxIdle idle buffers the oldest is freed, not this one.  *)
MutReclaimBuffer(d) ==
  LET m == dying[d].manager
  IN /\ Move(d, "reclaim", "destroy")
     /\ IF Len(idle[m]) = MaxIdle
          THEN used' = used - Size[m] /\ UNCHANGED idle
          ELSE idle' = [idle EXCEPT ![m] = Append(@, dying[d].buffer)] /\ UNCHANGED used
     /\ UNCHANGED <<limit, mapMutex, mutex, live, dying, todo>>

MutReclaimUncounted(d) ==
  LET m == dying[d].manager
      q == Append(idle[m], dying[d].buffer)
  IN /\ Move(d, "reclaim", "destroy")
     /\ idle' = [idle EXCEPT ![m] = IF Len(q) > MaxIdle THEN Tail(q) ELSE q]
     /\ UNCHANGED <<limit, used, mapMutex, mutex, live, dying, todo>>

ReclaimBuffer(d) ==
  LET m == dying[d].manager
      q == Append(idle[m], dying[d].buffer)
  IN /\ Move(d, "reclaim", "destroy")
     /\ IF Len(q) > MaxIdle
          THEN used' = used - Size[m] /\ idle' = [idle EXCEPT ![m] = Tail(q)]
          ELSE idle' = [idle EXCEPT ![m] = q] /\ UNCHANGED used
     /\ UNCHANGED <<limit, mapMutex, mutex, live, dying, todo>>

Destroyed(d) ==
  /\ Move(d, "destroy", "idle")
  /\ Unlock(dying[d].manager)
  /\ dying' = [dying EXCEPT ![d] = NoFrame]
  /\ UNCHANGED <<limit, used, mapMutex, idle, live, todo>>

-----------------------------------------------------------------------------
Free(t) == LockMap(t) \/ ReleaseIdleBuffer(t) \/ FreeReturns(t)

Produce(p) ==
  \/ LockManager(p) \/ TakeIdle(p) \/ AllocateNew(p) \/ OutOfMemory(p)
  \/ RetryAllocate(p) \/ RetryThrows(p) \/ Free(p)

Drop(d) == ReclaimBuffer(d) \/ Destroyed(d)

Next ==
  \/ \E p \in Producers : GetManager(p) \/ Produce(p)
  \/ \E d \in Deleters : Drop(d) \/ \E m \in Managers, b \in Buffers : Delete(d, m, b)
  \/ FreeIdleMemory \/ Free(App)
  \/ SetMaxFrameMemorySize

Spec == Init /\ [][Next]_vars

(* A thread inside the pool goes on.  A mutex that is let go again and     *)
(* again is had in the end: frames come milliseconds apart and hold it for *)
(* microseconds.                                                           *)
FairSpec ==
  /\ Spec
  /\ \A p \in Producers : WF_vars(Produce(p)) /\ SF_vars(LockManager(p)) /\ SF_vars(Free(p))
  /\ \A d \in Deleters : WF_vars(Drop(d))
  /\ WF_vars(Free(App)) /\ SF_vars(Free(App))

-----------------------------------------------------------------------------
(* The buffers of a manager: idle, in frames, or about to be given back.   *)
Giving(m) == {d \in Deleters : pc[d] = "reclaim" /\ dying[d].manager = m}
Held == [m \in Managers |-> Len(idle[m]) + Cardinality(live[m]) + Cardinality(Giving(m))]
Bytes == [m \in Managers |-> Size[m] * Held[m]]

(* usedSize_ is the memory of the buffers that exist, wherever they are,   *)
(* and no buffer is in two places: a double free or a leak would show here.*)
UsedIsAccounted == used = SumFunction(Bytes) /\ Cardinality(Allocated) = SumFunction(Held)

(* While a deleter still works on a frame it has given the buffer of back, *)
(* that buffer is neither freed nor made into a new frame.                 *)
DyingIsUntouched ==
  \A d \in Deleters : pc[d] = "destroy" =>
    \E i \in DOMAIN idle[dying[d].manager] : idle[dying[d].manager][i] = dying[d].buffer

(* No frame is refused for want of memory while a buffer of its kind lies  *)
(* idle: what other threads give back between the failed allocation, the   *)
(* round of freeIdleMemory and the retry must not go unseen, for the retry *)
(* does not look at the idle buffers again.                                *)
NoneIdleAtRetry == \A p \in Producers : pc[p] = "retry" => idle[ManagerOf[p]] = <<>>

(* Creating a frame ends, with a frame or with an exception, also when     *)
(* memory runs out; so does dropping one.                                  *)
CallsReturn == \A t \in Threads : (pc[t] # "idle") ~> (pc[t] = "idle")
=============================================================================
