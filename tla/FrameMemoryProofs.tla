-------------------------- MODULE FrameMemoryProofs ---------------------------
(***************************************************************************)
(* What holds of the frame memory for every number of managers, producers, *)
(* deleters and buffers.                                                   *)
(***************************************************************************)
EXTENDS FrameMemory, SequenceTheorems, FiniteSetTheorems, WellFoundedInduction, TLAPS

(***************************************************************************)
(* Who holds the mutex_ of a manager: a producer from the moment it has    *)
(* locked it in acquireBuffer to the moment it lets go, through            *)
(* freeIdleMemory as well, and a deleter as long as a destructor runs.     *)
(* The types are those parts of TypeOK this needs; deleters and producers  *)
(* keep to their own places.                                               *)
(***************************************************************************)
DeleterState == {"idle", "reclaim", "destroy"}

Types ==
  /\ mutex \in [Managers -> Threads \cup {Nobody}]
  /\ idle \in [Managers -> Seq(Buffers)]
  /\ dying \in [Deleters -> {NoFrame} \cup [manager : Managers, buffer : Buffers]]
  /\ pc \in [Threads -> ProducerState \cup {"reclaim", "destroy"}]
  /\ \A d \in Deleters : pc[d] \in DeleterState
  /\ \A t \in Producers \cup {App} : pc[t] \in ProducerState

DeletersLock ==
  \A d \in Deleters : pc[d] \in {"reclaim", "destroy"} =>
    /\ dying[d] \in [manager : Managers, buffer : Buffers]
    /\ mutex[dying[d].manager] = d

ProducersLock ==
  \A p \in Producers : pc[p] \in {"acquire", "lock_map", "free", "retry"} =>
    mutex[ManagerOf[p]] = p

MemoryInv == Types /\ DeletersLock /\ ProducersLock

(* A pool nobody has used yet: no mutex is taken and no destructor runs.   *)
LEMMA MemoryInit == Init => MemoryInv /\ DyingIsUntouched
  BY MemoryAssumption DEF Init, MemoryInv, Types, DeletersLock, ProducersLock, DyingIsUntouched,
                          ProducerState, DeleterState, Threads

(* A step that leaves alone the deleters, and the managers whose mutex_    *)
(* they hold, disturbs no destructor.                                      *)
LEMMA DeletersUndisturbed ==
  ASSUME DeletersLock, DyingIsUntouched,
         UNCHANGED dying,
         \A d \in Deleters : pc'[d] = pc[d],
         \A k \in Managers : mutex[k] \in Deleters => mutex'[k] = mutex[k] /\ idle'[k] = idle[k]
  PROVE  DeletersLock' /\ DyingIsUntouched'
<1>1. ASSUME NEW d \in Deleters, pc[d] \in {"reclaim", "destroy"}
      PROVE  /\ dying[d] \in [manager : Managers, buffer : Buffers]
             /\ mutex'[dying[d].manager] = d
             /\ idle'[dying[d].manager] = idle[dying[d].manager]
  <2>1. /\ dying[d] \in [manager : Managers, buffer : Buffers]
        /\ mutex[dying[d].manager] = d
    BY <1>1 DEF DeletersLock
  <2>2. dying[d].manager \in Managers
    BY <2>1
  <2> QED BY <2>1, <2>2
<1>2. DeletersLock'
  BY <1>1 DEF DeletersLock
<1>3. ASSUME NEW d \in Deleters, pc'[d] = "destroy"
      PROVE  \E i \in DOMAIN idle'[dying'[d].manager] :
               idle'[dying'[d].manager][i] = dying'[d].buffer
  <2>1. \E i \in DOMAIN idle[dying[d].manager] : idle[dying[d].manager][i] = dying[d].buffer
    BY <1>3 DEF DyingIsUntouched
  <2>2. idle'[dying[d].manager] = idle[dying[d].manager]
    BY <1>1, <1>3
  <2> QED BY <2>1, <2>2
<1>4. DyingIsUntouched'
  BY <1>3 DEF DyingIsUntouched
<1> QED BY <1>2, <1>4

(* The parts of acquireBuffer that lock, keep or release a manager's own   *)
(* mutex, by a thread that is no deleter.                                  *)
LEMMA ProduceKeepsInv ==
  ASSUME MemoryInv, DyingIsUntouched, NEW p \in Producers,
         GetManager(p) \/ LockManager(p) \/ TakeIdle(p) \/ AllocateNew(p) \/ OutOfMemory(p)
           \/ RetryAllocate(p) \/ RetryThrows(p)
  PROVE  MemoryInv' /\ DyingIsUntouched'
<1> DEFINE m == ManagerOf[p]
<1>0. m \in Managers /\ p \in Threads /\ p \notin Deleters /\ p # App /\ p # Nobody
  BY MemoryAssumption DEF Threads
<1>1. /\ pc' \in [Threads -> ProducerState \cup {"reclaim", "destroy"}]
      /\ pc'[p] \in ProducerState
      /\ \A t \in Threads \ {p} : pc'[t] = pc[t]
  BY <1>0 DEF MemoryInv, Types, GetManager, LockManager, TakeIdle, AllocateNew, OutOfMemory,
              RetryAllocate, RetryThrows, Move, ProducerState
<1>2. /\ dying' = dying
      /\ mutex' \in [Managers -> Threads \cup {Nobody}]
      /\ idle' \in [Managers -> Seq(Buffers)]
  <2>1. CASE TakeIdle(p)
    <3>1. Tail(idle[m]) \in Seq(Buffers)
      BY <1>0, <2>1, HeadTailProperties DEF MemoryInv, Types, TakeIdle
    <3> QED BY <1>0, <2>1, <3>1 DEF MemoryInv, Types, TakeIdle, Unlock
  <2>2. CASE ~TakeIdle(p)
    BY <1>0, <2>2 DEF MemoryInv, Types, GetManager, LockManager, AllocateNew, OutOfMemory,
                      RetryAllocate, RetryThrows, Lock, Unlock
  <2> QED BY <2>1, <2>2
<1>3. Types'
  BY <1>0, <1>1, <1>2, MemoryAssumption DEF MemoryInv, Types, Threads
<1>4. \A k \in Managers : mutex[k] \notin {p, Nobody} => mutex'[k] = mutex[k] /\ idle'[k] = idle[k]
  BY <1>0 DEF MemoryInv, Types, ProducersLock, GetManager, LockManager, TakeIdle, AllocateNew,
              OutOfMemory, RetryAllocate, RetryThrows, Move, Lock, Unlock
<1>5. DeletersLock' /\ DyingIsUntouched'
  <2>1. \A k \in Managers :
          mutex[k] \in Deleters => mutex'[k] = mutex[k] /\ idle'[k] = idle[k]
    BY <1>0, <1>4, MemoryAssumption
  <2>2. \A d \in Deleters : pc'[d] = pc[d]
    BY <1>0, <1>1 DEF Threads
  <2> QED BY <1>2, <2>1, <2>2, DeletersUndisturbed DEF MemoryInv
<1>6. pc'[p] \in {"acquire", "lock_map", "free", "retry"} => mutex'[m] = p
  BY <1>0 DEF MemoryInv, Types, ProducersLock, GetManager, LockManager, TakeIdle, AllocateNew,
              OutOfMemory, RetryAllocate, RetryThrows, Move, Lock
<1>7. ProducersLock'
  BY <1>0, <1>1, <1>4, <1>6, MemoryAssumption DEF MemoryInv, ProducersLock, Threads
<1> QED BY <1>3, <1>5, <1>7 DEF MemoryInv

(* freeIdleMemory, called by a producer or by the application: it passes a *)
(* mutex that is free or the caller's own, and so never a deleter's.       *)
LEMMA FreeKeepsInv ==
  ASSUME MemoryInv, DyingIsUntouched, NEW t \in Producers \cup {App},
         Free(t) \/ (t = App /\ FreeIdleMemory)
  PROVE  MemoryInv' /\ DyingIsUntouched'
<1>0. t \in Threads /\ t \notin Deleters /\ t # Nobody
  BY MemoryAssumption DEF Threads
<1>1. /\ pc' \in [Threads -> ProducerState \cup {"reclaim", "destroy"}]
      /\ pc'[t] \in ProducerState
      /\ \A u \in Threads \ {t} : pc'[u] = pc[u]
  BY <1>0 DEF MemoryInv, Types, Free, FreeIdleMemory, LockMap, ReleaseIdleBuffer, FreeReturns,
              Move, ProducerState
<1>2. UNCHANGED <<dying, mutex>>
  BY DEF Free, FreeIdleMemory, LockMap, ReleaseIdleBuffer, FreeReturns
<1>3. /\ idle' \in [Managers -> Seq(Buffers)]
      /\ \A k \in Managers : mutex[k] \notin {t, Nobody} => idle'[k] = idle[k]
  <2>1. CASE ReleaseIdleBuffer(t)
    <3> DEFINE m == Min(todo[t])
    <3>1. mutex[m] \in {Nobody, t} /\ idle' = [idle EXCEPT ![m] = <<>>]
      BY <2>1 DEF ReleaseIdleBuffer
    <3>2. idle \in [Managers -> Seq(Buffers)] /\ <<>> \in Seq(Buffers)
      BY DEF MemoryInv, Types
    <3> HIDE DEF m
    <3> QED BY <3>1, <3>2
  <2>2. CASE ~ReleaseIdleBuffer(t)
    BY <2>2 DEF MemoryInv, Types, Free, FreeIdleMemory, LockMap, FreeReturns
  <2> QED BY <2>1, <2>2
<1>4. Types'
  BY <1>0, <1>1, <1>2, <1>3, MemoryAssumption DEF MemoryInv, Types, Threads
<1>5. DeletersLock' /\ DyingIsUntouched'
  <2>1. \A k \in Managers :
          mutex[k] \in Deleters => mutex'[k] = mutex[k] /\ idle'[k] = idle[k]
    BY <1>0, <1>2, <1>3, MemoryAssumption
  <2>2. \A d \in Deleters : pc'[d] = pc[d]
    BY <1>0, <1>1 DEF Threads
  <2> QED BY <1>2, <2>1, <2>2, DeletersUndisturbed DEF MemoryInv
<1>6. t \in Producers /\ pc'[t] \in {"acquire", "lock_map", "free", "retry"}
        => pc[t] \in {"acquire", "lock_map", "free", "retry"}
  BY <1>0, MemoryAssumption DEF MemoryInv, Types, Free, FreeIdleMemory, LockMap,
                                ReleaseIdleBuffer, FreeReturns, Move
<1>7. ProducersLock'
  BY <1>0, <1>1, <1>2, <1>6, MemoryAssumption DEF MemoryInv, ProducersLock, Threads
<1> QED BY <1>4, <1>5, <1>7 DEF MemoryInv

(* A frame is dropped: the deleter locks the manager, and other deleters   *)
(* keep theirs.                                                            *)
LEMMA DeleteKeepsInv ==
  ASSUME MemoryInv, DyingIsUntouched, NEW d \in Deleters, NEW m \in Managers, NEW b \in Buffers,
         Delete(d, m, b)
  PROVE  MemoryInv' /\ DyingIsUntouched'
<1>0. d \in Threads /\ d \notin Producers /\ d # App /\ d # Nobody
  BY MemoryAssumption DEF Threads
<1>1. /\ pc[d] = "idle" /\ pc' = [pc EXCEPT ![d] = "reclaim"]
      /\ mutex[m] = Nobody /\ mutex' = [mutex EXCEPT ![m] = d]
      /\ dying' = [dying EXCEPT ![d] = [manager |-> m, buffer |-> b]]
      /\ UNCHANGED idle
  BY DEF Delete, Move, Lock
<1>2. Types'
  BY <1>0, <1>1, MemoryAssumption DEF MemoryInv, Types, Threads, DeleterState
<1>3. \A k \in Managers : mutex[k] # Nobody => mutex'[k] = mutex[k]
  BY <1>1 DEF MemoryInv, Types
<1>4. ASSUME NEW e \in Deleters, pc'[e] \in {"reclaim", "destroy"}
      PROVE  /\ dying'[e] \in [manager : Managers, buffer : Buffers]
             /\ mutex'[dying'[e].manager] = e
  <2>1. CASE e = d
    BY <1>1, <2>1 DEF MemoryInv, Types
  <2>2. CASE e # d
    <3>1. pc[e] \in {"reclaim", "destroy"} /\ dying'[e] = dying[e]
      BY <1>0, <1>1, <1>4, <2>2 DEF MemoryInv, Types, Threads
    <3>2. dying[e] \in [manager : Managers, buffer : Buffers] /\ mutex[dying[e].manager] = e
      BY <3>1 DEF MemoryInv, DeletersLock
    <3>3. dying[e].manager \in Managers /\ e # Nobody
      BY <3>2, MemoryAssumption
    <3> QED BY <1>3, <3>1, <3>2, <3>3
  <2> QED BY <2>1, <2>2
<1>5. DeletersLock'
  BY <1>4 DEF DeletersLock
<1>6. ProducersLock'
  BY <1>0, <1>1, <1>3, MemoryAssumption DEF MemoryInv, Types, ProducersLock, Threads
<1>7. \A e \in Deleters : pc'[e] = "destroy" => pc[e] = "destroy" /\ dying'[e] = dying[e]
  BY <1>0, <1>1 DEF MemoryInv, Types, Threads
<1>8. DyingIsUntouched'
  BY <1>1, <1>7 DEF DyingIsUntouched
<1> QED BY <1>2, <1>5, <1>6, <1>8 DEF MemoryInv

(* The destructor of a frame: reclaimBuffer puts the buffer at the end of  *)
(* the idle ones and frees the oldest at most; MaxIdle # 0 keeps the two   *)
(* apart.  The mutex_ is released only when the destructor is through.     *)
LEMMA DropKeepsInv ==
  ASSUME MemoryInv, DyingIsUntouched, NEW d \in Deleters, Drop(d)
  PROVE  MemoryInv' /\ DyingIsUntouched'
<1> DEFINE m == dying[d].manager
           b == dying[d].buffer
<1>0. d \in Threads /\ d \notin Producers /\ d # App /\ d # Nobody
  BY MemoryAssumption DEF Threads
<1>1. /\ pc[d] \in {"reclaim", "destroy"}
      /\ dying[d] \in [manager : Managers, buffer : Buffers]
      /\ m \in Managers /\ b \in Buffers /\ mutex[m] = d
  <2>1. pc[d] \in {"reclaim", "destroy"}
    BY DEF Drop, ReclaimBuffer, Destroyed, Move
  <2>2. dying[d] \in [manager : Managers, buffer : Buffers] /\ mutex[m] = d
    BY <2>1 DEF MemoryInv, DeletersLock
  <2> QED BY <2>1, <2>2
<1>2. CASE ReclaimBuffer(d)
  <2> DEFINE q == Append(idle[m], b)
  <2>1. /\ pc[d] = "reclaim" /\ pc' = [pc EXCEPT ![d] = "destroy"]
        /\ idle' = [idle EXCEPT ![m] = IF Len(q) > MaxIdle THEN Tail(q) ELSE q]
        /\ UNCHANGED <<mutex, dying>>
    BY <1>2 DEF ReclaimBuffer, Move
  <2>2. /\ idle[m] \in Seq(Buffers) /\ Len(idle[m]) \in Nat
        /\ q \in Seq(Buffers) /\ Len(q) = Len(idle[m]) + 1 /\ q[Len(q)] = b /\ q # <<>>
    <3>1. idle[m] \in Seq(Buffers)
      BY <1>1 DEF MemoryInv, Types
    <3>2. Len(idle[m]) \in Nat
      BY <3>1
    <3> QED BY <1>1, <3>1, <3>2, AppendProperties, SMTT(30)
  <2> HIDE DEF m, b, q
  <2>3. Tail(q) \in Seq(Buffers) /\ Len(Tail(q)) = Len(q) - 1
        /\ (Len(q) > 1 => Tail(q)[Len(q) - 1] = b)
    BY <2>2, HeadTailProperties
  <2>4. \E i \in DOMAIN idle'[m] : idle'[m][i] = b
    <3>1. CASE Len(q) > MaxIdle
      <4>1. Len(q) - 1 \in 1..Len(Tail(q)) /\ idle'[m] = Tail(q)
        BY <1>1, <2>1, <2>2, <2>3, <3>1, MemoryAssumption DEF MemoryInv, Types
      <4>2. DOMAIN Tail(q) = 1..Len(Tail(q)) /\ Tail(q)[Len(q) - 1] = b
        BY <2>2, <2>3, <3>1, MemoryAssumption
      <4> QED BY <4>1, <4>2
    <3>2. CASE ~(Len(q) > MaxIdle)
      <4>1. idle'[m] = q
        BY <1>1, <2>1, <3>2 DEF MemoryInv, Types
      <4>2. Len(q) \in DOMAIN q
        BY <2>2
      <4> QED BY <2>2, <4>1, <4>2
    <3> QED BY <3>1, <3>2
  <2>5. Types'
    <3>1. idle' \in [Managers -> Seq(Buffers)]
      BY <1>1, <2>1, <2>2, <2>3 DEF MemoryInv, Types
    <3> QED BY <1>0, <2>1, <3>1, MemoryAssumption DEF MemoryInv, Types, Threads, DeleterState
  <2>6. \A e \in Threads \ {d} : pc'[e] = pc[e]
    BY <2>1 DEF MemoryInv, Types
  <2>7. DeletersLock'
    BY <1>1, <2>1, <2>6 DEF MemoryInv, DeletersLock, Threads
  <2>8. ProducersLock'
    BY <1>0, <2>1, <2>6 DEF MemoryInv, ProducersLock, Threads
  <2>9. ASSUME NEW e \in Deleters, pc'[e] = "destroy"
        PROVE  \E i \in DOMAIN idle'[dying'[e].manager] :
                 idle'[dying'[e].manager][i] = dying'[e].buffer
    <3>1. CASE e = d
      BY <2>1, <2>4, <3>1 DEF m, b
    <3>2. CASE e # d
      <4>1. pc[e] = "destroy" /\ dying'[e] = dying[e]
        BY <2>1, <2>6, <2>9, <3>2 DEF Threads
      <4>2. dying[e] \in [manager : Managers, buffer : Buffers] /\ mutex[dying[e].manager] = e
        BY <4>1 DEF MemoryInv, DeletersLock
      <4>3. dying[e].manager # m
        BY <1>1, <3>2, <4>2
      <4>4. idle'[dying[e].manager] = idle[dying[e].manager]
        BY <2>1, <4>2, <4>3 DEF MemoryInv, Types
      <4>5. \E i \in DOMAIN idle[dying[e].manager] :
              idle[dying[e].manager][i] = dying[e].buffer
        BY <4>1 DEF DyingIsUntouched
      <4> QED BY <4>1, <4>4, <4>5
    <3> QED BY <3>1, <3>2
  <2>10. DyingIsUntouched'
    BY <2>9 DEF DyingIsUntouched
  <2> QED BY <2>5, <2>7, <2>8, <2>10 DEF MemoryInv
<1>3. CASE Destroyed(d)
  <2>1. /\ pc[d] = "destroy" /\ pc' = [pc EXCEPT ![d] = "idle"]
        /\ mutex' = [mutex EXCEPT ![m] = Nobody]
        /\ dying' = [dying EXCEPT ![d] = NoFrame]
        /\ UNCHANGED idle
    BY <1>3 DEF Destroyed, Move, Unlock
  <2>2. Types'
    BY <1>0, <1>1, <2>1, MemoryAssumption
       DEF MemoryInv, Types, Threads, DeleterState, ProducerState
  <2>3. /\ \A k \in Managers : mutex[k] # d => mutex'[k] = mutex[k]
        /\ \A e \in Threads \ {d} : pc'[e] = pc[e]
        /\ \A e \in Deleters \ {d} : dying'[e] = dying[e]
        /\ pc'[d] = "idle"
    BY <1>0, <1>1, <2>1 DEF MemoryInv, Types
  <2>4. ASSUME NEW e \in Deleters, pc'[e] \in {"reclaim", "destroy"}
        PROVE  /\ e # d /\ pc[e] = pc'[e] /\ dying'[e] = dying[e]
               /\ dying[e] \in [manager : Managers, buffer : Buffers]
               /\ mutex'[dying[e].manager] = e
    <3>1. e # d /\ pc[e] = pc'[e] /\ dying'[e] = dying[e]
      BY <2>3, <2>4 DEF Threads
    <3>2. dying[e] \in [manager : Managers, buffer : Buffers] /\ mutex[dying[e].manager] = e
      BY <2>4, <3>1 DEF MemoryInv, DeletersLock
    <3>3. dying[e].manager \in Managers
      BY <3>2
    <3> QED BY <2>3, <3>1, <3>2, <3>3
  <2>5. DeletersLock'
    BY <2>4 DEF DeletersLock
  <2>6. ProducersLock'
    BY <1>0, <2>3, MemoryAssumption DEF MemoryInv, ProducersLock, Threads
  <2>7. DyingIsUntouched'
    BY <2>1, <2>4 DEF DyingIsUntouched
  <2> QED BY <2>2, <2>5, <2>6, <2>7 DEF MemoryInv
<1> QED BY <1>2, <1>3 DEF Drop

(* Every step keeps the locks and leaves running destructors alone.        *)
LEMMA MemoryStep ==
  ASSUME MemoryInv, DyingIsUntouched, [Next]_vars
  PROVE  MemoryInv' /\ DyingIsUntouched'
<1>1. CASE UNCHANGED vars \/ SetMaxFrameMemorySize
  BY <1>1 DEF vars, SetMaxFrameMemorySize, MemoryInv, Types, DeletersLock, ProducersLock,
              DyingIsUntouched
<1>2. ASSUME NEW p \in Producers, GetManager(p) \/ Produce(p)
      PROVE  MemoryInv' /\ DyingIsUntouched'
  BY <1>2, ProduceKeepsInv, FreeKeepsInv DEF Produce
<1>3. CASE FreeIdleMemory \/ Free(App)
  BY <1>3, FreeKeepsInv
<1>4. ASSUME NEW d \in Deleters, Drop(d) \/ \E m \in Managers, b \in Buffers : Delete(d, m, b)
      PROVE  MemoryInv' /\ DyingIsUntouched'
  BY <1>4, DropKeepsInv, DeleteKeepsInv
<1> QED BY <1>1, <1>2, <1>3, <1>4 DEF Next

(* While a destructor runs on an object that lies in a buffer already      *)
(* given back, the buffer is neither freed nor handed out again, whatever  *)
(* the number of threads and managers and the limit of idle buffers.       *)
THEOREM DyingIsUntouchedHolds == Spec => []DyingIsUntouched
<1> QED BY MemoryInit, MemoryStep, PTL DEF Spec

(***************************************************************************)
(* A producer that is out of memory keeps its manager to itself: from the  *)
(* failed allocation to the retry the manager's idle buffers are none.     *)
(***************************************************************************)
NoneIdle ==
  \A p \in Producers : pc[p] \in {"lock_map", "free", "retry"} => idle[ManagerOf[p]] = <<>>

(* Nobody is out of memory at first.                                       *)
LEMMA NoneIdleInit == Init => NoneIdle
  BY DEF Init, NoneIdle, Threads

(* A step fills the idle buffers of no manager but one whose mutex_ is     *)
(* free or its own, and starts nobody on freeIdleMemory who sees any.      *)
LEMMA NoneIdleKept ==
  ASSUME MemoryInv, NoneIdle, NEW t \in Threads,
         \A u \in Threads : u # t => pc'[u] = pc[u],
         \A k \in Managers : mutex[k] \notin {t, Nobody} => idle'[k] \in {idle[k], <<>>},
         t \in Producers /\ pc'[t] \in {"lock_map", "free", "retry"} => idle'[ManagerOf[t]] = <<>>
  PROVE  NoneIdle'
<1> SUFFICES ASSUME NEW p \in Producers, pc'[p] \in {"lock_map", "free", "retry"}
             PROVE  idle'[ManagerOf[p]] = <<>>
  BY DEF NoneIdle
<1>1. CASE p = t
  BY <1>1
<1>2. CASE p # t
  <2>1. p \in Threads /\ p # Nobody /\ ManagerOf[p] \in Managers
    BY MemoryAssumption DEF Threads
  <2>2. pc[p] \in {"lock_map", "free", "retry"}
    BY <1>2, <2>1
  <2>3. mutex[ManagerOf[p]] = p /\ idle[ManagerOf[p]] = <<>>
    BY <2>2 DEF MemoryInv, ProducersLock, NoneIdle
  <2> QED BY <1>2, <2>1, <2>3
<1> QED BY <1>1, <1>2

(* Every step is of that kind: acquireBuffer takes from its own manager    *)
(* only, releaseIdleBuffer leaves none idle, and reclaimBuffer runs under  *)
(* the mutex_ of the manager it gives the buffer to.                       *)
LEMMA NoneIdleStep ==
  ASSUME MemoryInv, NoneIdle, [Next]_vars
  PROVE  NoneIdle'
<1>1. CASE UNCHANGED vars
  BY <1>1 DEF vars, NoneIdle
<1>2. CASE SetMaxFrameMemorySize
  BY <1>2 DEF SetMaxFrameMemorySize, NoneIdle
<1>3. ASSUME NEW p \in Producers,
             GetManager(p) \/ LockManager(p) \/ TakeIdle(p) \/ AllocateNew(p) \/ OutOfMemory(p)
               \/ RetryAllocate(p) \/ RetryThrows(p)
      PROVE  NoneIdle'
  <2>0. p \in Threads /\ ManagerOf[p] \in Managers /\ p # Nobody
    BY MemoryAssumption DEF Threads
  <2>1. \A u \in Threads : u # p => pc'[u] = pc[u]
    BY <1>3 DEF GetManager, LockManager, TakeIdle, AllocateNew, OutOfMemory, RetryAllocate,
                RetryThrows, Move, MemoryInv, Types
  <2>2. \A k \in Managers : mutex[k] \notin {p, Nobody} => idle'[k] \in {idle[k], <<>>}
    BY <1>3, <2>0 DEF GetManager, LockManager, TakeIdle, AllocateNew, OutOfMemory, RetryAllocate,
                      RetryThrows, Move, MemoryInv, Types, ProducersLock
  <2>3. pc'[p] \in {"lock_map", "free", "retry"} => idle'[ManagerOf[p]] = <<>>
    BY <1>3, <2>0 DEF GetManager, LockManager, TakeIdle, AllocateNew, OutOfMemory, RetryAllocate,
                      RetryThrows, Move, MemoryInv, Types
  <2> QED BY <2>0, <2>1, <2>2, <2>3, NoneIdleKept
<1>4. ASSUME NEW t \in Producers \cup {App}, Free(t) \/ (t = App /\ FreeIdleMemory)
      PROVE  NoneIdle'
  <2>0. t \in Threads /\ (t = App => t \notin Producers)
    BY MemoryAssumption DEF Threads
  <2>1. \A u \in Threads : u # t => pc'[u] = pc[u]
    BY <1>4, <2>0 DEF Free, FreeIdleMemory, LockMap, ReleaseIdleBuffer, FreeReturns, Move,
                      MemoryInv, Types
  <2>2. \A k \in Managers : idle'[k] \in {idle[k], <<>>}
    <3>1. idle' = idle \/ \E m : idle' = [idle EXCEPT ![m] = <<>>]
      BY <1>4 DEF Free, FreeIdleMemory, LockMap, ReleaseIdleBuffer, FreeReturns
    <3> QED BY <3>1 DEF MemoryInv, Types
  <2>3. t \in Producers /\ pc'[t] \in {"lock_map", "free", "retry"}
          => pc[t] \in {"lock_map", "free", "retry"}
    BY <1>4, <2>0 DEF Free, FreeIdleMemory, LockMap, ReleaseIdleBuffer, FreeReturns, Move,
                      MemoryInv, Types
  <2>4. t \in Producers /\ pc'[t] \in {"lock_map", "free", "retry"} => idle'[ManagerOf[t]] = <<>>
    BY <2>2, <2>3, MemoryAssumption DEF NoneIdle
  <2> QED BY <2>0, <2>1, <2>2, <2>4, NoneIdleKept
<1>5. ASSUME NEW d \in Deleters, Drop(d) \/ \E m \in Managers, b \in Buffers : Delete(d, m, b)
      PROVE  NoneIdle'
  <2>0. d \in Threads /\ d \notin Producers
    BY MemoryAssumption DEF Threads
  <2>1. \A u \in Threads : u # d => pc'[u] = pc[u]
    BY <1>5, <2>0 DEF Drop, ReclaimBuffer, Destroyed, Delete, Move, MemoryInv, Types
  <2>2. \A k \in Managers : mutex[k] \notin {d, Nobody} => idle'[k] = idle[k]
    <3>1. CASE ReclaimBuffer(d)
      <4>1. mutex[dying[d].manager] = d
        BY <3>1 DEF ReclaimBuffer, Move, MemoryInv, DeletersLock
      <4> QED BY <3>1, <4>1 DEF ReclaimBuffer, MemoryInv, Types
    <3>2. CASE ~ReclaimBuffer(d)
      BY <1>5, <3>2 DEF Drop, Destroyed, Delete
    <3> QED BY <3>1, <3>2
  <2> QED BY <2>0, <2>1, <2>2, NoneIdleKept
<1> QED BY <1>1, <1>2, <1>3, <1>4, <1>5 DEF Next, Produce

(* Memory runs out for a stream only when no buffer of its kind is idle,   *)
(* whatever is given back while freeIdleMemory goes round and however the  *)
(* limit is changed.                                                       *)
THEOREM NoneIdleAtRetryHolds == Spec => []NoneIdleAtRetry
<1>1. MemoryInv /\ DyingIsUntouched /\ [Next]_vars => MemoryInv' /\ DyingIsUntouched'
  BY MemoryStep
<1>2. NoneIdle => NoneIdleAtRetry
  BY DEF NoneIdle, NoneIdleAtRetry
<1> QED BY <1>1, <1>2, MemoryInit, NoneIdleInit, NoneIdleStep, PTL DEF Spec

(* The manager freeIdleMemory turns to next is one it has still to visit.  *)
LEMMA MinIsMember ==
  ASSUME NEW S, S \subseteq Nat, S # {}
  PROVE  Min(S) \in S
<1>1. PICK x \in S : \A y \in S : ~(<<y, x>> \in OpToRel(<, Nat))
  BY NatLessThanWellFounded, WFMin
<1>2. ASSUME NEW y \in S PROVE x =< y
  <2>1. x \in Nat /\ y \in Nat
    OBVIOUS
  <2>2. y < x => <<y, x>> \in OpToRel(<, Nat)
    BY <2>1 DEF OpToRel
  <2>3. ~(y < x)
    BY <1>1, <2>2
  <2> QED BY <2>1, <2>3
<1> QED BY <1>2 DEF Min

-----------------------------------------------------------------------------
(* Sums.  A sum over a finite set is a recursive function; with induction  *)
(* over the natural numbers, one of them exists, and changing one summand  *)
(* changes the sum by as much.                                             *)
LEMMA Induction ==
  ASSUME NEW T \in SUBSET Nat, 0 \in T, \A n \in T : n + 1 \in T
  PROVE  T = Nat
<1> SUFFICES ASSUME Nat \ T # {} PROVE FALSE
  OBVIOUS
<1> DEFINE R == OpToRel(<, Nat)
<1>1. IsWellFoundedOn(R, Nat)
  BY NatLessThanWellFounded
<1>2. \A x, y \in Nat : y < x => <<y, x>> \in R
  BY DEF OpToRel
<1> HIDE DEF R
<1>3. PICK x \in Nat \ T : \A y \in Nat \ T : <<y, x>> \notin R
  BY <1>1, WFMin
<1>4. x # 0 /\ x - 1 \in Nat /\ (x - 1) + 1 = x
  BY <1>3
<1>5. x - 1 \in T
  <2>1. <<x - 1, x>> \in R
    BY <1>2, <1>3, <1>4
  <2> QED BY <1>3, <1>4, <2>1
<1> QED BY <1>3, <1>4, <1>5

Chosen(s) == CHOOSE x \in s : TRUE

IsSum(S, f, g) ==
  g = [s \in SUBSET S |-> IF s = {} THEN 0 ELSE f[Chosen(s)] + g[s \ {Chosen(s)}]]

LEMMA ChosenIsMember ==
  ASSUME NEW S, IsFiniteSet(S), NEW s \in SUBSET S, s # {}
  PROVE  /\ Chosen(s) \in s /\ s \ {Chosen(s)} \in SUBSET S
         /\ Cardinality(s) \in Nat /\ Cardinality(s \ {Chosen(s)}) = Cardinality(s) - 1
<1>1. Chosen(s) \in s
  BY DEF Chosen
<1>2. IsFiniteSet(s) /\ Cardinality(s) \in Nat
  BY FS_Subset, FS_CardinalityType
<1> QED BY <1>1, <1>2, FS_RemoveElement

LEMMA SumExists ==
  ASSUME NEW S, IsFiniteSet(S), NEW f \in [S -> Int]
  PROVE  \E g \in [SUBSET S -> Int] : IsSum(S, f, g)
<1> DEFINE Summed(g, s) == g[s] = IF s = {} THEN 0 ELSE f[Chosen(s)] + g[s \ {Chosen(s)}]
           T == {n \in Nat : \E g \in [SUBSET S -> Int] :
                                \A s \in SUBSET S : Cardinality(s) <= n => Summed(g, s)}
<1>1. \A s \in SUBSET S : Cardinality(s) \in Nat /\ (Cardinality(s) = 0 <=> s = {})
  BY FS_Subset, FS_CardinalityType, FS_EmptySet
<1>2. 0 \in T
  <2> DEFINE g == [s \in SUBSET S |-> 0]
  <2>1. g \in [SUBSET S -> Int]
    OBVIOUS
  <2>2. \A s \in SUBSET S : Cardinality(s) <= 0 => Summed(g, s)
    BY <1>1
  <2> HIDE DEF g
  <2> QED BY <2>1, <2>2
<1>3. ASSUME NEW n \in T PROVE n + 1 \in T
  <2>1. PICK g \in [SUBSET S -> Int] : \A s \in SUBSET S : Cardinality(s) <= n => Summed(g, s)
    OBVIOUS
  <2> DEFINE h == [s \in SUBSET S |-> IF s = {} THEN 0 ELSE f[Chosen(s)] + g[s \ {Chosen(s)}]]
  <2>2. h \in [SUBSET S -> Int]
    <3>1. ASSUME NEW s \in SUBSET S, s # {} PROVE f[Chosen(s)] + g[s \ {Chosen(s)}] \in Int
      <4>1. Chosen(s) \in S /\ s \ {Chosen(s)} \in SUBSET S
        BY <3>1, ChosenIsMember
      <4> QED BY <4>1
    <3> QED BY <3>1
  <2>3. ASSUME NEW s \in SUBSET S, Cardinality(s) <= n + 1 PROVE Summed(h, s)
    <3>1. CASE s = {}
      BY <3>1
    <3>2. CASE s # {}
      <4>1. /\ s \ {Chosen(s)} \in SUBSET S /\ Cardinality(s) \in Nat
            /\ Cardinality(s \ {Chosen(s)}) = Cardinality(s) - 1
        BY <3>2, ChosenIsMember
      <4>2. Summed(g, s \ {Chosen(s)})
        <5>1. Cardinality(s \ {Chosen(s)}) <= n
          BY <2>3, <4>1
        <5> HIDE DEF Summed
        <5> QED BY <2>1, <4>1, <5>1
      <4>3. h[s \ {Chosen(s)}] = g[s \ {Chosen(s)}]
        BY <4>1, <4>2
      <4> QED BY <3>2, <4>3
    <3> QED BY <3>1, <3>2
  <2> HIDE DEF h, Summed
  <2> QED BY <2>2, <2>3
<1>4. T = Nat
  <2> HIDE DEF T
  <2>1. T \in SUBSET Nat
    BY DEF T
  <2> QED BY <1>2, <1>3, <2>1, Induction
<1>5. PICK g \in [SUBSET S -> Int] :
        \A s \in SUBSET S : Cardinality(s) <= Cardinality(S) => Summed(g, s)
  BY <1>1, <1>4
<1>6. \A s \in SUBSET S : Cardinality(s) <= Cardinality(S)
  BY FS_Subset
<1>7. IsSum(S, f, g)
  BY <1>5, <1>6 DEF IsSum
<1> QED BY <1>7

LEMMA SumIsSum ==
  ASSUME NEW S, IsFiniteSet(S), NEW f \in [S -> Int]
  PROVE  \E g : IsSum(S, f, g) /\ SumFunction(f) = g[S]
<1>1. SumFunction(f) = (CHOOSE g : IsSum(S, f, g))[S]
  BY DEF SumFunction, SumFunctionOnSet, FoldFunctionOnSet, MapThenFoldSet, IsSum, Chosen
<1> QED BY <1>1, SumExists

(* What is said of every subset with its sum.                              *)
LEMMA SumFacts ==
  ASSUME NEW S, NEW f, NEW g, IsSum(S, f, g)
  PROVE  /\ g[{}] = 0
         /\ \A s \in SUBSET S : s # {} => g[s] = f[Chosen(s)] + g[s \ {Chosen(s)}]
BY DEF IsSum

(* Two families that differ in one summand have sums that differ by it.    *)
LEMMA SumChanges ==
  ASSUME NEW S, IsFiniteSet(S), NEW f \in [S -> Int], NEW h \in [S -> Int], NEW x \in S,
         \A y \in S \ {x} : h[y] = f[y]
  PROVE  /\ SumFunction(f) \in Int
         /\ SumFunction(h) = SumFunction(f) + (h[x] - f[x])
<1>1. PICK g : IsSum(S, f, g) /\ SumFunction(f) = g[S]
  BY SumIsSum
<1>2. PICK k : IsSum(S, h, k) /\ SumFunction(h) = k[S]
  BY SumIsSum
<1> DEFINE Differ(s) == /\ g[s] \in Int
                        /\ k[s] = IF x \in s THEN g[s] + (h[x] - f[x]) ELSE g[s]
           T == {n \in Nat : \A s \in SUBSET S : Cardinality(s) = n => Differ(s)}
<1>3. \A s \in SUBSET S : Cardinality(s) \in Nat /\ (Cardinality(s) = 0 <=> s = {})
  BY FS_Subset, FS_CardinalityType, FS_EmptySet
<1>4. 0 \in T
  <2>1. Differ({})
    BY <1>1, <1>2, SumFacts
  <2> HIDE DEF Differ
  <2> QED BY <1>3, <2>1
<1>5. ASSUME NEW n \in T PROVE n + 1 \in T
  <2>1. ASSUME NEW s \in SUBSET S, Cardinality(s) = n + 1 PROVE Differ(s)
    <3> DEFINE c == Chosen(s)
               r == s \ {c}
    <3>1. n \in Nat /\ s # {}
      BY <1>3, <2>1
    <3>2. c \in s /\ r \in SUBSET S /\ Cardinality(r) = n
      BY <2>1, <3>1, ChosenIsMember
    <3>3. g[s] = f[c] + g[r] /\ k[s] = h[c] + k[r]
      BY <1>1, <1>2, <3>1, SumFacts
    <3>4. x \in r <=> x \in s /\ x # c
      OBVIOUS
    <3> HIDE DEF c, r
    <3>5. Differ(r) /\ f[c] \in Int /\ h[c] \in Int /\ f[x] \in Int /\ h[x] \in Int
      BY <3>2
    <3>6. CASE c = x
      BY <3>2, <3>3, <3>4, <3>5, <3>6
    <3>7. CASE c # x
      <4>1. h[c] = f[c]
        BY <3>2, <3>7
      <4> QED BY <3>3, <3>4, <3>5, <3>7, <4>1
    <3> QED BY <3>6, <3>7
  <2> HIDE DEF Differ
  <2> QED BY <2>1
<1>6. T = Nat
  <2> HIDE DEF T
  <2>1. T \in SUBSET Nat
    BY DEF T
  <2> QED BY <1>4, <1>5, <2>1, Induction
<1>7. Differ(S)
  BY <1>3, <1>6
<1> QED BY <1>1, <1>2, <1>7

LEMMA SumOfZeros ==
  ASSUME NEW S, IsFiniteSet(S), NEW f \in [S -> Int], \A x \in S : f[x] = 0
  PROVE  SumFunction(f) = 0
<1>1. PICK g : IsSum(S, f, g) /\ SumFunction(f) = g[S]
  BY SumIsSum
<1> DEFINE T == {n \in Nat : \A s \in SUBSET S : Cardinality(s) = n => g[s] = 0}
<1>2. \A s \in SUBSET S : Cardinality(s) \in Nat /\ (Cardinality(s) = 0 <=> s = {})
  BY FS_Subset, FS_CardinalityType, FS_EmptySet
<1>3. 0 \in T
  BY <1>1, <1>2, SumFacts
<1>4. ASSUME NEW n \in T PROVE n + 1 \in T
  <2>1. ASSUME NEW s \in SUBSET S, Cardinality(s) = n + 1 PROVE g[s] = 0
    <3>1. n \in Nat /\ s # {}
      BY <1>2, <2>1
    <3>2. /\ Chosen(s) \in s /\ s \ {Chosen(s)} \in SUBSET S
          /\ Cardinality(s \ {Chosen(s)}) = n
      BY <2>1, <3>1, ChosenIsMember
    <3>3. g[s \ {Chosen(s)}] = 0 /\ f[Chosen(s)] = 0
      BY <3>2
    <3> QED BY <1>1, <3>1, <3>3, SumFacts
  <2> QED BY <2>1
<1>5. T = Nat
  <2> HIDE DEF T
  <2>1. T \in SUBSET Nat
    BY DEF T
  <2> QED BY <1>3, <1>4, <2>1, Induction
<1> QED BY <1>1, <1>2, <1>5

-----------------------------------------------------------------------------
(* Sequences without repetition.                                           *)
LEMMA TailRange ==
  ASSUME NEW S, NEW q \in Seq(S), q # <<>>, IsInjective(q)
  PROVE  /\ Tail(q) \in Seq(S) /\ Len(Tail(q)) = Len(q) - 1 /\ Len(q) \in Nat
         /\ Head(q) \in Range(q) /\ Head(q) \in S
         /\ Range(Tail(q)) = Range(q) \ {Head(q)}
         /\ IsInjective(Tail(q))
<1> DEFINE r == Tail(q)
<1>1. /\ r \in Seq(S) /\ Len(r) = Len(q) - 1 /\ Head(q) = q[1] /\ Head(q) \in S
      /\ \A i \in 1..Len(r) : r[i] = q[i + 1]
  BY HeadTailProperties
<1>2. Len(q) \in Nat \ {0} /\ DOMAIN q = 1..Len(q) /\ DOMAIN r = 1..Len(r)
  BY <1>1, LenProperties, EmptySeq
<1> HIDE DEF r
<1>3. 1 \in DOMAIN q
  BY <1>2
<1>4. \A i \in DOMAIN r : i + 1 \in DOMAIN q /\ i + 1 # 1 /\ i \in Nat
  BY <1>1, <1>2
<1>5. \A i \in DOMAIN q : i # 1 => i - 1 \in DOMAIN r /\ q[i] = r[i - 1]
  <2> TAKE i \in DOMAIN q
  <2> HAVE i # 1
  <2>1. i - 1 \in 1..Len(r) /\ (i - 1) + 1 = i
    BY <1>1, <1>2
  <2> QED BY <1>1, <1>2, <2>1
<1>6. Range(r) \subseteq Range(q) \ {Head(q)}
  <2> SUFFICES ASSUME NEW i \in DOMAIN r PROVE r[i] \in Range(q) \ {Head(q)}
    BY DEF Range
  <2>1. r[i] = q[i + 1] /\ i + 1 \in DOMAIN q /\ i + 1 # 1
    BY <1>1, <1>2, <1>4
  <2>2. q[i + 1] # q[1]
    BY <1>3, <2>1 DEF IsInjective
  <2> QED BY <1>1, <2>1, <2>2 DEF Range
<1>7. Range(q) \ {Head(q)} \subseteq Range(r)
  BY <1>1, <1>5 DEF Range
<1>8. IsInjective(r)
  <2> SUFFICES ASSUME NEW i \in DOMAIN r, NEW j \in DOMAIN r, r[i] = r[j] PROVE i = j
    BY DEF IsInjective
  <2>1. i + 1 \in DOMAIN q /\ j + 1 \in DOMAIN q /\ q[i + 1] = q[j + 1]
    BY <1>1, <1>2, <1>4
  <2>2. i + 1 = j + 1
    BY <2>1 DEF IsInjective
  <2> QED BY <1>4, <2>2
<1>9. Head(q) \in Range(q)
  BY <1>1, <1>3 DEF Range
<1> QED BY <1>1, <1>2, <1>6, <1>7, <1>8, <1>9 DEF r

LEMMA AppendRange ==
  ASSUME NEW S, NEW q \in Seq(S), NEW b \in S, IsInjective(q), b \notin Range(q)
  PROVE  /\ Append(q, b) \in Seq(S) /\ Len(Append(q, b)) = Len(q) + 1 /\ Len(q) \in Nat
         /\ Range(Append(q, b)) = Range(q) \cup {b}
         /\ IsInjective(Append(q, b))
<1> DEFINE r == Append(q, b)
<1>1. /\ r \in Seq(S) /\ Len(r) = Len(q) + 1 /\ r[Len(q) + 1] = b
      /\ \A i \in 1..Len(q) : r[i] = q[i]
  BY AppendProperties
<1>2. Len(q) \in Nat /\ DOMAIN q = 1..Len(q) /\ DOMAIN r = 1..Len(r)
  BY <1>1, LenProperties
<1> HIDE DEF r
<1>3. /\ \A i \in DOMAIN r : i = Len(q) + 1 \/ i \in DOMAIN q
      /\ Len(q) + 1 \in DOMAIN r /\ \A i \in DOMAIN q : i \in DOMAIN r /\ i # Len(q) + 1
  BY <1>1, <1>2
<1>4. Range(r) = Range(q) \cup {b}
  BY <1>1, <1>2, <1>3 DEF Range
<1>5. IsInjective(r)
  BY <1>1, <1>2, <1>3 DEF IsInjective, Range
<1> QED BY <1>1, <1>2, <1>4, <1>5 DEF r

LEMMA RangeSize ==
  ASSUME NEW S, NEW q \in Seq(S), IsInjective(q)
  PROVE  IsFiniteSet(Range(q)) /\ Cardinality(Range(q)) = Len(q) /\ Len(q) \in Nat
<1>1. Len(q) \in Nat /\ DOMAIN q = 1..Len(q) /\ q \in [1..Len(q) -> S]
  BY LenProperties
<1>2. q \in Bijection(1..Len(q), Range(q))
  <2>1. q \in [1..Len(q) -> Range(q)]
    BY <1>1 DEF Range
  <2>2. q \in Injection(1..Len(q), Range(q)) /\ q \in Surjection(1..Len(q), Range(q))
    BY <1>1, <2>1 DEF Injection, Surjection, IsInjective, Range
  <2> QED BY <2>2 DEF Bijection
<1>3. IsFiniteSet(1..Len(q)) /\ Cardinality(1..Len(q)) = Len(q)
  <2>1. 1 \in Int /\ Len(q) \in Int /\ (IF 1 > Len(q) THEN 0 ELSE Len(q) - 1 + 1) = Len(q)
    BY <1>1
  <2> QED BY <2>1, FS_Interval
<1> QED BY <1>1, <1>2, <1>3, FS_Bijection DEF ExistsBijection

-----------------------------------------------------------------------------
(***************************************************************************)
(* The account of the allocator.  A buffer is in one place: idle in one    *)
(* manager, in a frame of one manager, or with the one deleter that is     *)
(* about to give it back.                                                  *)
(***************************************************************************)
Kept(m) == live[m] \cup Range(idle[m])
Reclaiming(d) == pc[d] = "reclaim"

Apart ==
  /\ \A m \in Managers :
       /\ IsInjective(idle[m])
       /\ live[m] \cap Range(idle[m]) = {}
       /\ \A n \in Managers : m # n => Kept(m) \cap Kept(n) = {}
       /\ \A d \in Deleters : Reclaiming(d) => dying[d].buffer \notin Kept(m)
  /\ \A d, e \in Deleters :
       Reclaiming(d) /\ Reclaiming(e) /\ d # e => dying[d].buffer # dying[e].buffer

Finite ==
  /\ IsFiniteSet(Allocated)
  /\ live \in [Managers -> SUBSET Buffers] /\ \A m \in Managers : IsFiniteSet(live[m])
  /\ todo \in [Threads -> SUBSET Managers]

AccountInv == Finite /\ Apart /\ UsedIsAccounted

LEMMA AllocatedIs ==
  ASSUME NEW b
  PROVE  /\ b \in Allocated <=> \/ \E m \in Managers : b \in Kept(m)
                                \/ \E d \in Deleters : Reclaiming(d) /\ b = dying[d].buffer
         /\ b \in Allocated' <=> \/ \E m \in Managers : b \in Kept(m)'
                                 \/ \E d \in Deleters : Reclaiming(d)' /\ b = dying'[d].buffer
<1>1. b \in Allocated <=> \/ \E m \in Managers : b \in Kept(m)
                         \/ \E d \in Deleters : Reclaiming(d) /\ b = dying[d].buffer
  BY DEF Allocated, Kept, Reclaiming
<1>2. b \in Allocated' <=> \/ \E m \in Managers : b \in Kept(m)'
                          \/ \E d \in Deleters : Reclaiming(d)' /\ b = dying'[d].buffer
  BY DEF Allocated, Kept, Reclaiming
<1> QED BY <1>1, <1>2

(* The deleter that gives a buffer back holds the manager's mutex_, so     *)
(* that it is alone.                                                       *)
LEMMA GivingAlone ==
  ASSUME MemoryInv, NEW m \in Managers
  PROVE  /\ Giving(m) \subseteq {mutex[m]}
         /\ IsFiniteSet(Giving(m)) /\ Cardinality(Giving(m)) \in Nat
<1>1. Giving(m) \subseteq {mutex[m]}
  BY DEF Giving, MemoryInv, DeletersLock
<1>2. IsFiniteSet(Giving(m))
  BY <1>1, FS_Singleton, FS_Subset
<1> QED BY <1>1, <1>2, FS_CardinalityType

LEMMA HeldTypes ==
  ASSUME MemoryInv, Finite
  PROVE  /\ Held \in [Managers -> Int]
         /\ \A m \in Managers :
              /\ Len(idle[m]) \in Nat /\ Cardinality(live[m]) \in Nat
              /\ Cardinality(Giving(m)) \in Nat
              /\ Held[m] = Len(idle[m]) + Cardinality(live[m]) + Cardinality(Giving(m))
<1>1. ASSUME NEW m \in Managers
      PROVE  /\ Len(idle[m]) \in Nat /\ Cardinality(live[m]) \in Nat
             /\ Cardinality(Giving(m)) \in Nat
  <2>1. Len(idle[m]) \in Nat
    BY LenProperties DEF MemoryInv, Types
  <2>2. Cardinality(live[m]) \in Nat
    BY FS_CardinalityType DEF Finite
  <2> QED BY <2>1, <2>2, GivingAlone
<1> QED BY <1>1 DEF Held

LEMMA BytesSum ==
  ASSUME MemoryInv, Finite, NEW m \in Managers
  PROVE  Bytes \in [Managers -> Int] /\ SumFunction(Bytes) \in Int
<1>1. Held \in [Managers -> Int] /\ IsFiniteSet(Managers) /\ Size \in [Managers -> Nat]
  BY HeldTypes, MemoryAssumption
<1>2. \A x, y \in Int : x * y \in Int
  OBVIOUS
<1>3. Bytes \in [Managers -> Int]
  <2>1. \A n \in Managers : Size[n] \in Int /\ Held[n] \in Int
    BY <1>1
  <2>2. \A n \in Managers : Size[n] * Held[n] \in Int
    BY <1>2, <2>1
  <2> QED BY <2>2 DEF Bytes
<1> QED BY <1>1, <1>3, SumChanges

(* A step that gives a manager so many buffers more, or less, and says so  *)
(* to the allocator.                                                       *)
LEMMA AccountChanges ==
  ASSUME MemoryInv, AccountInv, NEW m \in Managers, NEW change \in Int,
         \A n \in Managers : Held'[n] = IF n = m THEN Held[n] + change ELSE Held[n],
         used' = used + Size[m] * change,
         Cardinality(Allocated') = Cardinality(Allocated) + change
  PROVE  UsedIsAccounted'
<1>1. Held \in [Managers -> Int] /\ IsFiniteSet(Managers) /\ Size \in [Managers -> Nat]
  BY HeldTypes, MemoryAssumption DEF AccountInv
<1>2. Held' \in [Managers -> Int]
  <2>1. Held' = [n \in Managers |-> Held'[n]]
    BY DEF Held
  <2>2. \A n \in Managers : Held'[n] \in Int
    BY <1>1
  <2> QED BY <2>1, <2>2
<1>3. SumFunction(Held') = SumFunction(Held) + change /\ SumFunction(Held) \in Int
  <2>1. \A n \in Managers \ {m} : Held'[n] = Held[n]
    OBVIOUS
  <2>2. Held'[m] - Held[m] = change
    BY <1>1
  <2>3. /\ SumFunction(Held) \in Int
        /\ SumFunction(Held') = SumFunction(Held) + (Held'[m] - Held[m])
    BY <1>1, <1>2, <2>1, SumChanges
  <2> QED BY <2>2, <2>3
<1>4. /\ \A n \in Managers : Bytes[n] = Size[n] * Held[n] /\ Bytes'[n] = Size[n] * Held'[n]
      /\ Bytes \in [Managers -> Int] /\ Bytes' \in [Managers -> Int]
  <2>1. \A n \in Managers : Size[n] * Held[n] \in Int /\ Size[n] * Held'[n] \in Int
    <3>1. \A n \in Managers : Size[n] \in Int /\ Held[n] \in Int /\ Held'[n] \in Int
      BY <1>1, <1>2
    <3>2. \A x, y \in Int : x * y \in Int
      OBVIOUS
    <3> QED BY <3>1, <3>2
  <2> QED BY <2>1 DEF Bytes
<1>5. SumFunction(Bytes') = SumFunction(Bytes) + Size[m] * change /\ SumFunction(Bytes) \in Int
  <2>1. \A n \in Managers \ {m} : Bytes'[n] = Bytes[n]
    BY <1>4
  <2>2. Bytes'[m] - Bytes[m] = Size[m] * change
    <3>1. \A s, x, y \in Int : s * (x + y) - s * x = s * y
      OBVIOUS
    <3>2. Size[m] \in Int /\ Held[m] \in Int /\ Held'[m] = Held[m] + change
      BY <1>1
    <3> QED BY <1>4, <3>1, <3>2
  <2>3. Bytes \in [Managers -> Int] /\ Bytes' \in [Managers -> Int] /\ IsFiniteSet(Managers)
    BY <1>1, <1>4
  <2>4. /\ SumFunction(Bytes) \in Int
        /\ SumFunction(Bytes') = SumFunction(Bytes) + (Bytes'[m] - Bytes[m])
    BY <2>1, <2>3, SumChanges
  <2> QED BY <2>2, <2>4
<1> QED BY <1>3, <1>5 DEF AccountInv, UsedIsAccounted

(* A step that moves no buffer and frees none.                             *)
LEMMA AccountStays ==
  ASSUME AccountInv, UNCHANGED <<used, idle, live>>, todo' \in [Threads -> SUBSET Managers],
         \A d \in Deleters : /\ Reclaiming(d)' <=> Reclaiming(d)
                             /\ Reclaiming(d) => dying'[d] = dying[d]
  PROVE  AccountInv'
<1>1. \A m \in Managers : Kept(m)' = Kept(m) /\ Giving(m)' = Giving(m)
  BY DEF Kept, Giving, Reclaiming
<1>2. Allocated' = Allocated
  <2>1. {dying'[d].buffer : d \in {e \in Deleters : pc'[e] = "reclaim"}}
          = {dying[d].buffer : d \in {e \in Deleters : pc[e] = "reclaim"}}
    BY DEF Reclaiming
  <2> QED BY <2>1 DEF Allocated
<1>3. Held' = Held /\ Bytes' = Bytes
  BY <1>1 DEF Held, Bytes
<1>4. UsedIsAccounted'
  BY <1>2, <1>3 DEF AccountInv, UsedIsAccounted
<1>5. Apart'
  BY <1>1 DEF AccountInv, Apart
<1>6. Finite'
  BY <1>2 DEF AccountInv, Finite
<1> QED BY <1>4, <1>5, <1>6 DEF AccountInv

(* allocate: a buffer malloc has given to nobody.                          *)
LEMMA AllocateKeepsAccount ==
  ASSUME MemoryInv, AccountInv, NEW p \in Producers, AllocateNew(p) \/ RetryAllocate(p)
  PROVE  AccountInv'
<1>0. PICK m \in Managers : m = ManagerOf[p]
  BY MemoryAssumption
<1>1. m \in Managers /\ p \in Threads /\ p \notin Deleters /\ Size[m] \in Nat
  BY MemoryAssumption DEF Threads
<1>2. PICK b \in Buffers \ Allocated :
        /\ live' = [live EXCEPT ![m] = @ \cup {b}]
        /\ used' = used + Size[m]
        /\ UNCHANGED <<idle, dying, todo>>
  BY <1>0 DEF AllocateNew, RetryAllocate, Allocate
<1>3. \A d \in Deleters : pc'[d] = pc[d]
  BY <1>1 DEF AllocateNew, RetryAllocate, Move, MemoryInv, Types, Threads
<1>4. Finite /\ Apart
  BY DEF AccountInv
<1>5. /\ live'[m] = live[m] \cup {b}
      /\ \A n \in Managers : n # m => live'[n] = live[n]
      /\ live' \in [Managers -> SUBSET Buffers]
  BY <1>1, <1>2, <1>4 DEF Finite
<1>6. \A n \in Managers : /\ Giving(n)' = Giving(n)
                          /\ Kept(n)' = IF n = m THEN Kept(n) \cup {b} ELSE Kept(n)
  BY <1>2, <1>3, <1>5 DEF Giving, Kept
<1>7. \A d \in Deleters : Reclaiming(d)' = Reclaiming(d) /\ dying'[d] = dying[d]
  BY <1>2, <1>3 DEF Reclaiming
<1>8. /\ \A n \in Managers : b \notin Kept(n)
      /\ \A d \in Deleters : Reclaiming(d) => b # dying[d].buffer
  BY <1>2, AllocatedIs
<1>9. Allocated' = Allocated \cup {b}
  <2>1. \A x : x \in Allocated' <=> x \in Allocated \/ x = b
    BY <1>1, <1>6, <1>7, AllocatedIs
  <2> QED BY <2>1
<1>10. /\ IsFiniteSet(Allocated') /\ Cardinality(Allocated') = Cardinality(Allocated) + 1
       /\ IsFiniteSet(live'[m]) /\ Cardinality(live'[m]) = Cardinality(live[m]) + 1
  <2>1. b \notin live[m] /\ IsFiniteSet(live[m]) /\ IsFiniteSet(Allocated) /\ b \notin Allocated
    BY <1>1, <1>4, <1>8 DEF Finite, Kept
  <2>2. IsFiniteSet(Allocated') /\ Cardinality(Allocated') = Cardinality(Allocated) + 1
    BY <1>9, <2>1, FS_AddElement
  <2>3. live'[m] = live[m] \cup {b}
    BY <1>5
  <2>4. IsFiniteSet(live'[m]) /\ Cardinality(live'[m]) = Cardinality(live[m]) + 1
    BY <2>1, <2>3, FS_AddElement
  <2> QED BY <2>2, <2>4
<1>11. Finite'
  BY <1>2, <1>4, <1>5, <1>10 DEF Finite
<1>12. Apart'
  <2>1. \A n \in Managers : live'[n] \cap Range(idle'[n]) = {}
    BY <1>2, <1>4, <1>5, <1>8 DEF Apart, Kept
  <2>2. \A n, k \in Managers : n # k => Kept(n)' \cap Kept(k)' = {}
    BY <1>4, <1>6, <1>8 DEF Apart
  <2>3. \A n \in Managers, d \in Deleters : Reclaiming(d)' => dying'[d].buffer \notin Kept(n)'
    BY <1>4, <1>6, <1>7, <1>8 DEF Apart
  <2> QED BY <1>2, <1>4, <1>7, <2>1, <2>2, <2>3 DEF Apart
<1>13. UsedIsAccounted'
  <2>1. \A n \in Managers : Held'[n] = IF n = m THEN Held[n] + 1 ELSE Held[n]
    <3>1. \A n \in Managers :
              Held'[n] = Len(idle[n]) + Cardinality(live'[n]) + Cardinality(Giving(n))
      BY <1>2, <1>6 DEF Held
    <3>2. /\ \A n \in Managers \ {m} : live'[n] = live[n]
          /\ Cardinality(live'[m]) = Cardinality(live[m]) + 1
      BY <1>5, <1>10
    <3>3. \A n \in Managers :
            /\ Len(idle[n]) \in Nat /\ Cardinality(live[n]) \in Nat
            /\ Cardinality(Giving(n)) \in Nat
            /\ Held[n] = Len(idle[n]) + Cardinality(live[n]) + Cardinality(Giving(n))
      BY <1>4, HeldTypes
    <3>4. Held'[m] = Held[m] + 1
      <4>1. /\ Held'[m] = Len(idle[m]) + Cardinality(live'[m]) + Cardinality(Giving(m))
            /\ Len(idle[m]) \in Nat /\ Cardinality(live[m]) \in Nat
            /\ Cardinality(Giving(m)) \in Nat
            /\ Held[m] = Len(idle[m]) + Cardinality(live[m]) + Cardinality(Giving(m))
        BY <1>1, <3>1, <3>3
      <4> QED BY <3>2, <4>1, SMTT(30)
    <3>5. ASSUME NEW n \in Managers, n # m PROVE Held'[n] = Held[n]
      BY <3>1, <3>2, <3>3, <3>5
    <3> QED BY <3>4, <3>5
  <2>2. used' = used + Size[m] * 1
    BY <1>1, <1>2
  <2> QED BY <1>1, <1>10, <2>1, <2>2, AccountChanges
<1> QED BY <1>11, <1>12, <1>13 DEF AccountInv

(* acquireBuffer with an idle buffer.                                      *)
LEMMA TakeIdleKeepsAccount ==
  ASSUME MemoryInv, AccountInv, NEW p \in Producers, TakeIdle(p)
  PROVE  AccountInv'
<1>0. PICK m \in Managers : m = ManagerOf[p]
  BY MemoryAssumption
<1>b. PICK b : b = Head(idle[m])
  OBVIOUS
<1>1. m \in Managers /\ p \in Threads /\ p \notin Deleters
  BY MemoryAssumption DEF Threads
<1>2. /\ idle[m] # <<>> /\ UNCHANGED <<used, dying, todo>>
      /\ idle' = [idle EXCEPT ![m] = Tail(@)]
      /\ live' = [live EXCEPT ![m] = @ \cup {b}]
  BY <1>0, <1>b DEF TakeIdle
<1>3. \A d \in Deleters : pc'[d] = pc[d]
  BY <1>1 DEF TakeIdle, Move, MemoryInv, Types, Threads
<1>4. Finite /\ Apart
  BY DEF AccountInv
<1>5. idle \in [Managers -> Seq(Buffers)] /\ live \in [Managers -> SUBSET Buffers]
  BY <1>4 DEF MemoryInv, Types, Finite
<1>6. /\ Len(Tail(idle[m])) = Len(idle[m]) - 1 /\ b \in Range(idle[m]) /\ b \in Buffers
      /\ Range(Tail(idle[m])) = Range(idle[m]) \ {b} /\ IsInjective(Tail(idle[m]))
  BY <1>1, <1>2, <1>4, <1>5, <1>b, TailRange DEF Apart
<1>7. /\ idle'[m] = Tail(idle[m]) /\ live'[m] = live[m] \cup {b}
      /\ \A n \in Managers : n # m => idle'[n] = idle[n] /\ live'[n] = live[n]
      /\ live' \in [Managers -> SUBSET Buffers]
  BY <1>1, <1>2, <1>5, <1>6
<1>8. \A n \in Managers : Giving(n)' = Giving(n) /\ Kept(n)' = Kept(n)
  BY <1>2, <1>3, <1>6, <1>7 DEF Giving, Kept
<1>9. \A d \in Deleters : Reclaiming(d)' = Reclaiming(d) /\ dying'[d] = dying[d]
  BY <1>2, <1>3 DEF Reclaiming
<1>10. Allocated' = Allocated
  <2>1. \A x : x \in Allocated' <=> x \in Allocated
    BY <1>8, <1>9, AllocatedIs
  <2> QED BY <2>1
<1>11. IsFiniteSet(live'[m]) /\ Cardinality(live'[m]) = Cardinality(live[m]) + 1
  <2>1. b \notin live[m] /\ IsFiniteSet(live[m])
    BY <1>1, <1>4, <1>6 DEF Finite, Apart
  <2>2. live'[m] = live[m] \cup {b}
    BY <1>7
  <2> QED BY <2>1, <2>2, FS_AddElement
<1>12. Finite'
  BY <1>2, <1>4, <1>7, <1>10, <1>11 DEF Finite
<1>13. Apart'
  <2>1. \A n \in Managers : live'[n] \cap Range(idle'[n]) = {} /\ IsInjective(idle'[n])
    BY <1>4, <1>6, <1>7 DEF Apart
  <2> QED BY <1>4, <1>8, <1>9, <2>1 DEF Apart
<1>14. UsedIsAccounted'
  <2>1. \A n \in Managers : Held'[n] = Held[n]
    <3>1. \A n \in Managers :
              Held'[n] = Len(idle'[n]) + Cardinality(live'[n]) + Cardinality(Giving(n))
      BY <1>8 DEF Held
    <3>2. \A n \in Managers \ {m} : live'[n] = live[n] /\ idle'[n] = idle[n]
      BY <1>7
    <3>3. Len(idle'[m]) = Len(idle[m]) - 1 /\ Cardinality(live'[m]) = Cardinality(live[m]) + 1
      BY <1>6, <1>7, <1>11
    <3>4. \A n \in Managers :
            /\ Len(idle[n]) \in Nat /\ Cardinality(live[n]) \in Nat
            /\ Cardinality(Giving(n)) \in Nat
            /\ Held[n] = Len(idle[n]) + Cardinality(live[n]) + Cardinality(Giving(n))
      BY <1>4, HeldTypes
    <3>5. Held'[m] = Held[m]
      <4>1. /\ Held'[m] = Len(idle'[m]) + Cardinality(live'[m]) + Cardinality(Giving(m))
            /\ Len(idle[m]) \in Nat /\ Cardinality(live[m]) \in Nat
            /\ Cardinality(Giving(m)) \in Nat
            /\ Held[m] = Len(idle[m]) + Cardinality(live[m]) + Cardinality(Giving(m))
        BY <1>1, <3>1, <3>4
      <4>2. \A i, c, g \in Nat : (i - 1) + (c + 1) + g = i + c + g
        OBVIOUS
      <4>3. Held'[m] = (Len(idle[m]) - 1) + (Cardinality(live[m]) + 1) + Cardinality(Giving(m))
        BY <3>3, <4>1
      <4> QED BY <4>1, <4>2, <4>3
    <3>6. ASSUME NEW n \in Managers, n # m PROVE Held'[n] = Held[n]
      BY <3>1, <3>2, <3>4, <3>6
    <3> QED BY <3>5, <3>6
  <2>2. Held' = Held
    BY <2>1 DEF Held
  <2> QED BY <1>2, <1>10, <2>2 DEF UsedIsAccounted, AccountInv, Bytes
<1> QED BY <1>12, <1>13, <1>14 DEF AccountInv


(* The destructor gives the buffer of the frame back: it is with the       *)
(* deleter, and in no frame.                                               *)
LEMMA DeleteKeepsAccount ==
  ASSUME MemoryInv, AccountInv, NEW d \in Deleters, NEW m \in Managers, NEW b \in Buffers,
         Delete(d, m, b)
  PROVE  AccountInv'
<1>1. /\ pc[d] = "idle" /\ b \in live[m] /\ mutex[m] = Nobody /\ d # Nobody
      /\ Nobody \notin Deleters
      /\ UNCHANGED <<used, idle, todo>>
      /\ live' = [live EXCEPT ![m] = @ \ {b}]
      /\ dying' = [dying EXCEPT ![d] = [manager |-> m, buffer |-> b]]
      /\ pc' = [pc EXCEPT ![d] = "reclaim"]
  BY MemoryAssumption DEF Delete, Lock, Move
<1>2. Finite /\ Apart
  BY DEF AccountInv
<1>3. /\ \A n \in Managers : live'[n] = IF n = m THEN live[n] \ {b} ELSE live[n]
      /\ live' \in [Managers -> SUBSET Buffers]
  BY <1>1, <1>2 DEF Finite
<1>4. /\ \A e \in Deleters : e # d => pc'[e] = pc[e] /\ dying'[e] = dying[e]
      /\ pc'[d] = "reclaim" /\ dying'[d].manager = m /\ dying'[d].buffer = b
  BY <1>1 DEF MemoryInv, Types, Threads
<1>5. /\ \A e \in Deleters : e # d => Reclaiming(e)' = Reclaiming(e) /\ dying'[e] = dying[e]
      /\ ~Reclaiming(d) /\ Reclaiming(d)' /\ dying'[d].buffer = b
  BY <1>1, <1>4 DEF Reclaiming
<1>6. b \in Kept(m) /\ b \notin Range(idle[m])
  BY <1>1, <1>2 DEF Kept, Apart
<1>7. \A n \in Managers : Kept(n)' = IF n = m THEN Kept(n) \ {b} ELSE Kept(n)
  BY <1>1, <1>3, <1>6 DEF Kept
<1>8. Allocated' = Allocated
  <2>1. \A x : x \in Allocated' <=> x \in Allocated
    BY <1>5, <1>6, <1>7, AllocatedIs
  <2> QED BY <2>1
<1>9. IsFiniteSet(live'[m]) /\ Cardinality(live'[m]) = Cardinality(live[m]) - 1
  <2>1. IsFiniteSet(live[m]) /\ live'[m] = live[m] \ {b}
    BY <1>2, <1>3 DEF Finite
  <2> QED BY <1>1, <2>1, FS_RemoveElement
<1>10. Finite'
  BY <1>1, <1>2, <1>3, <1>8, <1>9 DEF Finite
<1>11. \A e \in Deleters : Reclaiming(e) => dying[e].buffer # b
  BY <1>2, <1>6 DEF Apart
<1>12. Apart'
  <2>1. \A n \in Managers : live'[n] \cap Range(idle'[n]) = {} /\ IsInjective(idle'[n])
    BY <1>1, <1>2, <1>3 DEF Apart
  <2>2. \A n, k \in Managers : n # k => Kept(n)' \cap Kept(k)' = {}
    BY <1>2, <1>7 DEF Apart
  <2>3. \A n \in Managers : b \notin Kept(n)'
    BY <1>2, <1>6, <1>7 DEF Apart
  <2>4. ASSUME NEW n \in Managers, NEW e \in Deleters, Reclaiming(e)'
        PROVE dying'[e].buffer \notin Kept(n)'
    <3>1. CASE e = d
      BY <1>5, <2>3, <3>1
    <3>2. CASE e # d
      BY <1>2, <1>5, <1>7, <2>4, <3>2 DEF Apart
    <3> QED BY <3>1, <3>2
  <2>5. \A e, g \in Deleters :
          Reclaiming(e)' /\ Reclaiming(g)' /\ e # g => dying'[e].buffer # dying'[g].buffer
    BY <1>2, <1>5, <1>11 DEF Apart
  <2> QED BY <2>1, <2>2, <2>4, <2>5 DEF Apart
<1>13. Cardinality(Giving(m)) = 0 /\ Cardinality(Giving(m)') = 1
  <2>1. Giving(m) = {}
    BY <1>1, GivingAlone DEF Giving
  <2>2. Giving(m)' = Giving(m) \cup {d}
    BY <1>1, <1>4 DEF Giving
  <2>3. Giving(m)' = {d}
    BY <2>1, <2>2
  <2> QED BY <2>1, <2>3, FS_EmptySet, FS_Singleton
<1>14. \A n \in Managers : n # m => Giving(n)' = Giving(n)
  BY <1>1, <1>4 DEF Giving
<1>15. UsedIsAccounted'
  <2>1. \A n \in Managers :
          /\ Held'[n] = Len(idle[n]) + Cardinality(live'[n]) + Cardinality(Giving(n)')
          /\ Len(idle[n]) \in Nat /\ Cardinality(live[n]) \in Nat /\ Cardinality(Giving(n)) \in Nat
          /\ Held[n] = Len(idle[n]) + Cardinality(live[n]) + Cardinality(Giving(n))
    BY <1>1, <1>2, HeldTypes DEF Held
  <2>2. ASSUME NEW n \in Managers PROVE Held'[n] = Held[n]
    <3>1. CASE n = m
      BY <1>9, <1>13, <2>1, <3>1
    <3>2. CASE n # m
      BY <1>3, <1>14, <2>1, <3>2
    <3> QED BY <3>1, <3>2
  <2>3. Held' = Held
    BY <2>2 DEF Held
  <2> QED BY <1>1, <1>8, <2>3 DEF UsedIsAccounted, AccountInv, Bytes
<1> QED BY <1>10, <1>12, <1>15 DEF AccountInv

(* reclaimBuffer: the buffer is idle now; with too many of them, the       *)
(* oldest is free and counted out.                                         *)
LEMMA ReclaimKeepsAccount ==
  ASSUME MemoryInv, AccountInv, NEW d \in Deleters, ReclaimBuffer(d)
  PROVE  AccountInv'
<1>m. PICK m, b : m = dying[d].manager /\ b = dying[d].buffer
  OBVIOUS
<1>q. PICK q : q = Append(idle[m], b)
  OBVIOUS
<1>o. PICK o, over : o = Head(q) /\ over = (Len(q) > MaxIdle)
  OBVIOUS
<1>1. /\ pc[d] = "reclaim" /\ pc' = [pc EXCEPT ![d] = "destroy"]
      /\ UNCHANGED <<live, dying, todo>>
      /\ over => used' = used - Size[m] /\ idle' = [idle EXCEPT ![m] = Tail(q)]
      /\ ~over => used' = used /\ idle' = [idle EXCEPT ![m] = q]
  BY <1>m, <1>q, <1>o DEF ReclaimBuffer, Move
<1>2. Finite /\ Apart
  BY DEF AccountInv
<1>3. m \in Managers /\ b \in Buffers /\ mutex[m] = d
  BY <1>1, <1>m DEF MemoryInv, DeletersLock
<1>4. idle \in [Managers -> Seq(Buffers)] /\ Reclaiming(d) /\ Size[m] \in Nat
  BY <1>1, <1>3, MemoryAssumption DEF Reclaiming, MemoryInv, Types
<1>5. b \notin Range(idle[m]) /\ b \notin live[m] /\ IsInjective(idle[m])
      /\ \A n \in Managers : b \notin Kept(n)
  BY <1>2, <1>3, <1>4, <1>m DEF Apart, Kept
<1>6. /\ q \in Seq(Buffers) /\ Len(q) = Len(idle[m]) + 1 /\ Len(idle[m]) \in Nat
      /\ Range(q) = Range(idle[m]) \cup {b} /\ IsInjective(q)
  BY <1>3, <1>4, <1>5, <1>q, AppendRange
<1>7. q # <<>>
  BY <1>6, EmptySeq
<1>8. /\ Tail(q) \in Seq(Buffers) /\ Len(Tail(q)) = Len(q) - 1
      /\ o \in Range(q) /\ Range(Tail(q)) = Range(q) \ {o} /\ IsInjective(Tail(q))
  BY <1>6, <1>7, <1>o, TailRange
<1>9. /\ \A e \in Deleters : e # d => pc'[e] = pc[e]
      /\ pc'[d] = "destroy" /\ \A e \in Deleters : dying'[e] = dying[e]
  BY <1>1 DEF MemoryInv, Types, Threads
<1>10. /\ \A e \in Deleters : e # d => Reclaiming(e)' = Reclaiming(e) /\ dying'[e] = dying[e]
       /\ ~Reclaiming(d)'
  BY <1>9 DEF Reclaiming
<1>11. Cardinality(Giving(m)) = 1 /\ Cardinality(Giving(m)') = 0
  <2>1. Giving(m) = {d}
    BY <1>1, <1>3, <1>m, GivingAlone DEF Giving
  <2>2. Giving(m)' = {}
    BY <1>9, <2>1 DEF Giving
  <2> QED BY <2>1, <2>2, FS_EmptySet, FS_Singleton
<1>12. \A n \in Managers : n # m => Giving(n)' = Giving(n)
  BY <1>9, <1>m DEF Giving
<1>13. /\ \A n \in Managers : live'[n] = live[n] /\ (n # m => idle'[n] = idle[n])
       /\ idle'[m] = IF over THEN Tail(q) ELSE q
  BY <1>1, <1>3, <1>4
<1>14. \A n \in Managers : n # m => Kept(n)' = Kept(n)
  BY <1>13 DEF Kept
<1>15. /\ Kept(m)' = IF over THEN (Kept(m) \cup {b}) \ {o} ELSE Kept(m) \cup {b}
       /\ IsInjective(idle'[m]) /\ live'[m] \cap Range(idle'[m]) = {}
       /\ o \in Range(idle[m]) \cup {b} /\ o \notin live[m]
  <2>1. live'[m] = live[m] /\ live[m] \cap Range(idle[m]) = {}
    BY <1>2, <1>3, <1>13 DEF Apart
  <2>2. Range(idle'[m]) = IF over THEN (Range(idle[m]) \cup {b}) \ {o} ELSE Range(idle[m]) \cup {b}
    BY <1>6, <1>8, <1>13
  <2>3. o \in Range(idle[m]) \cup {b}
    BY <1>6, <1>8
  <2>4. o \notin live[m]
    BY <1>5, <2>1, <2>3
  <2>5. live'[m] \cap Range(idle'[m]) = {}
    BY <1>5, <2>1, <2>2
  <2>6. IsInjective(idle'[m])
    BY <1>6, <1>8, <1>13
  <2>7. Kept(m)' = IF over THEN (Kept(m) \cup {b}) \ {o} ELSE Kept(m) \cup {b}
    <3>1. Kept(m)' = live[m] \cup Range(idle'[m]) /\ Kept(m) = live[m] \cup Range(idle[m])
      BY <2>1 DEF Kept
    <3> QED BY <2>2, <2>4, <3>1
  <2> QED BY <2>3, <2>4, <2>5, <2>6, <2>7
<1>16. /\ \A n \in Managers : n # m => o \notin Kept(n) /\ b \notin Kept(n)
       /\ \A e \in Deleters : Reclaiming(e) /\ e # d => dying[e].buffer \notin {o, b}
       /\ o \in Kept(m) \cup {b}
  <2>1. o \in Kept(m) \cup {b}
    BY <1>15 DEF Kept
  <2>2. \A n \in Managers : n # m => Kept(n) \cap Kept(m) = {}
    BY <1>2, <1>3 DEF Apart
  <2>3. ASSUME NEW e \in Deleters, Reclaiming(e), e # d
        PROVE  dying[e].buffer \notin Kept(m) /\ dying[e].buffer # b
    BY <1>2, <1>3, <1>4, <1>m, <2>3 DEF Apart
  <2> QED BY <1>5, <2>1, <2>2, <2>3
<1>17. Allocated' = IF over THEN Allocated \ {o} ELSE Allocated
  <2>1. \A x : x \in Allocated <=>
          \/ \E n \in Managers \ {m} : x \in Kept(n)
          \/ x \in Kept(m) \/ x = b
          \/ \E e \in Deleters \ {d} : Reclaiming(e) /\ x = dying[e].buffer
    BY <1>3, <1>4, <1>m, AllocatedIs
  <2>2. \A x : x \in Allocated' <=>
          \/ \E n \in Managers \ {m} : x \in Kept(n)
          \/ x \in Kept(m)'
          \/ \E e \in Deleters \ {d} : Reclaiming(e) /\ x = dying[e].buffer
    <3>1. \A x : x \in Allocated' <=> \/ \E n \in Managers : x \in Kept(n)'
                                    \/ \E e \in Deleters : Reclaiming(e)' /\ x = dying'[e].buffer
      BY AllocatedIs
    <3>2. \A x : (\E n \in Managers : x \in Kept(n)') <=> \/ \E n \in Managers \ {m} : x \in Kept(n)
                                                         \/ x \in Kept(m)'
      BY <1>3, <1>14
    <3>3. \A x : (\E e \in Deleters : Reclaiming(e)' /\ x = dying'[e].buffer)
                  <=> \E e \in Deleters \ {d} : Reclaiming(e) /\ x = dying[e].buffer
      BY <1>10
    <3> QED BY <3>1, <3>2, <3>3
  <2>3. CASE over
    <3>1. \A x : x \in Allocated' <=> x \in Allocated \ {o}
      BY <1>15, <1>16, <2>1, <2>2, <2>3
    <3> QED BY <2>3, <3>1
  <2>4. CASE ~over
    <3>1. \A x : x \in Allocated' <=> x \in Allocated
      BY <1>15, <2>1, <2>2, <2>4
    <3> QED BY <2>4, <3>1
  <2> QED BY <2>3, <2>4
<1>18. o \in Allocated /\ IsFiniteSet(Allocated)
  <2>1. o \in Kept(m) \/ o = b
    BY <1>16
  <2> QED BY <1>2, <1>3, <1>4, <2>1, <1>m, AllocatedIs DEF Finite
<1>19. /\ IsFiniteSet(Allocated')
       /\ over => Cardinality(Allocated') = Cardinality(Allocated) - 1
       /\ ~over => Cardinality(Allocated') = Cardinality(Allocated)
  BY <1>17, <1>18, FS_RemoveElement
<1>20. Finite'
  BY <1>1, <1>2, <1>19 DEF Finite
<1>21. Apart'
  <2>1. \A n \in Managers : live'[n] \cap Range(idle'[n]) = {} /\ IsInjective(idle'[n])
    BY <1>2, <1>13, <1>15 DEF Apart
  <2>2. Kept(m)' \subseteq Kept(m) \cup {b}
    BY <1>15
  <2>3. ASSUME NEW n \in Managers, NEW k \in Managers, n # k PROVE Kept(n)' \cap Kept(k)' = {}
    <3>1. Kept(n) \cap Kept(k) = {}
      BY <1>2, <2>3 DEF Apart
    <3>2. CASE n # m /\ k # m
      BY <1>14, <3>1, <3>2
    <3>3. CASE n = m
      BY <1>14, <1>16, <2>2, <2>3, <3>1, <3>3
    <3>4. CASE k = m
      BY <1>14, <1>16, <2>2, <2>3, <3>1, <3>4
    <3> QED BY <3>2, <3>3, <3>4
  <2>4. ASSUME NEW n \in Managers, NEW e \in Deleters, Reclaiming(e)'
        PROVE dying'[e].buffer \notin Kept(n)'
    <3>1. e # d /\ Reclaiming(e) /\ dying'[e] = dying[e]
      BY <1>10, <2>4
    <3>2. dying[e].buffer \notin Kept(n) /\ dying[e].buffer # b
      BY <1>2, <1>16, <3>1 DEF Apart
    <3>3. Kept(n)' \subseteq Kept(n) \cup {b}
      BY <1>14, <2>2
    <3> QED BY <3>1, <3>2, <3>3
  <2>5. \A e, g \in Deleters :
          Reclaiming(e)' /\ Reclaiming(g)' /\ e # g => dying'[e].buffer # dying'[g].buffer
    BY <1>2, <1>10 DEF Apart
  <2> QED BY <2>1, <2>3, <2>4, <2>5 DEF Apart
<1>22. /\ \A n \in Managers :
            /\ Held'[n] = Len(idle'[n]) + Cardinality(live'[n]) + Cardinality(Giving(n)')
            /\ Len(idle[n]) \in Nat /\ Cardinality(live[n]) \in Nat
            /\ Cardinality(Giving(n)) \in Nat
            /\ Held[n] = Len(idle[n]) + Cardinality(live[n]) + Cardinality(Giving(n))
       /\ \A n \in Managers : n # m => Held'[n] = Held[n]
       /\ Held \in [Managers -> Int]
  <2>1. /\ \A n \in Managers :
            /\ Held'[n] = Len(idle'[n]) + Cardinality(live'[n]) + Cardinality(Giving(n)')
            /\ Len(idle[n]) \in Nat /\ Cardinality(live[n]) \in Nat
            /\ Cardinality(Giving(n)) \in Nat
            /\ Held[n] = Len(idle[n]) + Cardinality(live[n]) + Cardinality(Giving(n))
        /\ Held \in [Managers -> Int]
    BY <1>2, HeldTypes DEF Held
  <2> QED BY <1>12, <1>13, <2>1
<1>23. UsedIsAccounted'
  <2>1. CASE over
    <3>1. Held'[m] = Held[m] + (-1)
      <4>1. Len(idle'[m]) = Len(idle[m])
        BY <1>6, <1>8, <1>13, <2>1
      <4>2. /\ Held'[m] = Len(idle'[m]) + Cardinality(live'[m]) + Cardinality(Giving(m)')
            /\ Len(idle[m]) \in Nat /\ Cardinality(live[m]) \in Nat
            /\ Held[m] = Len(idle[m]) + Cardinality(live[m]) + Cardinality(Giving(m))
            /\ live'[m] = live[m]
        BY <1>3, <1>13, <1>22
      <4> QED BY <1>11, <4>1, <4>2
    <3>2. \A n \in Managers : Held'[n] = IF n = m THEN Held[n] + (-1) ELSE Held[n]
      BY <1>22, <3>1
    <3>3. used' = used + Size[m] * (-1)
      <4>1. used' = used - Size[m] /\ used \in Int
        <5>1. used = SumFunction(Bytes) /\ SumFunction(Bytes) \in Int
          BY <1>2, <1>3, BytesSum DEF AccountInv, UsedIsAccounted
        <5> QED BY <1>1, <2>1, <5>1
      <4> QED BY <1>4, <4>1
    <3>4. Cardinality(Allocated') = Cardinality(Allocated) + (-1)
      BY <1>18, <1>19, <2>1, FS_CardinalityType
    <3> QED BY <1>3, <3>2, <3>3, <3>4, AccountChanges
  <2>2. CASE ~over
    <3>1. Held'[m] = Held[m]
      <4>1. Len(idle'[m]) = Len(idle[m]) + 1
        BY <1>6, <1>13, <2>2
      <4>2. /\ Held'[m] = Len(idle'[m]) + Cardinality(live'[m]) + Cardinality(Giving(m)')
            /\ Len(idle[m]) \in Nat /\ Cardinality(live[m]) \in Nat
            /\ Held[m] = Len(idle[m]) + Cardinality(live[m]) + Cardinality(Giving(m))
            /\ live'[m] = live[m]
        BY <1>3, <1>13, <1>22
      <4> QED BY <1>11, <4>1, <4>2
    <3>2. Held' = Held
      <4>1. \A n \in Managers : Held'[n] = Held[n]
        BY <1>22, <3>1
      <4> QED BY <4>1 DEF Held
    <3> QED BY <1>1, <1>19, <2>2, <3>2 DEF UsedIsAccounted, AccountInv, Bytes
  <2> QED BY <2>1, <2>2
<1> QED BY <1>20, <1>21, <1>23 DEF AccountInv

(* releaseIdleBuffer: the idle buffers of a manager are free, and counted  *)
(* out together.                                                           *)
LEMMA ReleaseIdleKeepsAccount ==
  ASSUME MemoryInv, AccountInv, NEW t \in Threads, ReleaseIdleBuffer(t)
  PROVE  AccountInv'
<1>m. PICK m, q : m = Min(todo[t]) /\ q = idle[m]
  OBVIOUS
<1>1. /\ todo[t] # {} /\ UNCHANGED <<live, dying, pc>>
      /\ used' = used - Size[m] * Len(q)
      /\ idle' = [idle EXCEPT ![m] = <<>>]
      /\ todo' = [todo EXCEPT ![t] = @ \ {m}]
  BY <1>m DEF ReleaseIdleBuffer
<1>2. Finite /\ Apart
  BY DEF AccountInv
<1>3. m \in Managers /\ todo' \in [Threads -> SUBSET Managers]
  <2>1. todo[t] \in SUBSET Managers
    BY <1>2 DEF Finite
  <2>2. m \in todo[t]
    BY <1>1, <1>m, <2>1, MinIsMember, MemoryAssumption
  <2> QED BY <1>1, <1>2, <2>1, <2>2 DEF Finite
<1>4. idle \in [Managers -> Seq(Buffers)] /\ Size[m] \in Nat
  BY <1>3, MemoryAssumption DEF MemoryInv, Types
<1>5. /\ q \in Seq(Buffers) /\ Len(q) \in Nat
      /\ IsFiniteSet(Range(q)) /\ Cardinality(Range(q)) = Len(q)
  BY <1>2, <1>3, <1>4, <1>m, RangeSize DEF Apart
<1>6. /\ \A n \in Managers : n # m => idle'[n] = idle[n]
      /\ idle'[m] = <<>>
  BY <1>1, <1>3, <1>4
<1>7. Range(idle'[m]) = {} /\ IsInjective(idle'[m]) /\ Len(idle'[m]) = 0
  BY <1>6 DEF Range, IsInjective
<1>8. /\ \A n \in Managers : n # m => Kept(n)' = Kept(n)
      /\ Kept(m)' = Kept(m) \ Range(q) /\ Range(q) \subseteq Kept(m)
  <2>1. live[m] \cap Range(q) = {}
    BY <1>2, <1>3, <1>m DEF Apart
  <2>2. \A n \in Managers : n # m => Kept(n)' = Kept(n)
    BY <1>1, <1>6 DEF Kept
  <2>3. Kept(m)' = live[m] /\ Kept(m) = live[m] \cup Range(q)
    BY <1>1, <1>7, <1>m DEF Kept
  <2> QED BY <2>1, <2>2, <2>3
<1>9. \A d \in Deleters : Reclaiming(d)' = Reclaiming(d) /\ dying'[d] = dying[d]
  BY <1>1 DEF Reclaiming
<1>10. \A n \in Managers : Giving(n)' = Giving(n)
  BY <1>1 DEF Giving
<1>11. /\ \A n \in Managers : n # m => Kept(n) \cap Range(q) = {}
       /\ \A d \in Deleters : Reclaiming(d) => dying[d].buffer \notin Range(q)
  <2>1. \A n \in Managers : n # m => Kept(n) \cap Kept(m) = {}
    BY <1>2, <1>3 DEF Apart
  <2>2. \A d \in Deleters : Reclaiming(d) => dying[d].buffer \notin Kept(m)
    BY <1>2, <1>3 DEF Apart
  <2> QED BY <1>8, <2>1, <2>2
<1>12. Allocated' = Allocated \ Range(q) /\ Range(q) \subseteq Allocated
  <2>1. \A x : x \in Allocated' <=> x \in Allocated \ Range(q)
    <3>1. \A x : (\E n \in Managers : x \in Kept(n)')
                  <=> x \notin Range(q) /\ \E n \in Managers : x \in Kept(n)
      BY <1>3, <1>8, <1>11
    <3>2. \A x : (\E e \in Deleters : Reclaiming(e)' /\ x = dying'[e].buffer)
                  <=> x \notin Range(q) /\ \E e \in Deleters : Reclaiming(e) /\ x = dying[e].buffer
      BY <1>9, <1>11
    <3> QED BY <3>1, <3>2, AllocatedIs
  <2>2. \A x \in Range(q) : x \in Allocated
    BY <1>3, <1>8, AllocatedIs
  <2> QED BY <2>1, <2>2
<1>13. IsFiniteSet(Allocated') /\ Cardinality(Allocated') = Cardinality(Allocated) + (- Len(q))
  <2>1. IsFiniteSet(Allocated)
    BY <1>2 DEF Finite
  <2>2. Allocated \cap Range(q) = Range(q)
    BY <1>12
  <2>3. /\ IsFiniteSet(Allocated \ Range(q))
        /\ Cardinality(Allocated \ Range(q)) = Cardinality(Allocated) - Cardinality(Range(q))
    <3>1. /\ IsFiniteSet(Allocated \ Range(q))
          /\ Cardinality(Allocated \ Range(q))
               = Cardinality(Allocated) - Cardinality(Allocated \cap Range(q))
      BY <2>1, FS_Difference
    <3> QED BY <2>2, <3>1
  <2>4. Cardinality(Allocated) \in Nat
    BY <2>1, FS_CardinalityType
  <2> QED BY <1>5, <1>12, <2>3, <2>4
<1>14. Finite'
  BY <1>1, <1>2, <1>3, <1>13 DEF Finite
<1>15. Apart'
  <2>1. \A n \in Managers : live'[n] \cap Range(idle'[n]) = {} /\ IsInjective(idle'[n])
    BY <1>1, <1>2, <1>6, <1>7 DEF Apart
  <2>2. \A n \in Managers : Kept(n)' \subseteq Kept(n)
    <3> SUFFICES ASSUME NEW n \in Managers PROVE Kept(n)' \subseteq Kept(n)
      OBVIOUS
    <3>1. CASE n = m
      BY <1>8, <3>1
    <3>2. CASE n # m
      BY <1>8, <3>2
    <3> QED BY <3>1, <3>2
  <2>3. \A n, k \in Managers : n # k => Kept(n)' \cap Kept(k)' = {}
    BY <1>2, <2>2 DEF Apart
  <2>4. \A n \in Managers, d \in Deleters : Reclaiming(d)' => dying'[d].buffer \notin Kept(n)'
    BY <1>2, <1>9, <2>2 DEF Apart
  <2> QED BY <1>2, <1>9, <2>1, <2>3, <2>4 DEF Apart
<1>16. UsedIsAccounted'
  <2>1. \A n \in Managers :
          /\ Held'[n] = Len(idle'[n]) + Cardinality(live'[n]) + Cardinality(Giving(n))
          /\ Len(idle[n]) \in Nat /\ Cardinality(live[n]) \in Nat /\ Cardinality(Giving(n)) \in Nat
          /\ Held[n] = Len(idle[n]) + Cardinality(live[n]) + Cardinality(Giving(n))
    BY <1>2, <1>10, HeldTypes DEF Held
  <2>2. ASSUME NEW n \in Managers
        PROVE  Held'[n] = IF n = m THEN Held[n] + (- Len(q)) ELSE Held[n]
    <3>1. CASE n = m
      BY <1>1, <1>7, <1>m, <2>1, <3>1
    <3>2. CASE n # m
      BY <1>1, <1>6, <2>1, <3>2
    <3> QED BY <3>1, <3>2
  <2>3. used' = used + Size[m] * (- Len(q)) /\ - Len(q) \in Int
    <3> DEFINE z == Len(q)
    <3>1. used' = used - Size[m] * z /\ z \in Nat
      BY <1>1, <1>5
    <3>2. used \in Int
      BY <1>2, <1>3, BytesSum DEF AccountInv, UsedIsAccounted
    <3>3. \A s, x \in Int : s * (-x) = -(s * x) /\ s * x \in Int
      OBVIOUS
    <3>4. Size[m] * (-z) = -(Size[m] * z) /\ Size[m] * z \in Int
      <4>1. Size[m] \in Int /\ z \in Int
        BY <1>4, <3>1
      <4> HIDE DEF z
      <4> QED BY <3>3, <4>1
    <3> HIDE DEF z
    <3>5. used' = used + Size[m] * (-z) /\ -z \in Int
      <4> DEFINE y == Size[m] * z
      <4>1. y \in Int /\ Size[m] * (-z) = -y /\ used' = used - y
        BY <3>1, <3>4
      <4> HIDE DEF y
      <4> QED BY <3>1, <3>2, <4>1
    <3> QED BY <3>5 DEF z
  <2> QED BY <1>3, <1>13, <2>2, <2>3, AccountChanges
<1> QED BY <1>14, <1>15, <1>16 DEF AccountInv

(* Nothing is allocated before the first frame.                            *)
LEMMA AccountInit == Init => AccountInv
<1> SUFFICES ASSUME Init PROVE AccountInv
  OBVIOUS
<1>1. /\ used = 0 /\ todo = [t \in Threads |-> {}]
      /\ \A m \in Managers : idle[m] = <<>> /\ live[m] = {}
      /\ \A d \in Deleters : ~Reclaiming(d)
      /\ live \in [Managers -> SUBSET Buffers]
  BY DEF Init, Reclaiming, Threads
<1>2. \A m \in Managers :
        /\ Range(idle[m]) = {} /\ Kept(m) = {}
        /\ IsInjective(idle[m]) /\ Giving(m) = {}
  BY <1>1 DEF Range, Kept, IsInjective, Giving, Reclaiming
<1>3. Allocated = {}
  <2>1. \A x : x \notin Allocated
    BY <1>1, <1>2, AllocatedIs
  <2> QED BY <2>1
<1>4. Finite
  BY <1>1, <1>3, FS_EmptySet DEF Finite
<1>5. Apart
  BY <1>1, <1>2 DEF Apart
<1>6. \A m \in Managers : Held[m] = 0 /\ Bytes[m] = 0
  <2>1. \A m \in Managers : Held[m] = 0
    <3>1. \A m \in Managers : Held[m] = Len(idle[m]) + Cardinality(live[m]) + Cardinality(Giving(m))
      BY DEF Held
    <3>2. \A m \in Managers : idle[m] = <<>> /\ live[m] = {} /\ Giving(m) = {}
      BY <1>1, <1>2
    <3>3. Cardinality({}) = 0 /\ Len(<<>>) = 0
      BY FS_EmptySet
    <3>4. ASSUME NEW m \in Managers PROVE Held[m] = 0
      <4>1. Len(idle[m]) = 0 /\ Cardinality(live[m]) = 0 /\ Cardinality(Giving(m)) = 0
        BY <3>2, <3>3
      <4> QED BY <3>1, <4>1
    <3> QED BY <3>4
  <2>2. \A m \in Managers : Size[m] * 0 = 0
    BY MemoryAssumption
  <2> QED BY <2>1, <2>2 DEF Bytes
<1>7. Held \in [Managers -> Int] /\ Bytes \in [Managers -> Int]
  <2>1. Held = [m \in Managers |-> Held[m]] /\ Bytes = [m \in Managers |-> Bytes[m]]
    BY DEF Held, Bytes
  <2> QED BY <1>6, <2>1
<1>8. SumFunction(Held) = 0 /\ SumFunction(Bytes) = 0
  BY <1>6, <1>7, SumOfZeros, MemoryAssumption
<1>9. UsedIsAccounted
  BY <1>1, <1>3, <1>8, FS_EmptySet DEF UsedIsAccounted
<1> QED BY <1>4, <1>5, <1>9 DEF AccountInv

LEMMA AccountStep ==
  ASSUME MemoryInv, AccountInv, [Next]_vars
  PROVE  AccountInv'
<1>1. ASSUME UNCHANGED vars PROVE AccountInv'
  BY <1>1, AccountStays DEF vars, Reclaiming, AccountInv, Finite
<1>2. ASSUME NEW p \in Producers,
             GetManager(p) \/ LockManager(p) \/ OutOfMemory(p) \/ RetryThrows(p)
      PROVE  AccountInv'
  <2>1. p \in Threads /\ p \notin Deleters
    BY MemoryAssumption DEF Threads
  <2>2. UNCHANGED <<used, idle, live, dying, todo>>
    BY <1>2 DEF GetManager, LockManager, OutOfMemory, RetryThrows
  <2>3. \A d \in Deleters : pc'[d] = pc[d]
    BY <1>2, <2>1 DEF GetManager, LockManager, OutOfMemory, RetryThrows, Move,
                      MemoryInv, Types, Threads
  <2> QED BY <2>2, <2>3, AccountStays DEF Reclaiming, AccountInv, Finite
<1>3. ASSUME NEW t \in Producers \cup {App}, LockMap(t) \/ FreeReturns(t) \/ FreeIdleMemory
      PROVE  AccountInv'
  <2>1. t \in Threads /\ t \notin Deleters /\ App \in Threads /\ App \notin Deleters
    BY MemoryAssumption DEF Threads
  <2>2. UNCHANGED <<used, idle, live, dying>> /\ todo' \in [Threads -> SUBSET Managers]
    BY <1>3, <2>1 DEF LockMap, FreeReturns, FreeIdleMemory, AccountInv, Finite
  <2>3. \A d \in Deleters : pc'[d] = pc[d]
    BY <1>3, <2>1 DEF LockMap, FreeReturns, FreeIdleMemory, Move, MemoryInv, Types, Threads
  <2> QED BY <2>2, <2>3, AccountStays DEF Reclaiming
<1>4. ASSUME SetMaxFrameMemorySize PROVE AccountInv'
  BY <1>4, AccountStays DEF SetMaxFrameMemorySize, Reclaiming, AccountInv, Finite
<1>5. ASSUME NEW d \in Deleters, Destroyed(d) PROVE AccountInv'
  <2>1. /\ UNCHANGED <<used, idle, live, todo>>
        /\ pc[d] = "destroy" /\ pc'[d] = "idle"
        /\ \A e \in Deleters : e # d => pc'[e] = pc[e] /\ dying'[e] = dying[e]
    BY <1>5 DEF Destroyed, Move, MemoryInv, Types, Threads
  <2>2. \A e \in Deleters : /\ Reclaiming(e)' <=> Reclaiming(e)
                            /\ Reclaiming(e) => dying'[e] = dying[e]
    BY <2>1 DEF Reclaiming
  <2> QED BY <2>1, <2>2, AccountStays DEF AccountInv, Finite
<1>6. ASSUME NEW t \in Producers \cup {App}, Free(t) PROVE AccountInv'
  BY <1>3, <1>6, ReleaseIdleKeepsAccount DEF Free, Threads
<1> QED BY <1>1, <1>2, <1>3, <1>4, <1>5, <1>6, AllocateKeepsAccount, TakeIdleKeepsAccount,
           DeleteKeepsAccount, ReclaimKeepsAccount DEF Next, Produce, Drop

(* What the allocator counts as used is what the managers hold, idle, in   *)
(* frames and about to come back, and no address is held twice.            *)
THEOREM UsedIsAccountedHolds == Spec => []UsedIsAccounted
<1>1. MemoryInv /\ AccountInv /\ [Next]_vars => AccountInv'
  BY AccountStep
<1>2. MemoryInv /\ DyingIsUntouched /\ [Next]_vars => MemoryInv' /\ DyingIsUntouched'
  BY MemoryStep
<1>3. AccountInv => UsedIsAccounted
  BY DEF AccountInv
<1> QED BY <1>1, <1>2, <1>3, MemoryInit, AccountInit, PTL DEF Spec
=============================================================================
