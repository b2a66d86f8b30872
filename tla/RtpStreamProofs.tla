--------------------------- MODULE RtpStreamProofs ----------------------------
(***************************************************************************)
(* What holds of an RTP stream for any number of frames, packets, starts,  *)
(* faults of the network and any size of the queue.                        *)
(*                                                                         *)
(* The processor sees packets and no frames: that what it hands out is one *)
(* frame rests on two facts about the way of a packet.  In a session it is *)
(* what came in order since packet 0 that lies in rtpBuffer_ (IntactHeld). *)
(* Over all sessions, on a network that only loses packets, everything in  *)
(* the queue is still in the order it was sent in, and the buffer holds    *)
(* the packets of the frame at the head of it alone (Orderly).             *)
(***************************************************************************)
EXTENDS RtpStream, SequenceTheorems, FiniteSetTheorems, TLAPS

Before(p, q) == p.frame < q.frame \/ (p.frame = q.frame /\ p.seq < q.seq)

(* A packet's number is within its frame, wherever the packet is.          *)
PacketsExist ==
  /\ next # Unsent => next.seq < size[next.frame]
  /\ \A i \in DOMAIN late : late[i].seq < size[late[i].frame]
  /\ \A i \in DOMAIN queue : queue[i].seq < size[queue[i].frame]

(* rtpQueue_ takes packets while there is a receiver.                      *)
OpenToReceive == receive => caller = "streaming" /\ ~destroyed

(* Packets of one frame that came without a gap lie at their places.       *)
IntactHeld ==
  LET f == intact.frame
  IN f # 0 /\ intact.upto \in 1..size[f] - 1 =>
       /\ found /\ count = intact.upto
       /\ \A i \in 0..count - 1 : buffer[i] = f

InOrder ==
  /\ late = <<>>
  /\ \A i, j \in DOMAIN queue : i < j => Before(queue[i], queue[j])
  /\ \A i \in DOMAIN queue : Before(queue[i], next)

(* The processor has been given packet 0 of frame m.                       *)
Opening(m) == [frame |-> m, seq |-> 0]
Opens(m) ==
  /\ m \notin lostStart /\ Before(Opening(m), next)
  /\ \A i \in DOMAIN queue : queue[i] # Opening(m)

PassedInOrder ==
  \A m \in 1..MaxFrames : Opens(m) => \A i \in DOMAIN queue : m <= queue[i].frame

(* The processor may still be given packet s of frame m, or one after it.  *)
ToCome(m, s) ==
  \/ \E i \in DOMAIN queue : queue[i] = [frame |-> m, seq |-> s]
  \/ next = [frame |-> m, seq |-> s]

Filled == {i \in 0..MaxCount - 1 : buffer[i] # 0}

(* While more of a frame is to come, nothing else is in the buffer, and    *)
(* the count tells how much there is.                                      *)
HoldsOnly ==
  found => \A m \in 1..MaxFrames, s \in 0..MaxCount - 1 : Opens(m) /\ ToCome(m, s) =>
    /\ \A i \in Filled : buffer[i] = m /\ i < s
    /\ Cardinality(Filled) = count

Orderly == shuffles = 0 => InOrder /\ PassedInOrder /\ HoldsOnly

Types == TypeOK /\ PacketsExist /\ OpenToReceive

RtpInv ==
  /\ Types
  /\ IntactHeld /\ IntactIsDelivered
  /\ Orderly /\ WholeUnlessStartLost

-----------------------------------------------------------------------------
(* Packets, and the queue they wait in.                                    *)
LEMMA Bounds ==
  /\ MaxCount \in Nat \ {0} /\ MaxFrames \in Nat
  /\ \A s \in Sizes : s \in Nat /\ 1 <= s /\ s <= MaxCount
BY RtpAssumption

LEMMA SizeOf ==
  ASSUME TypeOK, NEW f \in 1..MaxFrames
  PROVE  size[f] \in Nat /\ 1 <= size[f] /\ size[f] <= MaxCount
<1>1. size[f] \in Sizes
  BY DEF TypeOK
<1> QED BY <1>1, Bounds

LEMMA PacketTypes ==
  ASSUME NEW p \in Packets
  PROVE  /\ p = [frame |-> p.frame, seq |-> p.seq]
         /\ p.frame \in 1..MaxFrames /\ p.frame \in Nat
         /\ p.seq \in 0..MaxCount - 1 /\ p.seq \in Nat
         /\ p # Unsent
BY Bounds DEF Packets, Unsent

LEMMA NextTypes ==
  ASSUME TypeOK
  PROVE  /\ next = [frame |-> next.frame, seq |-> next.seq]
         /\ next.frame \in Nat /\ next.seq \in Nat
         /\ next = Unsent => next.frame = MaxFrames + 1
         /\ next # Unsent => next \in Packets
<1>1. CASE next = Unsent
  <2>1. Unsent.frame = MaxFrames + 1 /\ Unsent.seq = 0 /\ MaxFrames \in Nat
    BY Bounds DEF Unsent
  <2>2. Unsent = [frame |-> Unsent.frame, seq |-> Unsent.seq]
    BY DEF Unsent
  <2> QED BY <1>1, <2>1, <2>2
<1>2. CASE next # Unsent
  BY <1>2, PacketTypes DEF TypeOK
<1> QED BY <1>1, <1>2

LEMMA QueueTypes ==
  ASSUME TypeOK
  PROVE  /\ Len(queue) \in Nat /\ DOMAIN queue = 1..Len(queue)
         /\ \A i \in DOMAIN queue : queue[i] \in Packets /\ i \in Nat
         /\ Len(late) \in Nat /\ DOMAIN late = 1..Len(late)
         /\ \A i \in DOMAIN late : late[i] \in Packets
<1>1. queue \in Seq(Packets) /\ late \in Seq(Packets)
  BY DEF TypeOK
<1> QED BY <1>1, LenProperties

(* A step of the network appends at most one packet to an open queue.      *)
LEMMA PushAppends ==
  ASSUME TypeOK, NEW p \in Packets, Push(p)
  PROVE  /\ queue' \in Seq(Packets) /\ destroyed' = destroyed
         /\ destroyed => queue' = queue
         /\ ~destroyed =>
              /\ DOMAIN queue' = 1..Len(queue) + 1
              /\ \A i \in DOMAIN queue : queue'[i] = queue[i]
              /\ queue'[Len(queue) + 1] = p
<1>1. queue \in Seq(Packets)
  BY DEF TypeOK
<1>2. /\ Append(queue, p) \in Seq(Packets)
      /\ Len(Append(queue, p)) = Len(queue) + 1
      /\ \A i \in 1..Len(queue) : Append(queue, p)[i] = queue[i]
      /\ Append(queue, p)[Len(queue) + 1] = p
  BY <1>1, AppendProperties
<1>3. DOMAIN Append(queue, p) = 1..Len(queue) + 1 /\ DOMAIN queue = 1..Len(queue)
  BY <1>1, <1>2, LenProperties
<1>4. destroyed' = destroyed /\ queue' = IF destroyed THEN queue ELSE Append(queue, p)
  BY DEF Push
<1> QED BY <1>1, <1>2, <1>3, <1>4

(* The processor takes the packet at the head.                             *)
LEMMA PopTakesHead ==
  ASSUME TypeOK, queue # <<>>, queue' = Tail(queue)
  PROVE  /\ data \in Packets /\ 1 \in DOMAIN queue /\ data = queue[1]
         /\ queue' \in Seq(Packets)
         /\ \A i \in DOMAIN queue' : /\ i + 1 \in DOMAIN queue /\ i + 1 > 1
                                     /\ queue'[i] = queue[i + 1]
<1>1. queue \in Seq(Packets)
  BY DEF TypeOK
<1> DEFINE q == Tail(queue)
<1>2. /\ q \in Seq(Packets) /\ Len(q) = Len(queue) - 1
      /\ \A i \in 1..Len(q) : q[i] = queue[i + 1]
      /\ Head(queue) \in Packets
  BY <1>1, HeadTailProperties
<1>3. /\ Len(queue) \in Nat \ {0} /\ DOMAIN queue = 1..Len(queue) /\ DOMAIN q = 1..Len(q)
      /\ Head(queue) = queue[1]
  BY <1>1, <1>2, LenProperties, EmptySeq
<1> HIDE DEF q
<1>4. \A i \in DOMAIN q : i + 1 \in DOMAIN queue /\ i + 1 > 1 /\ q[i] = queue[i + 1]
  BY <1>2, <1>3
<1>5. 1 \in DOMAIN queue
  BY <1>3
<1>6. queue' = q
  BY DEF q
<1> QED BY <1>2, <1>3, <1>4, <1>5, <1>6 DEF data

(* The device numbers the packets of a frame and goes on to the next one.  *)
LEMMA SendAdvances ==
  ASSUME TypeOK, PacketsExist, Send
  PROVE  /\ next \in Packets /\ next.seq < size[next.frame]
         /\ next' \in Packets \cup {Unsent}
         /\ next' # Unsent => next'.seq < size[next'.frame]
         /\ \/ next'.frame = next.frame /\ next'.seq = next.seq + 1
            \/ next'.frame = next.frame + 1 /\ next'.seq = 0
<1>1. next \in Packets /\ next.seq < size[next.frame]
  BY NextTypes DEF Send, PacketsExist
<1>2. /\ next.frame \in 1..MaxFrames /\ next.seq \in Nat
      /\ size[next.frame] \in Nat /\ size[next.frame] <= MaxCount
  BY <1>1, PacketTypes, SizeOf
<1>3. CASE Marked(next)
  <2>1. next' = [frame |-> next.frame + 1, seq |-> 0]
    BY <1>3 DEF Send
  <2>2. CASE next.frame = MaxFrames
    <3>1. next' = Unsent
      BY <2>1, <2>2 DEF Unsent
    <3> QED BY <1>1, <2>1, <3>1
  <2>3. CASE next.frame # MaxFrames
    <3>1. next.frame + 1 \in 1..MaxFrames /\ 0 \in 0..MaxCount - 1
      BY <1>2, <2>3, Bounds
    <3>2. next' \in Packets
      BY <2>1, <3>1 DEF Packets
    <3>3. next'.frame = next.frame + 1 /\ next'.seq = 0 /\ size[next.frame + 1] >= 1
      BY <2>1, <3>1, SizeOf
    <3>4. size[next.frame + 1] \in Nat
      BY <3>1, SizeOf
    <3> QED BY <1>1, <3>2, <3>3, <3>4
  <2> QED BY <2>2, <2>3
<1>4. CASE ~Marked(next)
  <2>1. next' = [next EXCEPT !.seq = @ + 1]
    BY <1>4 DEF Send
  <2>2. next.seq + 1 < size[next.frame]
    BY <1>1, <1>2, <1>4 DEF Marked
  <2>3. next.seq + 1 \in 0..MaxCount - 1
    BY <1>2, <2>2, Bounds
  <2>4. next' \in Packets /\ next'.frame = next.frame /\ next'.seq = next.seq + 1
    BY <1>1, <2>1, <2>3 DEF Packets
  <2> QED BY <1>1, <2>2, <2>4
<1> QED BY <1>3, <1>4

-----------------------------------------------------------------------------
(* Types, and packets that exist.                                          *)
LEMMA TypesInit ==
  ASSUME Init
  PROVE  Types
<1>1. /\ 1 \in 1..MaxFrames + 1 /\ 0 \in 0..MaxFrames
      /\ 0 \in 0..MaxCount - 1 /\ 0 \in 0..MaxCount
  BY Bounds
<1>2. next \in Packets \cup {Unsent}
  <2>1. MaxFrames = 0 => next = Unsent
    BY DEF Init, Unsent
  <2>2. MaxFrames # 0 => next \in Packets
    BY <1>1, Bounds DEF Init, Packets
  <2> QED BY <2>1, <2>2
<1>3. next # Unsent => next.seq < size[next.frame]
  <2>1. next # Unsent => MaxFrames # 0
    BY DEF Init, Unsent
  <2>2. next # Unsent => size[1] >= 1 /\ size[1] \in Nat
    <3>1. next # Unsent => 1 \in 1..MaxFrames
      BY <2>1, Bounds
    <3>2. size \in [1..MaxFrames -> Sizes]
      BY DEF Init
    <3> QED BY <3>1, <3>2, Bounds
  <2> QED BY <2>2 DEF Init
<1>4. Blank \in [0..MaxCount - 1 -> 0..MaxFrames]
  BY <1>1 DEF Blank
<1>5. late \in Seq(Packets) /\ queue \in Seq(Packets)
  BY EmptySeq DEF Init
<1>6. lostStart \subseteq 1..MaxFrames /\ intact \in [frame : 0..MaxFrames, upto : 0..MaxCount]
  BY <1>1 DEF Init
<1>7. /\ destroyed = FALSE /\ receive = FALSE /\ found = FALSE /\ number = 0
      /\ losses = 0 /\ shuffles = 0 /\ starts = 0 /\ count = 0 /\ expected = 0
      /\ frames = <<>> /\ processor = "none" /\ caller = "idle" /\ buffer = Blank
      /\ size \in [1..MaxFrames -> Sizes]
  BY DEF Init
<1>8. TypeOK
  <2>1. {losses, shuffles, starts} \subseteq Nat
    BY <1>7
  <2>2. destroyed \in BOOLEAN /\ receive \in BOOLEAN /\ found \in BOOLEAN
    BY <1>7
  <2>3. count \in 0..MaxCount /\ number \in Nat /\ buffer \in [0..MaxCount - 1 -> 0..MaxFrames]
    BY <1>1, <1>4, <1>7
  <2> QED BY <1>2, <1>5, <1>6, <1>7, <2>1, <2>2, <2>3 DEF TypeOK
<1> QED BY <1>3, <1>8, EmptySeq DEF Init, Types, PacketsExist, OpenToReceive

(* A packet the network brings is one of a frame, and goes to the end of   *)
(* the queue.                                                              *)
LEMMA PushKeepsTypes ==
  ASSUME Types, NEW p \in Packets, p.seq < size[p.frame], Push(p), size' = size
  PROVE  /\ queue' \in Seq(Packets)
         /\ \A i \in DOMAIN queue' : queue'[i].seq < size'[queue'[i].frame]
<1>1. TypeOK /\ PacketsExist
  BY DEF Types
<1>2. CASE destroyed
  BY <1>1, <1>2, PushAppends DEF PacketsExist
<1>3. CASE ~destroyed
  <2>1. \A i \in DOMAIN queue' : i \in DOMAIN queue \/ i = Len(queue) + 1
    BY <1>1, <1>3, PushAppends, QueueTypes
  <2> QED BY <1>1, <1>3, <2>1, PushAppends DEF PacketsExist
<1> QED BY <1>2, <1>3

LEMMA ReceiverKeepsTypes ==
  ASSUME Types, Receiver
  PROVE  Types'
<1>1. TypeOK /\ PacketsExist /\ size' = size
  BY DEF Types, Receiver, Receive, Lose, Shuffle, ReceiveLate, Send
<1>2. /\ UNCHANGED <<processor, bufferVars, sessionVars, frames, intact>>
      /\ destroyed' = destroyed
  BY DEF Receiver, Receive, Lose, Shuffle, ReceiveLate, Send, Push, queueVars
<1>3. /\ next' \in Packets \cup {Unsent}
      /\ next' # Unsent => next'.seq < size[next'.frame]
  <2>1. CASE Send
    BY <1>1, <2>1, SendAdvances
  <2>2. CASE next' = next
    BY <1>1, <2>2 DEF TypeOK, PacketsExist
  <2> QED BY <2>1, <2>2 DEF Receiver, Receive, Lose, Shuffle, ReceiveLate
<1>4. /\ queue' \in Seq(Packets)
      /\ \A i \in DOMAIN queue' : queue'[i].seq < size'[queue'[i].frame]
  <2>1. CASE Send /\ Push(next)
    <3>1. next \in Packets /\ next.seq < size[next.frame]
      BY <1>1, <2>1, SendAdvances
    <3> QED BY <1>1, <2>1, <3>1, PushKeepsTypes
  <2>2. CASE queue' = queue
    BY <1>1, <2>2 DEF TypeOK, PacketsExist
  <2>3. CASE ReceiveLate
    <3>1. 1 \in DOMAIN late
      BY <1>1, <2>3, QueueTypes, EmptySeq DEF ReceiveLate
    <3>2. late[1] \in Packets /\ late[1].seq < size[late[1].frame] /\ Push(late[1])
      BY <1>1, <2>3, <3>1, QueueTypes DEF ReceiveLate, PacketsExist
    <3> QED BY <1>1, <3>2, PushKeepsTypes
  <2> QED BY <2>1, <2>2, <2>3 DEF Receiver, Receive, Lose, Shuffle, queueVars
<1>5. /\ late' \in Seq(Packets)
      /\ \A i \in DOMAIN late' : late'[i].seq < size'[late'[i].frame]
  <2>1. CASE late' = late
    BY <1>1, <2>1 DEF TypeOK, PacketsExist
  <2>2. CASE late' = <<>>
    BY <2>2, EmptySeq
  <2>3. CASE late' = <<next>> /\ Send
    <3>1. next \in Packets /\ next.seq < size[next.frame]
      BY <1>1, <2>3, SendAdvances
    <3> QED BY <1>1, <2>3, <3>1
  <2> QED BY <2>1, <2>2, <2>3 DEF Receiver, Receive, Lose, Shuffle, ReceiveLate
<1>6. lostStart' \subseteq 1..MaxFrames /\ losses' \in Nat /\ shuffles' \in Nat
  <2>1. CASE Lose
    <3>1. next.frame \in 1..MaxFrames
      BY <1>1, <2>1, SendAdvances, PacketTypes DEF Lose
    <3>2. lostStart \subseteq 1..MaxFrames /\ losses \in Nat /\ shuffles \in Nat
      BY <1>1 DEF TypeOK
    <3>3. /\ losses' = losses + 1 /\ shuffles' = shuffles
          /\ lostStart' \in {lostStart, lostStart \cup {next.frame}}
      BY <2>1 DEF Lose
    <3> QED BY <3>1, <3>2, <3>3
  <2>2. CASE ~Lose
    <3>1. lostStart \subseteq 1..MaxFrames /\ losses \in Nat /\ shuffles \in Nat
      BY <1>1 DEF TypeOK
    <3>2. lostStart' = lostStart /\ losses' = losses /\ shuffles' \in {shuffles, shuffles + 1}
      BY <2>2 DEF Receiver, Receive, Shuffle, ReceiveLate
    <3> QED BY <3>1, <3>2
  <2> QED BY <2>1, <2>2
<1>7. TypeOK'
  BY <1>1, <1>2, <1>3, <1>4, <1>5, <1>6 DEF TypeOK, bufferVars, sessionVars
<1>8. PacketsExist'
  BY <1>1, <1>3, <1>4, <1>5 DEF PacketsExist
<1>9. OpenToReceive'
  BY <1>2 DEF Types, OpenToReceive, sessionVars
<1> QED BY <1>7, <1>8, <1>9 DEF Types

(* What the buffer is with a packet in it.                                 *)
LEMMA CopiedFacts ==
  ASSUME TypeOK, NEW p \in Packets, count < MaxCount
  PROVE  /\ Copied(p).count \in 1..MaxCount
         /\ Copied(p).buffer \in [0..MaxCount - 1 -> 0..MaxFrames]
         /\ Copied(p).buffer[p.seq] = p.frame
         /\ p.seq = 0 => /\ Copied(p).count = 1
                         /\ \A i \in 0..MaxCount - 1 : i # 0 => Copied(p).buffer[i] = 0
         /\ p.seq # 0 => /\ Copied(p).count = count + 1
                         /\ \A i \in 0..MaxCount - 1 :
                              i # p.seq => Copied(p).buffer[i] = buffer[i]
<1>1. /\ p.frame \in 0..MaxFrames /\ p.seq \in 0..MaxCount - 1
      /\ count \in Nat /\ buffer \in [0..MaxCount - 1 -> 0..MaxFrames]
  BY PacketTypes, Bounds DEF TypeOK
<1>2. Blank \in [0..MaxCount - 1 -> 0..MaxFrames] /\ \A i \in 0..MaxCount - 1 : Blank[i] = 0
  BY Bounds DEF Blank
<1>3. /\ Copied(p).count = (IF p.seq = 0 THEN 0 ELSE count) + 1
      /\ Copied(p).buffer = [(IF p.seq = 0 THEN Blank ELSE buffer) EXCEPT ![p.seq] = p.frame]
  BY DEF Copied, Opened
<1>4. Copied(p).count \in 1..MaxCount
  BY <1>1, <1>3, Bounds
<1> QED BY <1>1, <1>2, <1>3, <1>4

(* What every step of the processor with a packet does.                    *)
LEMMA ProcessorKeepsTypes ==
  ASSUME Types, Processor
  PROVE  Types'
<1>1. TypeOK /\ PacketsExist /\ UNCHANGED <<netVars, destroyed, sessionVars>>
  BY DEF Types, Processor, ProcessorTests, PopsNothing, Overflow, PassOver, Store, HandOut,
     Incomplete, Process, Processing, queueVars
<1>2. CASE ProcessorTests \/ PopsNothing
  <2>1. processor' \in {"none", "test", "pop", "ended"}
        /\ UNCHANGED <<queueVars, bufferVars, frames, intact>>
    BY <1>2 DEF ProcessorTests, PopsNothing
  <2> QED BY <1>1, <2>1, SMTT(30) DEF Types, TypeOK, PacketsExist, OpenToReceive, netVars,
             queueVars, bufferVars, sessionVars
<1>3. CASE Processing
  <2>1. queue # <<>> /\ queue' = Tail(queue) /\ processor' = "test"
    BY <1>3 DEF Processing
  <2>2. data \in Packets /\ queue' \in Seq(Packets)
    BY <1>1, <2>1, PopTakesHead
  <2>3. \A i \in DOMAIN queue' : queue'[i].seq < size[queue'[i].frame]
    BY <1>1, <2>1, PopTakesHead DEF PacketsExist
  <2>4. intact' \in [frame : 0..MaxFrames, upto : 0..MaxCount]
    <3>1. data.frame \in 0..MaxFrames /\ data.seq + 1 \in 0..MaxCount /\ 0 \in 0..MaxCount
      BY <2>2, PacketTypes, Bounds
    <3>2. intact' = Noted(data)
      BY <1>3 DEF Processing
    <3> HIDE DEF data
    <3> QED BY <3>1, <3>2 DEF Noted
  <2>5. /\ found' \in BOOLEAN /\ count' \in 0..MaxCount /\ number' \in Nat
        /\ buffer' \in [0..MaxCount - 1 -> 0..MaxFrames]
    <3>1. CASE Reset /\ number' \in {number, number + 1}
      <4>1. found' = FALSE /\ count' = 0 /\ buffer' = Blank /\ number \in Nat
        BY <1>1, <3>1 DEF Reset, TypeOK
      <4>2. Blank \in [0..MaxCount - 1 -> 0..MaxFrames] /\ 0 \in 0..MaxCount
        BY Bounds DEF Blank
      <4>3. number' \in Nat
        BY <3>1, <4>1
      <4> QED BY <4>1, <4>2, <4>3
    <3>2. CASE UNCHANGED bufferVars
      BY <1>1, <3>2 DEF bufferVars, TypeOK
    <3>3. CASE Store
      <4>1. count < MaxCount
        BY <3>3 DEF Store, Process
      <4>2. Copied(data).count \in 1..MaxCount
            /\ Copied(data).buffer \in [0..MaxCount - 1 -> 0..MaxFrames]
        BY <1>1, <2>2, <4>1, CopiedFacts
      <4>3. /\ found' = TRUE /\ number' = number /\ number \in Nat
            /\ count' = Copied(data).count /\ buffer' = Copied(data).buffer
        BY <1>1, <3>3 DEF Store, TypeOK
      <4> QED BY <4>2, <4>3, Bounds
    <3> QED BY <1>2, <1>3, <3>1, <3>2, <3>3 DEF Processor, Overflow, PassOver, HandOut,
               Incomplete, ProcessorTests, PopsNothing
  <2>6. frames' = <<>> \/ \E f \in SUBSET (0..MaxFrames), m \in 1..MaxFrames :
                            frames' = <<[parts |-> f, mark |-> m]>>
    <3>1. CASE frames' = <<>>
      BY <3>1
    <3>2. CASE HandOut
      <4>1. count < MaxCount
        BY <3>2 DEF HandOut, Process
      <4> DEFINE f == {Copied(data).buffer[i] : i \in 0..data.seq}
      <4>2. f \in SUBSET (0..MaxFrames)
        <5>1. Copied(data).buffer \in [0..MaxCount - 1 -> 0..MaxFrames]
          BY <1>1, <2>2, <4>1, CopiedFacts
        <5>2. \A i \in 0..data.seq : i \in 0..MaxCount - 1
          BY <2>2, PacketTypes, Bounds
        <5> QED BY <5>1, <5>2
      <4>3. data.frame \in 1..MaxFrames
        BY <2>2, PacketTypes
      <4>4. frames' = <<>> \/ frames' = <<[parts |-> f, mark |-> data.frame]>>
        BY <3>2 DEF HandOut
      <4> HIDE DEF f
      <4> QED BY <4>2, <4>3, <4>4
    <3>3. CASE ProcessorTests \/ PopsNothing
      BY <1>1, <3>3 DEF ProcessorTests, PopsNothing, TypeOK
    <3> QED BY <3>1, <3>2, <3>3 DEF Processor, Overflow, PassOver, Store, Incomplete
  <2>7. TypeOK'
    BY <1>1, <2>1, <2>2, <2>4, <2>5, <2>6 DEF TypeOK, netVars, sessionVars
  <2>8. PacketsExist' /\ OpenToReceive'
    BY <1>1, <2>3 DEF Types, PacketsExist, OpenToReceive, netVars, sessionVars
  <2> QED BY <2>7, <2>8 DEF Types
<1> QED BY <1>2, <1>3 DEF Processor, Overflow, PassOver, Store, HandOut, Incomplete, Process

LEMMA CallerKeepsTypes ==
  ASSUME Types, Start \/ Stop \/ Caller
  PROVE  Types'
<1>1. TypeOK /\ PacketsExist /\ OpenToReceive
  BY DEF Types
<1>2. UNCHANGED <<netVars, queue, found, count, buffer, frames>>
  BY DEF Start, Stop, Caller, Destroy, JoinProcessor, StopMove, bufferVars
<1>3. PacketsExist'
  BY <1>1, <1>2 DEF PacketsExist, netVars
<1>4. CASE Start
  <2>1. intact' \in [frame : 0..MaxFrames, upto : 0..MaxCount]
    BY <1>4, Bounds DEF Start
  <2>2. /\ starts' \in Nat /\ destroyed' = FALSE /\ receive' = TRUE /\ number' = 0
        /\ expected' \in Sizes /\ processor' = "test" /\ caller' = "streaming"
    BY <1>1, <1>4 DEF Start, TypeOK
  <2>3. TypeOK'
    BY <1>1, <1>2, <2>1, <2>2 DEF TypeOK, netVars
  <2> QED BY <1>3, <2>2, <2>3 DEF Types, OpenToReceive
<1>5. CASE Stop \/ Caller
  <2>1. /\ UNCHANGED <<number, expected, starts, intact>>
        /\ caller' \in {"idle", "destroy", "join_processor"}
        /\ destroyed' \in {destroyed, TRUE} /\ receive' \in {receive, FALSE}
        /\ processor' \in {processor, "none"}
    BY <1>5 DEF Stop, Caller, Destroy, JoinProcessor, StopMove, bufferVars
  <2>2. TypeOK'
    BY <1>1, <1>2, <2>1 DEF TypeOK, netVars
  <2>3. receive' = FALSE
    BY <1>1, <1>5 DEF Stop, Caller, Destroy, JoinProcessor, StopMove, OpenToReceive, TypeOK
  <2> QED BY <1>3, <2>2, <2>3 DEF Types, OpenToReceive
<1> QED BY <1>4, <1>5

-----------------------------------------------------------------------------
(* A frame that comes without a gap.                                       *)
LEMMA IntactUndisturbed ==
  ASSUME IntactHeld, IntactIsDelivered,
         UNCHANGED <<size, intact, bufferVars, expected, frames>>
  PROVE  IntactHeld' /\ IntactIsDelivered'
BY DEF IntactHeld, IntactIsDelivered, bufferVars

(* The packet after those that lie in the buffer goes behind them; the     *)
(* marked one makes them a frame.  Whatever else comes, the history begins *)
(* anew.                                                                   *)
LEMMA ProcessingKeepsIntact ==
  ASSUME Types, IntactHeld, Processing,
         Overflow \/ PassOver \/ Store \/ HandOut \/ Incomplete
  PROVE  IntactHeld' /\ IntactIsDelivered'
<1> DEFINE f == data.frame
           k == data.seq
<1>1. TypeOK /\ queue # <<>> /\ queue' = Tail(queue) /\ intact' = Noted(data)
      /\ UNCHANGED <<size, expected>>
  BY DEF Types, Processing, netVars, sessionVars
<1>2. data \in Packets /\ k < size[f]
  BY <1>1, PopTakesHead DEF Types, PacketsExist
<1>3. /\ f \in 1..MaxFrames /\ f \in Nat /\ f # 0 /\ k \in 0..MaxCount - 1 /\ k \in Nat
      /\ size[f] \in Nat /\ 1 <= size[f] /\ count \in 0..MaxCount /\ MaxCount \in Nat
      /\ intact.frame \in Nat /\ intact.upto \in Nat
  BY <1>1, <1>2, PacketTypes, SizeOf, Bounds, SMTT(30) DEF TypeOK
<1>4. intact'.frame = f
  BY <1>1 DEF Noted
<1>5. CASE intact'.upto = 0
  BY <1>1, <1>3, <1>4, <1>5 DEF IntactHeld, IntactIsDelivered
<1>6. CASE intact'.upto # 0
  <2>1. /\ count < MaxCount /\ intact'.upto = k + 1
        /\ k = 0 \/ (f = intact.frame /\ k = intact.upto)
    BY <1>1, <1>3, <1>6 DEF Noted
  <2>2. k # 0 => found /\ count = k /\ \A i \in 0..k - 1 : buffer[i] = f
    BY <1>2, <1>3, <2>1 DEF IntactHeld
  <2>3. /\ Copied(data).count = k + 1
        /\ \A i \in 0..k : Copied(data).buffer[i] = f
    <3> HIDE DEF data
    <3>1. CASE k = 0
      BY <1>1, <1>2, <2>1, <3>1, CopiedFacts
    <3>2. CASE k # 0
      <4>1. \A i \in 0..k : i = k \/ i \in 0..k - 1
        BY <1>3
      <4>2. \A i \in 0..k - 1 : i \in 0..MaxCount - 1 /\ i # k
        BY <1>3
      <4> QED BY <1>1, <1>2, <2>1, <2>2, <3>2, <4>1, <4>2, CopiedFacts
    <3> QED BY <3>1, <3>2
  <2>4. Process /\ Complete(data)
    BY <2>1, <2>2, <2>3 DEF Process, Complete
  <2>5. CASE Marked(data)
    <3>1. size[f] = k + 1
      BY <1>3, <2>5 DEF Marked
    <3>2. HandOut
      BY <1>3, <2>1, <2>2, <2>4, <2>5 DEF Overflow, PassOver, Store, Incomplete
    <3>3. {Copied(data).buffer[i] : i \in 0..k} = {f}
      <4>1. 0 \in 0..k
        BY <1>3
      <4> QED BY <2>3, <4>1
    <3>4. size'[f] <= expected' =>
            frames' # <<>> /\ frames'[1].mark = f /\ frames'[1].parts = {f}
      BY <1>1, <2>3, <3>1, <3>2, <3>3 DEF HandOut
    <3>5. IntactHeld'
      BY <1>1, <1>3, <1>4, <2>1, <3>1 DEF IntactHeld
    <3> QED BY <1>4, <3>4, <3>5 DEF IntactIsDelivered
  <2>6. CASE ~Marked(data)
    <3>1. size[f] # k + 1
      BY <1>3, <2>6 DEF Marked
    <3>2. Store
      BY <1>3, <2>1, <2>2, <2>4, <2>6 DEF Overflow, PassOver, HandOut, Incomplete
    <3>3. /\ found' /\ count' = k + 1
          /\ \A i \in 0..k : buffer'[i] = f
      BY <2>3, <3>2 DEF Store
    <3>4. k + 1 - 1 = k
      BY <1>3
    <3>5. IntactHeld'
      <4>1. count' = intact'.upto /\ found'
        BY <2>1, <3>3
      <4>2. \A i \in 0..count' - 1 : buffer'[i] = intact'.frame
        <5>1. count' - 1 = k
          BY <1>3, <3>3
        <5> HIDE DEF f, k
        <5> QED BY <1>4, <3>3, <5>1
      <4> QED BY <4>1, <4>2 DEF IntactHeld
    <3>6. IntactIsDelivered'
      BY <1>1, <1>4, <2>1, <3>1 DEF IntactIsDelivered
    <3> QED BY <3>5, <3>6
  <2> QED BY <2>5, <2>6
<1> QED BY <1>5, <1>6

LEMMA IntactStep ==
  ASSUME Types, IntactHeld, IntactIsDelivered, [Next]_vars
  PROVE  IntactHeld' /\ IntactIsDelivered'
<1>1. CASE Receiver
  BY <1>1, IntactUndisturbed DEF Receiver, Receive, Lose, Shuffle, ReceiveLate, Send,
     sessionVars
<1>2. CASE ProcessorTests \/ PopsNothing
  BY <1>2, IntactUndisturbed DEF ProcessorTests, PopsNothing, netVars, sessionVars
<1>3. CASE Overflow \/ PassOver \/ Store \/ HandOut \/ Incomplete
  BY <1>3, ProcessingKeepsIntact DEF Overflow, PassOver, Store, HandOut, Incomplete, Process
<1>4. CASE Start
  <2>1. intact'.frame = 0
    BY <1>4 DEF Start
  <2> QED BY <2>1 DEF IntactHeld, IntactIsDelivered
<1>5. CASE Stop \/ Caller
  BY <1>5, IntactUndisturbed DEF Stop, Caller, Destroy, JoinProcessor, StopMove, netVars
<1>6. CASE UNCHANGED vars
  BY <1>6, IntactUndisturbed DEF vars, netVars, sessionVars
<1> QED BY <1>1, <1>2, <1>3, <1>4, <1>5, <1>6 DEF Next, Processor

-----------------------------------------------------------------------------
(* The order of packets, on a network that only loses some.                *)
LEMMA OrderUndisturbed ==
  ASSUME Orderly, WholeUnlessStartLost,
         UNCHANGED <<netVars, queue, found, count, buffer, frames>>
  PROVE  Orderly' /\ WholeUnlessStartLost'
<1>1. UNCHANGED <<size, next, late, lostStart, shuffles, queue, found, count, buffer, frames>>
  BY DEF netVars
<1>2. /\ InOrder' <=> InOrder
      /\ \A m : Opens(m)' <=> Opens(m)
      /\ \A m, s : ToCome(m, s)' <=> ToCome(m, s)
  BY <1>1 DEF InOrder, Opens, ToCome
<1>3. PassedInOrder => PassedInOrder'
  BY <1>1, <1>2 DEF PassedInOrder
<1>4. HoldsOnly => HoldsOnly'
  <2>1. Filled' = Filled
    BY <1>1 DEF Filled
  <2> QED BY <1>1, <1>2, <2>1 DEF HoldsOnly
<1> QED BY <1>1, <1>2, <1>3, <1>4 DEF Orderly, WholeUnlessStartLost

(* The next packet comes after all that were sent, so that it may go to    *)
(* the end of the queue or be lost.                                        *)
LEMMA SendKeepsOrder ==
  ASSUME Types, Orderly, WholeUnlessStartLost, shuffles = 0, shuffles' = 0, Receive \/ Lose
  PROVE  Orderly' /\ WholeUnlessStartLost'
<1>1. /\ TypeOK /\ PacketsExist /\ OpenToReceive /\ InOrder /\ PassedInOrder /\ HoldsOnly
      /\ Send /\ UNCHANGED <<size, frames, bufferVars>> /\ late' = late
  BY DEF Types, Orderly, Receive, Lose, Send
<1>2. /\ next \in Packets /\ next.frame \in Nat /\ next.seq \in Nat
      /\ \/ next'.frame = next.frame /\ next'.seq = next.seq + 1
         \/ next'.frame = next.frame + 1 /\ next'.seq = 0
  BY <1>1, SendAdvances, PacketTypes
<1>3. Before(next, next')
  BY <1>2 DEF Before
<1>4. \/ /\ DOMAIN queue' = 1..Len(queue) + 1
         /\ \A i \in DOMAIN queue : queue'[i] = queue[i]
         /\ queue'[Len(queue) + 1] = next
         /\ lostStart' = lostStart
      \/ /\ queue' = queue
         /\ lostStart' = IF next.seq = 0 THEN lostStart \cup {next.frame} ELSE lostStart
  <2>1. CASE Receive
    <3>1. Push(next) /\ ~destroyed /\ lostStart' = lostStart
      BY <1>1, <2>1 DEF Receive, OpenToReceive
    <3> QED BY <1>1, <1>2, <3>1, PushAppends
  <2>2. CASE Lose
    BY <2>2 DEF Lose, queueVars
  <2> QED BY <2>1, <2>2
<1>5. /\ Len(queue) \in Nat /\ DOMAIN queue = 1..Len(queue)
      /\ \A i \in DOMAIN queue : /\ queue[i] \in Packets /\ queue[i].frame \in Nat
                                 /\ queue[i].seq \in Nat /\ i \in Nat
  BY <1>1, QueueTypes, PacketTypes
<1>6. \A i \in DOMAIN queue' : \/ i \in DOMAIN queue /\ queue'[i] = queue[i]
                               \/ i = Len(queue) + 1 /\ queue'[i] = next /\ queue' # queue
  BY <1>4, <1>5
<1>7. \A i \in DOMAIN queue : i \in DOMAIN queue' /\ queue'[i] = queue[i]
  BY <1>4, <1>5
<1>8. InOrder'
  <2>1. ASSUME NEW i \in DOMAIN queue', NEW j \in DOMAIN queue', i < j
        PROVE  Before(queue'[i], queue'[j])
    BY <1>1, <1>5, <1>6, <2>1 DEF InOrder
  <2>2. ASSUME NEW i \in DOMAIN queue' PROVE Before(queue'[i], next')
    <3>1. CASE i \in DOMAIN queue /\ queue'[i] = queue[i]
      <4>1. Before(queue[i], next)
        BY <1>1, <3>1 DEF InOrder
      <4> QED BY <1>2, <1>5, <3>1, <4>1 DEF Before
    <3>2. CASE queue'[i] = next
      BY <1>3, <3>2
    <3> QED BY <1>6, <3>1, <3>2
  <2> QED BY <1>1, <2>1, <2>2 DEF InOrder
<1>9. ASSUME NEW m \in 1..MaxFrames, Opens(m)'
      PROVE  Opens(m) /\ m <= next.frame
  <2>1. m \in Nat /\ m \notin lostStart' /\ Before(Opening(m), next')
    BY <1>9, Bounds DEF Opens
  <2>2. \A i \in DOMAIN queue : queue[i] # Opening(m)
    BY <1>7, <1>9 DEF Opens
  <2>3. next # Opening(m)
    <3> SUFFICES ASSUME next = Opening(m) PROVE FALSE
      OBVIOUS
    <3>1. next.seq = 0 /\ next.frame = m
      BY DEF Opening
    <3> QED BY <1>4, <1>5, <1>9, <2>1, <3>1 DEF Opens
  <2>4. next = [frame |-> next.frame, seq |-> next.seq]
    BY <1>2, PacketTypes
  <2>5. Before(Opening(m), next) /\ m <= next.frame
    <3>1. ~(next.frame = m /\ next.seq = 0)
      BY <2>3, <2>4 DEF Opening
    <3>2. m < next'.frame \/ (m = next'.frame /\ 0 < next'.seq)
      BY <2>1 DEF Before, Opening
    <3>3. m < next.frame \/ (m = next.frame /\ 0 < next.seq)
      BY <1>2, <2>1, <3>1, <3>2
    <3> QED BY <1>2, <2>1, <3>3 DEF Before, Opening
  <2>6. m \notin lostStart
    BY <1>4, <2>1
  <2> QED BY <2>2, <2>5, <2>6 DEF Opens
<1>10. PassedInOrder'
  BY <1>1, <1>6, <1>9 DEF PassedInOrder
<1>11. ASSUME NEW m \in 1..MaxFrames, NEW s \in 0..MaxCount - 1,
             Opens(m)', ToCome(m, s)', found'
       PROVE  /\ \A i \in Filled' : buffer'[i] = m /\ i < s
              /\ Cardinality(Filled') = count'
  <2>1. Filled' = Filled /\ buffer' = buffer /\ count' = count /\ found
    BY <1>1, <1>11 DEF Filled, bufferVars
  <2>2. Opens(m) /\ m \in Nat /\ s \in Nat
    BY <1>9, <1>11, Bounds
  <2>3. CASE ToCome(m, s)
    BY <1>1, <2>1, <2>2, <2>3 DEF HoldsOnly
  <2>4. CASE next' = [frame |-> m, seq |-> s]
    <3>1. next'.frame = m /\ next'.seq = s
      BY <2>4
    <3>2. m <= next.frame
      BY <1>9, <1>11
    <3>3. next.frame = m /\ s = next.seq + 1
      BY <1>2, <2>2, <3>1, <3>2
    <3>4. ToCome(m, next.seq) /\ next.seq \in 0..MaxCount - 1
      BY <1>2, <3>3, PacketTypes DEF ToCome
    <3>5. (\A i \in Filled : buffer[i] = m /\ i < next.seq) /\ Cardinality(Filled) = count
      BY <1>1, <2>1, <2>2, <3>4 DEF HoldsOnly
    <3>6. \A i \in Filled : i \in Nat
      BY Bounds DEF Filled
    <3> QED BY <1>2, <2>1, <3>3, <3>5, <3>6
  <2>5. ToCome(m, s) \/ next' = [frame |-> m, seq |-> s]
    BY <1>6, <1>11 DEF ToCome
  <2> QED BY <2>3, <2>4, <2>5
<1>12. HoldsOnly'
  BY <1>11 DEF HoldsOnly
<1>13. WholeUnlessStartLost'
  BY <1>1, <1>4 DEF WholeUnlessStartLost
<1> QED BY <1>8, <1>10, <1>12, <1>13 DEF Orderly

(* The processor takes packets in the order they are queued in.  One that  *)
(* completes a frame finds the buffer holding this frame alone and as many *)
(* packets as there are places before it: all of them.                     *)
LEMMA ProcessingKeepsOrder ==
  ASSUME Types, Orderly, Processing,
         Overflow \/ PassOver \/ Store \/ HandOut \/ Incomplete
  PROVE  Orderly' /\ WholeUnlessStartLost'
<1> DEFINE f == data.frame
           k == data.seq
<1>1. /\ TypeOK /\ PacketsExist /\ queue # <<>> /\ queue' = Tail(queue)
      /\ UNCHANGED <<next, late, lostStart, shuffles>>
  BY DEF Types, Processing, netVars
<1> SUFFICES ASSUME shuffles = 0 PROVE Orderly' /\ WholeUnlessStartLost'
  BY <1>1 DEF Orderly, WholeUnlessStartLost
<1>2. InOrder /\ PassedInOrder /\ HoldsOnly
  BY DEF Orderly
<1>3. /\ data \in Packets /\ 1 \in DOMAIN queue /\ data = queue[1]
      /\ \A i \in DOMAIN queue' : /\ i + 1 \in DOMAIN queue /\ i + 1 > 1
                                  /\ queue'[i] = queue[i + 1]
  BY <1>1, PopTakesHead
<1>4. /\ DOMAIN queue = 1..Len(queue) /\ Len(queue) \in Nat
      /\ DOMAIN queue' = 1..Len(queue) - 1
      /\ \A i \in DOMAIN queue : queue[i] \in Packets
  <2>1. queue \in Seq(Packets)
    BY <1>1 DEF TypeOK
  <2>2. queue' \in Seq(Packets) /\ Len(queue') = Len(queue) - 1
    BY <1>1, <2>1, HeadTailProperties
  <2> QED BY <1>1, <2>1, <2>2, QueueTypes, LenProperties
<1>5. /\ data = [frame |-> f, seq |-> k] /\ f \in 1..MaxFrames /\ f \in Nat
      /\ k \in 0..MaxCount - 1 /\ k \in Nat /\ count \in 0..MaxCount /\ MaxCount \in Nat
      /\ buffer \in [0..MaxCount - 1 -> 0..MaxFrames]
  BY <1>1, <1>3, PacketTypes, Bounds DEF TypeOK
<1>6. /\ next = [frame |-> next.frame, seq |-> next.seq]
      /\ next.frame \in Nat /\ next.seq \in Nat
  BY <1>1, NextTypes
<1>7. Before(data, next) /\ \A i \in DOMAIN queue' : Before(data, queue'[i])
  BY <1>2, <1>3, <1>4 DEF InOrder
<1>8. \A i \in DOMAIN queue : queue[i] = data \/ \E j \in DOMAIN queue' : queue[i] = queue'[j]
  <2> SUFFICES ASSUME NEW i \in DOMAIN queue, i # 1
               PROVE  \E j \in DOMAIN queue' : queue[i] = queue'[j]
    BY <1>3
  <2>1. i - 1 \in DOMAIN queue' /\ (i - 1) + 1 = i
    BY <1>4
  <2>2. queue'[i - 1] = queue[i]
    BY <1>3, <2>1
  <2> QED BY <2>1, <2>2
<1> HIDE DEF data
<1>9. InOrder'
  <2>1. ASSUME NEW i \in DOMAIN queue', NEW j \in DOMAIN queue', i < j
        PROVE  Before(queue'[i], queue'[j])
    <3>1. i + 1 < j + 1
      BY <1>4, <2>1
    <3> QED BY <1>2, <1>3, <3>1 DEF InOrder
  <2>2. \A i \in DOMAIN queue' : Before(queue'[i], next')
    BY <1>1, <1>2, <1>3 DEF InOrder
  <2> QED BY <1>1, <1>2, <2>1, <2>2 DEF InOrder
<1>10. ASSUME NEW m \in 1..MaxFrames, Opens(m)'
       PROVE  (Opens(m) /\ m <= f) \/ (m = f /\ k = 0)
  <2>1. m \notin lostStart /\ Before(Opening(m), next)
    BY <1>1, <1>10 DEF Opens
  <2>2. CASE data = Opening(m)
    BY <1>5, <2>2 DEF Opening
  <2>3. CASE data # Opening(m)
    <3>1. Opens(m)
      BY <1>8, <1>10, <2>1, <2>3 DEF Opens
    <3>2. m <= queue[1].frame
      BY <1>2, <1>3, <3>1 DEF PassedInOrder
    <3>3. queue[1].frame = f
      BY <1>3
    <3> QED BY <3>1, <3>2, <3>3
  <2> QED BY <2>2, <2>3
<1>11. PassedInOrder'
  <2> SUFFICES ASSUME NEW m \in 1..MaxFrames, Opens(m)', NEW i \in DOMAIN queue'
               PROVE  m <= queue'[i].frame
    BY DEF PassedInOrder
  <2>1. CASE Opens(m)
    BY <1>2, <1>3, <2>1 DEF PassedInOrder
  <2>2. CASE m = f
    <3>1. Before(data, queue'[i]) /\ queue'[i].frame \in Nat
      BY <1>3, <1>4, <1>7, PacketTypes
    <3> QED BY <1>5, <2>2, <3>1 DEF Before
  <2> QED BY <1>10, <2>1, <2>2
<1>12. ASSUME Opens(f), k # 0, found
       PROVE  (\A i \in Filled : buffer[i] = f /\ i < k) /\ Cardinality(Filled) = count
  <2>1. ToCome(f, k)
    BY <1>3, <1>5 DEF ToCome
  <2> QED BY <1>2, <1>5, <1>12, <2>1 DEF HoldsOnly
<1>13. IsFiniteSet(Filled) /\ Filled \subseteq 0..MaxCount - 1
  <2>1. IsFiniteSet(0..MaxCount - 1)
    <3>1. 0 \in Int /\ MaxCount - 1 \in Int
      BY <1>5
    <3> QED BY <3>1, FS_Interval
  <2> QED BY <2>1, FS_Subset DEF Filled
<1>14. ASSUME NEW m \in 1..MaxFrames, NEW s \in 0..MaxCount - 1,
             Opens(m)', ToCome(m, s)', found'
       PROVE  /\ \A i \in Filled' : buffer'[i] = m /\ i < s
              /\ Cardinality(Filled') = count'
  <2>1. Store
    BY <1>14 DEF Overflow, PassOver, HandOut, Incomplete, Reset, bufferVars
  <2>2. /\ count < MaxCount /\ (found \/ k = 0)
        /\ buffer' = Copied(data).buffer /\ count' = Copied(data).count
    BY <2>1 DEF Store, Process
  <2>3. m \in Nat /\ s \in Nat
    BY Bounds
  <2>4. f < m \/ (f = m /\ k < s)
    <3>1. Before(data, [frame |-> m, seq |-> s])
      BY <1>1, <1>7, <1>14 DEF ToCome
    <3> QED BY <3>1 DEF Before
  <2>5. m = f /\ k < s
    BY <1>5, <1>10, <1>14, <2>3, <2>4
  <2>6. CASE k = 0
    <3>1. Filled' = {0}
      BY <1>1, <1>3, <1>5, <2>2, <2>6, CopiedFacts, SMTT(30) DEF Filled
    <3> QED BY <1>1, <1>3, <2>2, <2>5, <2>6, <3>1, CopiedFacts, FS_Singleton, ZenonT(30)
  <2>7. CASE k # 0
    <3>1. Opens(f) /\ found
      BY <1>10, <1>14, <2>2, <2>5, <2>7
    <3>2. (\A i \in Filled : buffer[i] = f /\ i < k) /\ Cardinality(Filled) = count
      BY <1>12, <2>7, <3>1
    <3>3. /\ count' = count + 1 /\ buffer'[k] = f
          /\ \A i \in 0..MaxCount - 1 : i # k => buffer'[i] = buffer[i]
      BY <1>1, <1>3, <2>2, <2>7, CopiedFacts
    <3>4. Filled' = Filled \cup {k} /\ k \notin Filled
      BY <1>5, <3>2, <3>3 DEF Filled
    <3>5. Cardinality(Filled') = count'
      BY <1>13, <3>2, <3>3, <3>4, FS_AddElement
    <3>6. \A i \in Filled' : buffer'[i] = f /\ i < s
      <4> TAKE i \in Filled'
      <4>1. CASE i = k
        BY <2>5, <3>3, <4>1
      <4>2. CASE i # k
        <5>1. i \in Filled /\ i \in 0..MaxCount - 1
          BY <1>13, <3>4, <4>2
        <5>2. buffer[i] = f /\ i < k /\ buffer'[i] = buffer[i] /\ i \in Nat
          BY <1>5, <3>2, <3>3, <4>2, <5>1
        <5> QED BY <1>5, <2>3, <2>5, <5>2
      <4> QED BY <4>1, <4>2
    <3> QED BY <2>5, <3>5, <3>6
  <2> QED BY <2>6, <2>7
<1>15. HoldsOnly'
  BY <1>14 DEF HoldsOnly
<1>16. ASSUME HandOut, f \notin lostStart
       PROVE  {Copied(data).buffer[i] : i \in 0..k} = {f}
  <2>1. count < MaxCount /\ (found \/ k = 0) /\ Copied(data).count = k + 1
    BY <1>16 DEF HandOut, Process, Complete
  <2>2. CASE k = 0
    <3>1. Copied(data).buffer[0] = f
      BY <1>1, <1>3, <2>1, <2>2, CopiedFacts
    <3>2. 0..k = {0}
      BY <2>2
    <3> QED BY <3>1, <3>2
  <2>3. CASE k # 0
    <3>1. Opens(f)
      <4>1. Before(Opening(f), next)
        <5>1. f < next.frame \/ (f = next.frame /\ k < next.seq)
          BY <1>7 DEF Before
        <5>2. f < next.frame \/ (f = next.frame /\ 0 < next.seq)
          BY <1>5, <1>6, <2>3, <5>1
        <5> QED BY <5>2 DEF Before, Opening
      <4>2. data # Opening(f)
        BY <2>3 DEF Opening
      <4>3. \A p : Before(data, p) => p # Opening(f)
        BY <1>5 DEF Before, Opening
      <4> QED BY <1>7, <1>8, <1>16, <4>1, <4>2, <4>3 DEF Opens
    <3>2. (\A i \in Filled : buffer[i] = f /\ i < k) /\ Cardinality(Filled) = count
      BY <1>12, <2>1, <2>3, <3>1
    <3>3. /\ count + 1 = k + 1
          /\ Copied(data).buffer[k] = f
          /\ \A i \in 0..MaxCount - 1 : i # k => Copied(data).buffer[i] = buffer[i]
      BY <1>1, <1>3, <2>1, <2>3, CopiedFacts
    <3>4. Filled = 0..k - 1
      <4>1. Filled \subseteq 0..k - 1
        BY <1>5, <1>13, <3>2
      <4>2. IsFiniteSet(0..k - 1) /\ Cardinality(0..k - 1) = k
        <5>1. 0 \in Int /\ k - 1 \in Int /\ ~(0 > k - 1) /\ (k - 1) - 0 + 1 = k
          BY <1>5, <2>3
        <5> HIDE DEF k
        <5> QED BY <5>1, FS_Interval
      <4>3. count = k
        BY <1>5, <3>3
      <4> QED BY <3>2, <4>1, <4>2, <4>3, FS_Subset
    <3>5. \A i \in 0..k : Copied(data).buffer[i] = f
      <4> TAKE i \in 0..k
      <4>1. CASE i = k
        BY <3>3, <4>1
      <4>2. CASE i # k
        <5>1. i \in 0..k - 1 /\ i \in 0..MaxCount - 1
          BY <1>5, <4>2
        <5> QED BY <3>2, <3>3, <3>4, <4>2, <5>1
      <4> QED BY <4>1, <4>2
    <3>6. 0 \in 0..k
      BY <1>5
    <3> QED BY <3>5, <3>6
  <2> QED BY <2>2, <2>3
<1>17. WholeUnlessStartLost'
  <2>1. CASE frames' = <<>>
    BY <2>1 DEF WholeUnlessStartLost
  <2>2. CASE frames' # <<>>
    <3>1. HandOut
      BY <2>2 DEF Overflow, PassOver, Store, Incomplete
    <3> DEFINE parts == {Copied(data).buffer[i] : i \in 0..k}
    <3>2. frames' = <<[parts |-> parts, mark |-> f]>>
      BY <2>2, <3>1 DEF HandOut
    <3>3. f \notin lostStart => parts = {f}
      BY <1>16, <3>1
    <3> HIDE DEF parts, f
    <3>4. ASSUME NEW i \in 1..Len(frames')
          PROVE  frames'[i].parts = {frames'[i].mark} \/ frames'[i].mark \in lostStart'
      <4>1. i = 1
        BY <3>2
      <4>2. frames'[1].mark = f /\ frames'[1].parts = parts
        BY <3>2
      <4> QED BY <1>1, <3>3, <4>1, <4>2
    <3> QED BY <3>4 DEF WholeUnlessStartLost
  <2> QED BY <2>1, <2>2
<1> QED BY <1>9, <1>11, <1>15, <1>17 DEF Orderly

LEMMA OrderStep ==
  ASSUME Types, Orderly, WholeUnlessStartLost, [Next]_vars
  PROVE  Orderly' /\ WholeUnlessStartLost'
<1>1. CASE Receive \/ Lose
  <2>1. shuffles' = shuffles
    BY <1>1 DEF Receive, Lose
  <2>2. CASE shuffles = 0
    BY <1>1, <2>1, <2>2, SendKeepsOrder
  <2>3. CASE shuffles # 0
    BY <2>1, <2>3 DEF Orderly, WholeUnlessStartLost
  <2> QED BY <2>2, <2>3
<1>2. CASE Shuffle
  <2>1. shuffles' # 0
    BY <1>2 DEF Shuffle, Types, TypeOK
  <2> QED BY <2>1 DEF Orderly, WholeUnlessStartLost
<1>3. CASE ReceiveLate
  <2>1. late # <<>> /\ shuffles' = shuffles
    BY <1>3 DEF ReceiveLate
  <2> QED BY <2>1 DEF Orderly, InOrder, WholeUnlessStartLost
<1>4. CASE ProcessorTests \/ PopsNothing
  BY <1>4, OrderUndisturbed DEF ProcessorTests, PopsNothing, queueVars, bufferVars
<1>5. CASE Overflow \/ PassOver \/ Store \/ HandOut \/ Incomplete
  BY <1>5, ProcessingKeepsOrder DEF Overflow, PassOver, Store, HandOut, Incomplete, Process
<1>6. CASE Start \/ Stop \/ Caller
  BY <1>6, OrderUndisturbed DEF Start, Stop, Caller, Destroy, JoinProcessor, StopMove,
     bufferVars
<1>7. CASE UNCHANGED vars
  BY <1>7, OrderUndisturbed DEF vars, queueVars, bufferVars
<1> QED BY <1>1, <1>2, <1>3, <1>4, <1>5, <1>6, <1>7 DEF Next, Receiver, Processor

-----------------------------------------------------------------------------
LEMMA InitInv ==
  ASSUME Init
  PROVE  RtpInv
<1>1. Types
  BY TypesInit
<1>2. IntactHeld /\ IntactIsDelivered
  BY DEF Init, IntactHeld, IntactIsDelivered
<1>3. WholeUnlessStartLost
  BY EmptySeq DEF Init, WholeUnlessStartLost
<1>4. \A m \in 1..MaxFrames : ~Before(Opening(m), next)
  BY Bounds DEF Init, Before, Opening
<1>5. InOrder /\ PassedInOrder /\ HoldsOnly
  BY <1>4, EmptySeq DEF Init, InOrder, PassedInOrder, HoldsOnly, Opens
<1> QED BY <1>1, <1>2, <1>3, <1>5 DEF RtpInv, Orderly

(* Whatever the network does with the packets, and however often the       *)
(* stream is stopped and started again.                                    *)
THEOREM RtpInvHolds == Spec => []RtpInv
<1>1. Init => RtpInv
  BY InitInv
<1>2. RtpInv /\ [Next]_vars => RtpInv'
  <2> SUFFICES ASSUME RtpInv, [Next]_vars PROVE RtpInv'
    OBVIOUS
  <2>1. Types'
    <3>1. CASE UNCHANGED vars
      BY <3>1 DEF RtpInv, Types, TypeOK, PacketsExist, OpenToReceive, vars, netVars, queueVars,
         bufferVars, sessionVars
    <3> QED BY <3>1, ReceiverKeepsTypes, ProcessorKeepsTypes, CallerKeepsTypes DEF RtpInv, Next
  <2> QED BY <2>1, IntactStep, OrderStep DEF RtpInv
<1> QED BY <1>1, <1>2, PTL DEF Spec

(* The state of the stream keeps its types.                                *)
THEOREM TypeCorrect == Spec => []TypeOK
<1>1. RtpInv => TypeOK
  BY DEF RtpInv, Types
<1> QED BY <1>1, RtpInvHolds, PTL

(* A frame whose packets come one after the other in a session is handed   *)
(* out, whatever half of a frame lay in rtpBuffer_ before it.              *)
THEOREM IntactIsDeliveredHolds == Spec => []IntactIsDelivered
<1>1. RtpInv => IntactIsDelivered
  BY DEF RtpInv
<1> QED BY <1>1, RtpInvHolds, PTL

(* When packets are only lost, counting them is enough to never hand out a *)
(* mixture of frames, but for one that ends with a frame whose packet 0    *)
(* was lost.                                                               *)
THEOREM WholeUnlessStartLostHolds == Spec => []WholeUnlessStartLost
<1>1. RtpInv => WholeUnlessStartLost
  BY DEF RtpInv
<1> QED BY <1>1, RtpInvHolds, PTL
=============================================================================
