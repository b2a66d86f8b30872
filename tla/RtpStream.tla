------------------------------ MODULE RtpStream ------------------------------
(***************************************************************************)
(* Video over UDP: platform/ethernet/RTPStreamPort.cpp and, under rtp/,    *)
(* ObRTPUDPClient.cpp, ObRTPPacketQueue.cpp, ObRTPPacketProcessor.cpp.     *)
(*   the device      sends a frame as packets 0, 1, ... and marks the last *)
(*   the network     loses, delays and repeats packets                     *)
(*   the receiver    frameReceive: socket to rtpQueue_                     *)
(*   the processor   frameProcess: rtpQueue_ to frames                     *)
(*   the caller      start and stop, which joins both threads              *)
(* A packet carries its number within the frame and the mark, and nothing  *)
(* that tells its frame: the processor counts.  The field "frame" is for   *)
(* the properties alone.  Neither rtpQueue_ nor the half of a frame in the *)
(* processor is dropped by a restart.                                      *)
(*                                                                         *)
(* Operators named Mut... are seeded faults; the specification uses none.  *)
(***************************************************************************)
EXTENDS Integers, Sequences, FiniteSets, SequencesExt

CONSTANTS
  Sizes,         \* packets a frame may have
  MaxCount,      \* maxPacketCount_
  MaxFrames,     \* bound: frames sent
  MaxStarts,     \* bound: calls of start
  MaxFaults,     \* bound: packets lost, delayed or repeated
  QueueSize      \* bound: packets in rtpQueue_, which has none

ASSUME RtpAssumption ==
  /\ MaxCount \in Nat \ {0} /\ Sizes \subseteq 1..MaxCount /\ Sizes # {}
  /\ {MaxFrames, MaxStarts, MaxFaults, QueueSize} \subseteq Nat

VARIABLES
  size,        \* the packets of every frame
  next,        \* the packet the device sends next
  late,        \* a packet the network has held up, or a copy of one
  queue,       \* queue_ of rtpQueue_
  destroyed,   \* destroy_ of rtpQueue_
  receive,     \* startReceive_
  processor,   \* where callbackThread_ is
  found,       \* foundStartPacket_
  count,       \* fameSequenceNumberCount_
  buffer,      \* rtpBuffer_: the frame each part is from, 0 when blank
  number,      \* frameNumber_
  expected,    \* size of a frame of currentProfile_, in packets
  caller,      \* where the caller is
  frames,      \* history: the frame the packet processed last has completed, by the
               \* frames its parts are from and the frame of its last packet
  lostStart,   \* history: frames whose packet 0 was lost
  intact,      \* history: the frame processed last, and its packets seen in
               \* order from the first in this session, 0 when one was missed
  losses, shuffles, starts

Unsent == [frame |-> MaxFrames + 1, seq |-> 0]
netVars == <<size, next, late, lostStart, losses, shuffles>>
queueVars == <<queue, destroyed>>
bufferVars == <<found, count, buffer, number>>
sessionVars == <<receive, expected, caller, starts>>
vars == <<netVars, queueVars, processor, bufferVars, sessionVars, frames,
          intact>>

Blank == [i \in 0..MaxCount - 1 |-> 0]
Packets == [frame : 1..MaxFrames, seq : 0..MaxCount - 1]

(* The marker of a packet.                                                 *)
Marked(p) == p.seq = size[p.frame] - 1

TypeOK ==
  /\ size \in [1..MaxFrames -> Sizes]
  /\ next \in Packets \cup {Unsent}
  /\ late \in Seq(Packets) /\ queue \in Seq(Packets)
  /\ {destroyed, receive, found} \subseteq BOOLEAN
  /\ processor \in {"none", "test", "pop", "ended"}
  /\ count \in 0..MaxCount /\ number \in Nat /\ expected \in Sizes \cup {0}
  /\ buffer \in [0..MaxCount - 1 -> 0..MaxFrames]
  /\ caller \in {"idle", "streaming", "destroy", "join_processor"}
  /\ frames = <<>> \/ \E f \in SUBSET (0..MaxFrames), m \in 1..MaxFrames :
                       frames = <<[parts |-> f, mark |-> m]>>
  /\ lostStart \subseteq 1..MaxFrames
  /\ intact \in [frame : 0..MaxFrames, upto : 0..MaxCount]
  /\ {losses, shuffles, starts} \subseteq Nat

Init ==
  /\ size \in [1..MaxFrames -> Sizes]
  /\ next = [frame |-> 1, seq |-> 0]
  /\ late = <<>> /\ queue = <<>> /\ destroyed = FALSE
  /\ receive = FALSE /\ processor = "none"
  /\ found = FALSE /\ count = 0 /\ buffer = Blank /\ number = 0
  /\ expected = 0
  /\ caller = "idle"
  /\ frames = <<>> /\ lostStart = {} /\ intact = [frame |-> 0, upto |-> 0]
  /\ losses = 0 /\ shuffles = 0 /\ starts = 0

-----------------------------------------------------------------------------
(* The device sends the next packet.  A packet waits in the socket for the *)
(* receiver, so that sending and recvfrom are one step.                    *)
Send ==
  /\ next # Unsent
  /\ next' = IF Marked(next) THEN [frame |-> next.frame + 1, seq |-> 0]
                             ELSE [next EXCEPT !.seq = @ + 1]
  /\ UNCHANGED <<size, processor, bufferVars, sessionVars, frames, intact>>

(* push, unless the queue is destroyed.                                    *)
Push(p) ==
  /\ Len(queue) < QueueSize
  /\ queue' = IF destroyed THEN queue ELSE Append(queue, p)
  /\ UNCHANGED destroyed

(* frameReceive, while startReceive_ holds.  A recvfrom that fails or      *)
(* times out is no step.                                                   *)
Receive ==
  /\ receive
  /\ Send /\ Push(next)
  /\ UNCHANGED <<late, lostStart, losses, shuffles>>

(* The network loses a packet, holds it up, or keeps a copy of it ...      *)
Lose ==
  /\ losses + shuffles < MaxFaults /\ losses' = losses + 1
  /\ Send
  /\ lostStart' = IF next.seq = 0 THEN lostStart \cup {next.frame} ELSE lostStart
  /\ UNCHANGED <<late, shuffles, queueVars>>

Shuffle ==
  /\ losses + shuffles < MaxFaults /\ shuffles' = shuffles + 1
  /\ late = <<>> /\ late' = <<next>>
  /\ Send
  /\ \/ UNCHANGED queueVars
     \/ receive /\ Push(next)
  /\ UNCHANGED <<lostStart, losses>>

(* ... which arrives late.                                                 *)
ReceiveLate ==
  /\ receive
  /\ late # <<>> /\ late' = <<>>
  /\ Push(late[1])
  /\ UNCHANGED <<size, next, lostStart, losses, shuffles, processor, bufferVars, sessionVars,
                 frames, intact>>

-----------------------------------------------------------------------------
(* frameProcess.                                                           *)
ProcessorTests ==
  /\ processor = "test"
  /\ processor' = IF receive THEN "pop" ELSE "ended"
  /\ UNCHANGED <<netVars, queueVars, bufferVars, sessionVars, frames, intact>>

(* pop waits for a packet or destroy().                                    *)
PopsNothing ==
  /\ processor = "pop" /\ queue = <<>> /\ destroyed
  /\ processor' = "test"
  /\ UNCHANGED <<netVars, queueVars, bufferVars, sessionVars, frames, intact>>

data == Head(queue)

(* What the buffer is when the packet has been copied: OnStartOfFrame for  *)
(* packet 0, then the copy to the place of its number.                     *)
MutOpened(p) == [count |-> count, buffer |-> IF p.seq = 0 THEN Blank ELSE buffer]
Opened(p) == [count |-> IF p.seq = 0 THEN 0 ELSE count,
              buffer |-> IF p.seq = 0 THEN Blank ELSE buffer]

Copied(p) ==
  [count |-> Opened(p).count + 1, buffer |-> [Opened(p).buffer EXCEPT ![p.seq] = p.frame]]

Reset == found' = FALSE /\ count' = 0 /\ buffer' = Blank

(* The history of what the processor is given; a packet dropped by the     *)
(* overflow check is one missed.                                           *)
Noted(p) ==
  IF count >= MaxCount
    THEN [frame |-> p.frame, upto |-> 0]
    ELSE [frame |-> p.frame,
          upto |-> IF p.seq = 0 \/ (p.frame = intact.frame /\ p.seq = intact.upto)
                     THEN p.seq + 1 ELSE 0]

(* A packet is popped and processed; nobody else looks at the buffer.      *)
Processing ==
  /\ processor = "pop" /\ queue # <<>>
  /\ processor' = "test"
  /\ queue' = Tail(queue)
  /\ intact' = Noted(data)
  /\ UNCHANGED <<netVars, destroyed, sessionVars>>

(* The buffer has been filled without end: given up, with this packet.     *)
Overflow ==
  /\ Processing
  /\ count >= MaxCount
  /\ Reset /\ frames' = <<>> /\ UNCHANGED number

(* No packet 0 so far: the packet is passed over.                          *)
PassOver ==
  /\ Processing
  /\ count < MaxCount /\ ~found /\ data.seq # 0
  /\ frames' = <<>> /\ UNCHANGED bufferVars

Process == Processing /\ count < MaxCount /\ (found \/ data.seq = 0)

Store ==
  /\ Process
  /\ ~Marked(data)
  /\ found' = TRUE
  /\ count' = Copied(data).count /\ buffer' = Copied(data).buffer
  /\ frames' = <<>> /\ UNCHANGED number

(* OnEndOfFrame: as many packets as the number of the last one tells.      *)
MutComplete(p) == TRUE
Complete(p) == Copied(p).count = p.seq + 1

(* frameCallback_, for a frame that fits the profile.                      *)
HandOut ==
  /\ Process
  /\ Marked(data) /\ Complete(data)
  /\ number' = number + 1
  /\ frames' = IF Copied(data).count <= expected
                 THEN <<[parts |-> {Copied(data).buffer[i] : i \in 0..data.seq},
                         mark |-> data.frame]>>
                 ELSE <<>>
  /\ Reset

Incomplete ==
  /\ Process
  /\ Marked(data) /\ ~Complete(data)
  /\ Reset /\ frames' = <<>> /\ UNCHANGED number

-----------------------------------------------------------------------------
(* start: the queue is as it was left, and so is the buffer.               *)
Start ==
  /\ caller = "idle" /\ starts < MaxStarts
  /\ caller' = "streaming" /\ starts' = starts + 1
  /\ receive' = TRUE
  /\ destroyed' = FALSE
  /\ number' = 0
  /\ expected' \in Sizes
  /\ processor' = "test"
  /\ intact' = [frame |-> 0, upto |-> 0]
  /\ UNCHANGED <<netVars, queue, found, count, buffer, frames>>

StopMove(from, to) ==
  /\ caller = from /\ caller' = to
  /\ UNCHANGED <<netVars, queue, bufferVars, expected, starts, frames, intact>>

(* startReceive_ = false; the receiver sees it and is joined.              *)
Stop ==
  /\ StopMove("streaming", "destroy")
  /\ receive' = FALSE
  /\ UNCHANGED <<destroyed, processor>>

MutDestroy ==
  /\ StopMove("destroy", "join_processor")
  /\ UNCHANGED <<destroyed, receive, processor>>

Destroy ==
  /\ StopMove("destroy", "join_processor")
  /\ destroyed' = TRUE
  /\ UNCHANGED <<receive, processor>>

JoinProcessor ==
  /\ processor = "ended" /\ processor' = "none"
  /\ StopMove("join_processor", "idle")
  /\ UNCHANGED <<destroyed, receive>>

-----------------------------------------------------------------------------
Receiver == Receive \/ Lose \/ Shuffle \/ ReceiveLate

Processor ==
  \/ ProcessorTests \/ PopsNothing
  \/ Overflow \/ PassOver \/ Store \/ HandOut \/ Incomplete

Caller == Destroy \/ JoinProcessor

Next == Receiver \/ Processor \/ Start \/ Stop \/ Caller

Spec == Init /\ [][Next]_vars

(* The processor and the caller go on; recvfrom returns after its timeout  *)
(* at the latest, so that Stop may join the receiver in one step.          *)
FairSpec == Spec /\ WF_vars(Processor) /\ WF_vars(Caller)

-----------------------------------------------------------------------------
(* On a network that only loses packets, the frame handed out is whole and *)
(* made of one frame sent, unless packet 0 of the frame it ends with was   *)
(* lost: then the count may fit although head and tail are of two frames.  *)
WholeUnlessStartLost ==
  \A i \in 1..Len(frames) :
    shuffles = 0 => (frames[i].parts = {frames[i].mark} \/ frames[i].mark \in lostStart)

(* A frame whose packets come one after the other is handed out whatever   *)
(* came before it, if it fits the profile and is not met by the overflow   *)
(* check.                                                                  *)
IntactIsDelivered ==
  LET m == intact.frame
  IN (m # 0 /\ intact.upto = size[m] /\ size[m] <= expected) =>
       (frames # <<>> /\ frames[1].mark = m /\ frames[1].parts = {m})

(* stop() returns: it joins a processor that may be waiting for a packet.  *)
StopReturns == (caller # "idle" /\ ~receive) ~> (caller = "idle")
=============================================================================
