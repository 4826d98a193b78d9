---------------------------- MODULE OpusEncoder ----------------------------
(***************************************************************************)
(* CSIOpusEncoder and the ring buffer it keeps its input in, CSIDataQueue. *)
(*                                                                         *)
(* The buffer is a block of memory with a start and an end that both may   *)
(* stand behind its last byte, and a length that tells a full buffer from  *)
(* an empty one.  It doubles until what is enqueued fits.  A call of the   *)
(* encoder enqueues what the audio unit recorded and dequeues whole frames *)
(* while more than a frame is there.  Pointers are offsets from            *)
(* dataStartPointer.                                                       *)
(***************************************************************************)
EXTENDS Integers, Sequences

CONSTANTS Byte,
          Junk,            \* what malloc leaves in memory
          Chunks,          \* what the audio unit records between two calls
          DefaultCapacity, \* DEFAULT_CAPACITY
          FrameLength,     \* bytesPerFrame
          MaxLength        \* bound: most bytes ever in the buffer

ASSUME EncoderAssumption ==
  /\ Junk \notin Byte
  /\ Chunks \subseteq Seq(Byte)
  /\ {DefaultCapacity, FrameLength} \subseteq Nat \ {0}
  /\ MaxLength \in Nat

VARIABLES
  data,         \* the memory
  capacity,
  activeStart,  \* activeStartPointer
  activeEnd,    \* activeEndPointer
  activeLength,
  pc,           \* "enqueue": in CSIDataQueueEnqueue.  "encode": in the loop.
  input,        \* what the call enqueues
  output,       \* the frames it has encoded
  large         \* history: the audio unit recorded more than a frame between two calls

queue == <<data, capacity, activeStart, activeEnd, activeLength>>
vars == <<queue, pc, input, output, large>>

\* CSIDataQueueCreate, initWithSampleRate.
Init ==
  /\ data = [i \in 0 .. DefaultCapacity - 1 |-> Junk]
  /\ capacity = DefaultCapacity
  /\ activeStart = 0 /\ activeEnd = 0 /\ activeLength = 0
  /\ pc = "idle" /\ input = <<>> /\ output = <<>> /\ large = FALSE

-----------------------------------------------------------------------------
(* CSIDataQueue.                                                           *)

\* CSIDataQueuePeek of the first n bytes, n <= activeLength.
Peek(n) ==
  LET sizeToEnd == capacity - activeStart
  IN  IF activeStart + n <= capacity
        THEN [i \in 1 .. n |-> data[activeStart + i - 1]]
        ELSE [i \in 1 .. n |->
               IF i <= sizeToEnd THEN data[activeStart + i - 1] ELSE data[i - sizeToEnd - 1]]

\* Mutant: the smaller block is copied as it lies in memory.
UpgradeInPlace ==
  /\ capacity' = capacity * 2
  /\ data' = [i \in 0 .. capacity' - 1 |-> IF i < capacity THEN data[i] ELSE Junk]
  /\ activeStart' = 0
  /\ activeEnd' = activeLength
  /\ UNCHANGED activeLength

\* Mutant: the new block is not larger.
UpgradeToSame ==
  /\ data' = [i \in 0 .. capacity - 1 |->
       IF i < activeLength THEN Peek(activeLength)[i + 1] ELSE Junk]
  /\ activeStart' = 0
  /\ activeEnd' = activeLength
  /\ UNCHANGED <<activeLength, capacity>>

UpgradeToLargerCapacity ==
  /\ capacity' = capacity * 2
  /\ data' = [i \in 0 .. capacity' - 1 |->
       IF i < activeLength THEN Peek(activeLength)[i + 1] ELSE Junk]
  /\ activeStart' = 0
  /\ activeEnd' = activeLength
  /\ UNCHANGED activeLength

\* memcpy of the chunk to activeEnd, in one piece or two.
Write(chunk) ==
  LET sizeToEnd == capacity - activeEnd
      wraps     == Len(chunk) > sizeToEnd
  IN  /\ data' = [i \in 0 .. capacity - 1 |->
            IF i >= activeEnd /\ i < activeEnd + Len(chunk)
              THEN chunk[i - activeEnd + 1]
            ELSE IF wraps /\ i < Len(chunk) - sizeToEnd
              THEN chunk[i + sizeToEnd + 1]
            ELSE data[i]]
      /\ activeEnd' = IF wraps THEN Len(chunk) - sizeToEnd ELSE activeEnd + Len(chunk)
      /\ activeLength' = activeLength + Len(chunk)
      /\ UNCHANGED <<capacity, activeStart>>

\* The start moves over n bytes that were read.
MoveStart(n) ==
  activeStart' = IF activeStart + n <= capacity
                   THEN activeStart + n
                   ELSE n - (capacity - activeStart)

\* Mutant: CSIDataQueueDequeue forgets that there are n bytes less.
DequeueKeepsLength(n) == MoveStart(n) /\ UNCHANGED <<data, capacity, activeEnd, activeLength>>

\* CSIDataQueueDequeue of n <= activeLength bytes: Peek(n) is what it reads.
Dequeue(n) ==
  /\ MoveStart(n)
  /\ activeLength' = activeLength - n
  /\ UNCHANGED <<data, capacity, activeEnd>>

-----------------------------------------------------------------------------
(* encodeBufferList.                                                       *)

Call(chunk) ==
  /\ pc = "idle"
  /\ activeLength + Len(chunk) <= MaxLength
  /\ pc' = "enqueue"
  /\ input' = chunk
  /\ output' = <<>>
  /\ large' = (large \/ Len(chunk) > FrameLength)
  /\ UNCHANGED queue

\* CSIDataQueueEnqueue: the loop, and the rest.  An empty chunk changes nothing.
Upgrade ==
  /\ pc = "enqueue" /\ activeLength + Len(input) > capacity
  /\ UpgradeToLargerCapacity
  /\ UNCHANGED <<pc, input, output, large>>

Enqueue ==
  /\ pc = "enqueue" /\ activeLength + Len(input) <= capacity
  /\ Write(input)
  /\ pc' = "encode"
  /\ UNCHANGED <<input, output, large>>

Encode ==
  /\ pc = "encode" /\ activeLength > FrameLength
  /\ Dequeue(FrameLength)
  /\ output' = Append(output, Peek(FrameLength))
  /\ UNCHANGED <<pc, input, large>>

\* opus_encode fails: the call returns nil, and the frames it had go with it.
EncodeFails ==
  /\ pc = "encode" /\ activeLength > FrameLength
  /\ Dequeue(FrameLength)
  /\ output' = <<>>
  /\ pc' = "idle"
  /\ UNCHANGED <<input, large>>

Return ==
  /\ pc = "encode" /\ activeLength <= FrameLength
  /\ pc' = "idle"
  /\ UNCHANGED <<queue, input, output, large>>

Inside == Upgrade \/ Enqueue \/ Encode \/ EncodeFails \/ Return

Next == Inside \/ \E chunk \in Chunks : Call(chunk)

Spec == Init /\ [][Next]_vars

\* The thread that makes the call runs.
FairSpec == Spec /\ WF_vars(Inside)

-----------------------------------------------------------------------------
(* Properties.                                                             *)

\* Where byte i of the stream lies.
At(i) == LET k == activeStart + i - 1 IN IF k < capacity THEN k ELSE k - capacity

\* The bytes in the buffer, in the order they were enqueued.
Contents == [i \in 1 .. activeLength |-> data[At(i)]]

\* The pointers and the length of the buffer agree, and nothing in it is what
\* malloc left there (CSIDataQueue.c 64-109, 132-151).
EncoderInv ==
  /\ capacity \in Nat \ {0}
  /\ data \in [0 .. capacity - 1 -> Byte \cup {Junk}]
  /\ activeStart \in 0 .. capacity /\ activeLength \in 0 .. capacity
  /\ activeEnd = IF activeStart + activeLength <= capacity
                   THEN activeStart + activeLength
                   ELSE activeStart + activeLength - capacity
  /\ \A i \in 1 .. activeLength : data[At(i)] \in Byte
  /\ pc \in {"idle", "enqueue", "encode"}
  /\ input \in Seq(Byte)
  /\ output \in Seq(Seq(Byte))

\* The refinement mapping.
F == INSTANCE Framing WITH
  pending <- IF pc = "enqueue" THEN Contents \o input ELSE Contents,
  frames <- output,
  busy <- pc # "idle"

\* The ring buffer wraps and doubles without losing, repeating or moving a
\* byte: the encoder cuts the stream that it is given.
ImplementsFraming == F!Spec

\* The audio unit has recorded at most a frame between two calls.
SmallChunks == ~ large

\* No call then returns two frames: recordingCallback, which sends only the
\* first of them, loses nothing (AudioUnitTool.m 66-74).
OneFramePerCall == SmallChunks => Len(output) <= 1

\* Then at most a frame is left for the next call, whatever opus_encode does.
AtMostAFrameLeft == SmallChunks /\ pc = "idle" => activeLength <= FrameLength

\* And the buffer, which has room for two, is never replaced (64-77).
NeverGrows == SmallChunks /\ DefaultCapacity >= 2 * FrameLength => capacity = DefaultCapacity

\* Every call returns: the buffer is large enough some time, and used up.
Returns == pc # "idle" ~> pc = "idle"
=============================================================================
