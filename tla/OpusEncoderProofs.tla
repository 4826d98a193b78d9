------------------------- MODULE OpusEncoderProofs -------------------------
(***************************************************************************)
(* The ring buffer is a queue of bytes whatever its capacity, and the      *)
(* encoder cuts frames from the stream: proofs for all chunks.             *)
(***************************************************************************)
EXTENDS OpusEncoder, TLAPS

LEMMA EncoderInit == Init => EncoderInv
<1> SUFFICES ASSUME Init PROVE EncoderInv
  OBVIOUS
<1>1. capacity \in Nat \ {0} /\ data \in [0 .. capacity - 1 -> Byte \cup {Junk}]
  BY EncoderAssumption DEF Init
<1>2. activeLength = 0 /\ activeStart = 0 /\ activeEnd = 0
  BY DEF Init
<1>3. input \in Seq(Byte) /\ output \in Seq(Seq(Byte)) /\ pc = "idle"
  BY DEF Init
<1> QED
  BY <1>1, <1>2, <1>3 DEF EncoderInv

-----------------------------------------------------------------------------
(* The operations of the buffer.                                           *)

\* The places of the bytes lie in the memory.
LEMMA AtInMemory ==
  ASSUME EncoderInv, NEW i \in 1 .. activeLength
  PROVE  At(i) \in 0 .. capacity - 1
BY DEF EncoderInv, At

LEMMA ContentsType == ASSUME EncoderInv PROVE Contents \in Seq(Byte) /\ Len(Contents) = activeLength
<1>1. activeLength \in Nat
  BY DEF EncoderInv
<1>2. Contents \in [1 .. activeLength -> Byte]
  BY DEF EncoderInv, Contents
<1> QED
  BY <1>1, <1>2

\* CSIDataQueuePeek reads the oldest bytes, wherever they lie.
LEMMA PeekReads ==
  ASSUME EncoderInv, NEW n \in 0 .. activeLength
  PROVE  Peek(n) = [i \in 1 .. n |-> Contents[i]]
<1>1. ASSUME NEW i \in 1 .. n PROVE Contents[i] = data[At(i)]
  BY <1>1 DEF Contents, EncoderInv
<1>2. CASE activeStart + n <= capacity
  <2>1. \A i \in 1 .. n : At(i) = activeStart + i - 1
    BY <1>2 DEF At, EncoderInv
  <2> QED
    BY <1>1, <1>2, <2>1 DEF Peek
<1>3. CASE ~ (activeStart + n <= capacity)
  <2>1. ASSUME NEW i \in 1 .. n
        PROVE  At(i) = IF i <= capacity - activeStart
                         THEN activeStart + i - 1 ELSE i - (capacity - activeStart) - 1
    BY DEF At, EncoderInv
  <2>2. ASSUME NEW i \in 1 .. n
        PROVE  Contents[i] = IF i <= capacity - activeStart
                               THEN data[activeStart + i - 1]
                               ELSE data[i - (capacity - activeStart) - 1]
    BY <1>1, <2>1
  <2> QED
    BY <1>3, <2>2 DEF Peek
<1> QED
  BY <1>2, <1>3

LEMMA PeekType ==
  ASSUME EncoderInv, NEW n \in 0 .. activeLength
  PROVE  Peek(n) \in Seq(Byte) /\ Peek(n) = SubSeq(Contents, 1, n)
<1>1. Contents \in Seq(Byte) /\ Len(Contents) = activeLength /\ activeLength \in Nat
  BY ContentsType DEF EncoderInv
<1>2. Peek(n) = [i \in 1 .. n |-> Contents[i]]
  BY PeekReads
<1>3. Peek(n) \in [1 .. n -> Byte]
  BY <1>1, <1>2
<1>4. SubSeq(Contents, 1, n) = [i \in 1 .. n |-> Contents[i]]
  BY <1>1
<1> QED
  BY <1>2, <1>3, <1>4

\* upgradeToLargerCapacity keeps the bytes.
LEMMA UpgradeKeeps ==
  ASSUME EncoderInv, Upgrade
  PROVE  EncoderInv' /\ Contents' = Contents
<1>1. /\ capacity' = capacity * 2 /\ activeStart' = 0
      /\ activeEnd' = activeLength /\ activeLength' = activeLength
      /\ UNCHANGED <<pc, input, output>>
      /\ data' = [i \in 0 .. capacity' - 1 |->
           IF i < activeLength THEN Peek(activeLength)[i + 1] ELSE Junk]
  BY DEF Upgrade, UpgradeToLargerCapacity
<1>2. /\ capacity \in Nat \ {0} /\ activeLength \in Nat /\ activeLength <= capacity
      /\ capacity' \in Nat \ {0} /\ activeLength < capacity'
  BY <1>1 DEF EncoderInv
<1>3. activeLength \in 0 .. activeLength
  BY <1>2
<1>4. \A i \in 1 .. activeLength : Peek(activeLength)[i] = Contents[i]
  BY <1>3, PeekReads
<1>5. \A i \in 1 .. activeLength : At(i)' = i - 1
  BY <1>1, <1>2 DEF At
<1>6. ASSUME NEW i \in 1 .. activeLength
      PROVE  data'[i - 1] = Contents[i] /\ Contents[i] \in Byte
  <2>1. i \in Nat /\ 1 <= i /\ i <= activeLength
    BY <1>2
  <2>2. i - 1 \in 0 .. capacity' - 1
    <3>1. i - 1 \in 0 .. capacity * 2 - 1
      BY <1>2, <2>1
    <3> QED
      BY <1>1, <3>1
  <2>3. i - 1 < activeLength /\ (i - 1) + 1 = i
    BY <1>2, <2>1
  <2>4. data'[i - 1] = Peek(activeLength)[i]
    BY <1>1, <2>2, <2>3
  <2> QED
    BY <1>4, <2>4 DEF Contents, EncoderInv
<1>7. data' \in [0 .. capacity' - 1 -> Byte \cup {Junk}]
  <2> SUFFICES ASSUME NEW i \in 0 .. capacity' - 1
               PROVE  (IF i < activeLength THEN Peek(activeLength)[i + 1] ELSE Junk) \in Byte \cup {Junk}
    BY <1>1
  <2>1. CASE i < activeLength
    <3>1. i + 1 \in 1 .. activeLength
      BY <1>2, <2>1
    <3> QED
      BY <1>4, <1>6, <2>1, <3>1
  <2> QED
    BY <2>1
<1>8. Contents' = Contents
  BY <1>1, <1>5, <1>6 DEF Contents
<1>9. EncoderInv'
  <2>1. \A i \in 1 .. activeLength' : data'[At(i)'] \in Byte
    BY <1>1, <1>5, <1>6
  <2>2. activeStart' \in 0 .. capacity' /\ activeLength' \in 0 .. capacity'
        /\ activeStart' + activeLength' <= capacity' /\ activeEnd' = activeStart' + activeLength'
    BY <1>1, <1>2
  <2>3. pc' \in {"idle", "enqueue", "encode"} /\ input' \in Seq(Byte) /\ output' \in Seq(Seq(Byte))
    BY <1>1 DEF EncoderInv
  <2> QED
    BY <1>2, <1>7, <2>1, <2>2, <2>3 DEF EncoderInv
<1> QED
  BY <1>8, <1>9

LEMMA ConcatIs ==
  ASSUME NEW S, NEW s \in Seq(S), NEW t \in Seq(S)
  PROVE  s \o t = [i \in 1 .. Len(s) + Len(t) |-> IF i <= Len(s) THEN s[i] ELSE t[i - Len(s)]]
<1> DEFINE st == [i \in 1 .. Len(s) + Len(t) |-> IF i <= Len(s) THEN s[i] ELSE t[i - Len(s)]]
<1>1. s \o t \in Seq(S) /\ Len(s \o t) = Len(s) + Len(t) /\ Len(s) \in Nat /\ Len(t) \in Nat
  OBVIOUS
<1>2. \A r \in Seq(S) : r = [i \in 1 .. Len(r) |-> r[i]]
  OBVIOUS
<1>3. s \o t = [i \in 1 .. Len(s) + Len(t) |-> (s \o t)[i]]
  BY <1>1, <1>2
<1>4. ASSUME NEW i \in 1 .. Len(s) + Len(t) PROVE (s \o t)[i] = st[i]
  BY <1>1
<1> QED
  BY <1>3, <1>4

\* CSIDataQueueEnqueue appends the chunk.
LEMMA EnqueueAppends ==
  ASSUME EncoderInv, Enqueue
  PROVE  EncoderInv' /\ Contents' = Contents \o input
<1> DEFINE n == Len(input)
           sizeToEnd == capacity - activeEnd
<1>1. /\ capacity \in Nat \ {0} /\ activeStart \in 0 .. capacity /\ activeEnd \in 0 .. capacity
      /\ activeLength \in Nat /\ n \in Nat /\ activeLength + n <= capacity
      /\ sizeToEnd \in Nat /\ input \in [1 .. n -> Byte]
  BY DEF Enqueue, EncoderInv
<1>2. /\ capacity' = capacity /\ activeStart' = activeStart
      /\ activeLength' = activeLength + n
      /\ activeEnd' = IF n > sizeToEnd THEN n - sizeToEnd ELSE activeEnd + n
      /\ data' = [i \in 0 .. capacity - 1 |->
            IF i >= activeEnd /\ i < activeEnd + n
              THEN input[i - activeEnd + 1]
            ELSE IF n > sizeToEnd /\ i < n - sizeToEnd
              THEN input[i + sizeToEnd + 1]
            ELSE data[i]]
      /\ pc' = "encode" /\ input' = input /\ output' = output
  BY DEF Enqueue, Write
<1>3. activeEnd = IF activeStart + activeLength <= capacity
                    THEN activeStart + activeLength
                    ELSE activeStart + activeLength - capacity
  BY DEF EncoderInv
<1>4. \A i : At(i)' = At(i)
  BY <1>2 DEF At
\* What was there stays.
<1>5. ASSUME NEW i \in 1 .. activeLength PROVE data'[At(i)] = data[At(i)]
  <2>1. At(i) \in 0 .. capacity - 1
    BY AtInMemory
  <2>2. ~ (At(i) >= activeEnd /\ At(i) < activeEnd + n)
    BY <1>1, <1>3 DEF At
  <2>3. ~ (n > sizeToEnd /\ At(i) < n - sizeToEnd)
    BY <1>1, <1>3 DEF At
  <2> QED
    BY <1>2, <2>1, <2>2, <2>3
\* The chunk comes behind it.
<1>6. ASSUME NEW i \in 1 .. n PROVE data'[At(activeLength + i)] = input[i]
  <2> DEFINE k == At(activeLength + i)
  <2>1. CASE i <= sizeToEnd /\ activeStart + activeLength <= capacity
    <3>1. k = activeEnd + i - 1 /\ k \in 0 .. capacity - 1 /\ k - activeEnd + 1 = i
      BY <1>1, <1>3, <2>1 DEF At
    <3>2. k >= activeEnd /\ k < activeEnd + n
      BY <1>1, <3>1
    <3> QED
      BY <1>2, <3>1, <3>2
  <2>2. CASE i > sizeToEnd /\ activeStart + activeLength <= capacity
    <3>1. k = i - sizeToEnd - 1 /\ k \in 0 .. capacity - 1 /\ k + sizeToEnd + 1 = i
      BY <1>1, <1>3, <2>2 DEF At
    <3>2. ~ (k >= activeEnd /\ k < activeEnd + n)
      BY <1>1, <1>3, <2>2, <3>1
    <3>3. n > sizeToEnd /\ k < n - sizeToEnd
      BY <1>1, <2>2, <3>1
    <3> QED
      BY <1>2, <3>1, <3>2, <3>3
  <2>3. CASE activeStart + activeLength > capacity
    <3>1. k = activeEnd + i - 1 /\ k \in 0 .. capacity - 1 /\ k - activeEnd + 1 = i
      BY <1>1, <1>3, <2>3 DEF At
    <3>2. k >= activeEnd /\ k < activeEnd + n
      BY <1>1, <3>1
    <3> QED
      BY <1>2, <3>1, <3>2
  <2> QED
    BY <1>1, <2>1, <2>2, <2>3
<1>7. Contents' = Contents \o input
  <2>1. Contents' = [i \in 1 .. activeLength + n |-> data'[At(i)]]
    BY <1>2, <1>4 DEF Contents
  <2>2. Contents \in Seq(Byte) /\ Len(Contents) = activeLength /\ input \in Seq(Byte)
    BY ContentsType DEF EncoderInv
  <2>3. Contents \o input = [i \in 1 .. activeLength + n |->
                               IF i <= activeLength THEN Contents[i] ELSE input[i - activeLength]]
    <3>1. Contents \o input = [i \in 1 .. Len(Contents) + Len(input) |->
                                 IF i <= Len(Contents) THEN Contents[i] ELSE input[i - Len(Contents)]]
      BY <2>2, ConcatIs, Zenon
    <3> QED
      BY <2>2, <3>1, Zenon
  <2>4. ASSUME NEW i \in 1 .. activeLength + n
        PROVE  data'[At(i)] = IF i <= activeLength THEN Contents[i] ELSE input[i - activeLength]
    <3>1. CASE i <= activeLength
      <4>1. i \in 1 .. activeLength
        BY <1>1, <3>1
      <4> QED
        BY <1>5, <3>1, <4>1 DEF Contents
    <3>2. CASE ~ (i <= activeLength)
      <4>1. i - activeLength \in 1 .. n /\ activeLength + (i - activeLength) = i
        BY <1>1, <3>2
      <4>2. data'[At(activeLength + (i - activeLength))] = input[i - activeLength]
        BY <1>6, <4>1
      <4> QED
        BY <3>2, <4>1, <4>2
    <3> QED
      BY <3>1, <3>2
  <2> QED
    BY <2>1, <2>3, <2>4
<1>8. EncoderInv'
  <2>1. data' \in [0 .. capacity' - 1 -> Byte \cup {Junk}]
    <3> SUFFICES ASSUME NEW i \in 0 .. capacity - 1
                 PROVE  data'[i] \in Byte \cup {Junk}
      BY <1>2
    <3>1. data[i] \in Byte \cup {Junk}
      BY DEF EncoderInv
    <3>2. CASE i >= activeEnd /\ i < activeEnd + n
      <4>1. i - activeEnd + 1 \in 1 .. n
        BY <1>1, <3>2
      <4> QED
        BY <1>1, <1>2, <3>2, <4>1
    <3>3. CASE ~ (i >= activeEnd /\ i < activeEnd + n) /\ n > sizeToEnd /\ i < n - sizeToEnd
      <4>1. i + sizeToEnd + 1 \in 1 .. n
        BY <1>1, <3>3
      <4> QED
        BY <1>1, <1>2, <3>3, <4>1
    <3>4. CASE ~ (i >= activeEnd /\ i < activeEnd + n) /\ ~ (n > sizeToEnd /\ i < n - sizeToEnd)
      BY <1>2, <3>1, <3>4
    <3> QED
      BY <3>2, <3>3, <3>4
  <2>2. activeEnd' = IF activeStart' + activeLength' <= capacity'
                       THEN activeStart' + activeLength'
                       ELSE activeStart' + activeLength' - capacity'
    BY <1>1, <1>2, <1>3
  <2>3. ASSUME NEW i \in 1 .. activeLength' PROVE data'[At(i)'] \in Byte
    <3>1. i \in 1 .. activeLength + n /\ At(i)' = At(i)
      BY <1>2, <1>4
    <3>2. CASE i \in 1 .. activeLength
      BY <1>5, <3>1, <3>2 DEF EncoderInv
    <3>3. CASE i \notin 1 .. activeLength
      <4>1. i - activeLength \in 1 .. n /\ activeLength + (i - activeLength) = i
        BY <1>1, <3>1, <3>3
      <4>2. data'[At(activeLength + (i - activeLength))] = input[i - activeLength]
        BY <1>6, <4>1
      <4> QED
        BY <1>1, <3>1, <4>1, <4>2
    <3> QED
      BY <3>2, <3>3
  <2>4. /\ capacity' \in Nat \ {0}
        /\ activeStart' \in 0 .. capacity' /\ activeLength' \in 0 .. capacity'
        /\ pc' \in {"idle", "enqueue", "encode"} /\ input' \in Seq(Byte) /\ output' \in Seq(Seq(Byte))
    BY <1>1, <1>2 DEF EncoderInv
  <2> QED
    BY <2>1, <2>2, <2>3, <2>4 DEF EncoderInv
<1> QED
  BY <1>7, <1>8

\* CSIDataQueueDequeue takes the oldest bytes away.
LEMMA DequeueTakes ==
  ASSUME EncoderInv, NEW n \in 0 .. activeLength, Dequeue(n),
         pc' \in {"idle", "enqueue", "encode"}, input' = input, output' \in Seq(Seq(Byte))
  PROVE  EncoderInv' /\ Contents' = SubSeq(Contents, n + 1, activeLength)
<1>1. /\ capacity \in Nat \ {0} /\ activeStart \in 0 .. capacity
      /\ activeLength \in 0 .. capacity /\ n \in Nat /\ n <= activeLength
  BY DEF EncoderInv
<1>2. /\ activeStart' = IF activeStart + n <= capacity
                           THEN activeStart + n ELSE n - (capacity - activeStart)
      /\ activeLength' = activeLength - n
      /\ UNCHANGED <<data, capacity, activeEnd>>
  BY DEF Dequeue, MoveStart
<1>3. ASSUME NEW i \in 1 .. activeLength - n PROVE At(i)' = At(n + i)
  BY <1>1, <1>2 DEF At
<1>4. Contents' = SubSeq(Contents, n + 1, activeLength)
  <2>1. Contents' = [i \in 1 .. activeLength - n |-> data[At(n + i)]]
    BY <1>1, <1>2, <1>3 DEF Contents
  <2>2. Contents \in Seq(Byte) /\ Len(Contents) = activeLength
    BY ContentsType
  <2>3. SubSeq(Contents, n + 1, activeLength) = [i \in 1 .. activeLength - n |-> Contents[n + i]]
    BY <1>1, <2>2
  <2>4. ASSUME NEW i \in 1 .. activeLength - n PROVE Contents[n + i] = data[At(n + i)]
    BY <1>1 DEF Contents
  <2> QED
    BY <2>1, <2>3, <2>4
<1>5. EncoderInv'
  <2>1. ASSUME NEW i \in 1 .. activeLength - n PROVE data'[At(i)'] \in Byte
    <3>1. n + i \in 1 .. activeLength
      BY <1>1
    <3> QED
      BY <1>2, <1>3, <3>1 DEF EncoderInv
  <2>2. activeEnd' = IF activeStart' + activeLength' <= capacity'
                       THEN activeStart' + activeLength'
                       ELSE activeStart' + activeLength' - capacity'
    BY <1>1, <1>2 DEF EncoderInv
  <2>3. activeStart' \in 0 .. capacity' /\ activeLength' \in 0 .. capacity'
    BY <1>1, <1>2
  <2> QED
    BY <1>2, <2>1, <2>2, <2>3 DEF EncoderInv
<1> QED
  BY <1>4, <1>5

-----------------------------------------------------------------------------
(* The invariant.                                                          *)

LEMMA CallKeeps ==
  ASSUME EncoderInv, NEW chunk \in Chunks, Call(chunk)
  PROVE  EncoderInv' /\ Contents' = Contents
<1>1. chunk \in Seq(Byte)
  BY EncoderAssumption
<1>2. UNCHANGED <<data, capacity, activeStart, activeEnd, activeLength>>
      /\ pc' = "enqueue" /\ input' = chunk /\ output' = <<>>
  BY DEF Call, queue
<1>3. Contents' = Contents /\ \A i : At(i)' = At(i)
  BY <1>2 DEF Contents, At
<1>4. output' \in Seq(Seq(Byte))
  BY <1>2
<1> QED
  BY <1>1, <1>2, <1>3, <1>4 DEF EncoderInv

LEMMA AppendType ==
  ASSUME NEW S, NEW s \in Seq(S), NEW e \in S
  PROVE  Append(s, e) \in Seq(S)
OBVIOUS

\* A frame leaves the buffer, whether it could be encoded or not.
LEMMA FrameLeaves ==
  ASSUME EncoderInv, Encode \/ EncodeFails
  PROVE  /\ EncoderInv' /\ activeLength > FrameLength
         /\ activeLength' = activeLength - FrameLength
         /\ Contents' = SubSeq(Contents, FrameLength + 1, activeLength)
         /\ Peek(FrameLength) = SubSeq(Contents, 1, FrameLength)
<1>1. /\ FrameLength \in 0 .. activeLength /\ activeLength > FrameLength
      /\ activeLength' = activeLength - FrameLength /\ Dequeue(FrameLength)
  BY EncoderAssumption DEF EncoderInv, Encode, EncodeFails, Dequeue
<1>2. Peek(FrameLength) \in Seq(Byte) /\ Peek(FrameLength) = SubSeq(Contents, 1, FrameLength)
  BY <1>1, PeekType
<1>3. output' \in Seq(Seq(Byte))
  <2>1. output \in Seq(Seq(Byte))
    BY DEF EncoderInv
  <2>2. output' = Append(output, Peek(FrameLength)) \/ output' = <<>>
    BY DEF Encode, EncodeFails
  <2>3. Append(output, Peek(FrameLength)) \in Seq(Seq(Byte))
    BY <1>2, <2>1, AppendType
  <2>4. <<>> \in Seq(Seq(Byte))
    OBVIOUS
  <2> QED
    BY <2>2, <2>3, <2>4, Zenon
<1>4. pc' \in {"idle", "enqueue", "encode"} /\ input' = input
  BY DEF Encode, EncodeFails, EncoderInv
<1> QED
  BY <1>1, <1>2, <1>3, <1>4, DequeueTakes

LEMMA ReturnKeeps ==
  ASSUME EncoderInv, Return \/ UNCHANGED vars
  PROVE  EncoderInv' /\ Contents' = Contents
<1>1. UNCHANGED <<data, capacity, activeStart, activeEnd, activeLength, input, output>>
      /\ (pc' = pc \/ pc' = "idle")
  BY DEF Return, vars, queue
<1>2. Contents' = Contents /\ \A i : At(i)' = At(i)
  BY <1>1 DEF Contents, At
<1> QED
  BY <1>1, <1>2 DEF EncoderInv

LEMMA EncoderStep == EncoderInv /\ [Next]_vars => EncoderInv'
BY UpgradeKeeps, EnqueueAppends, CallKeeps, FrameLeaves, ReturnKeeps DEF Next, Inside

\* The pointers of the ring buffer agree, at any capacity and for any chunks.
THEOREM EncoderInvariant == Spec => []EncoderInv
BY EncoderInit, EncoderStep, PTL DEF Spec

-----------------------------------------------------------------------------
(* Refinement.                                                             *)

\* What is given and not in a frame yet.
Pending == IF pc = "enqueue" THEN Contents \o input ELSE Contents

LEMMA FramingInit == Init => F!Init
<1> SUFFICES ASSUME Init PROVE F!Init
  OBVIOUS
<1>1. Contents = <<>>
  <2>1. activeLength = 0
    BY DEF Init
  <2> QED
    BY <2>1, EncoderInit, ContentsType
<1> QED
  BY <1>1 DEF Init, F!Init

LEMMA FramingStep == EncoderInv /\ [Next]_vars => [F!Next]_F!vars
<1> SUFFICES ASSUME EncoderInv, [Next]_vars PROVE [F!Next]_F!vars
  OBVIOUS
<1>1. Contents \in Seq(Byte) /\ Len(Contents) = activeLength
  BY ContentsType
<1>2. ASSUME NEW chunk \in Chunks, Call(chunk) PROVE F!Feed(chunk)
  <2>1. pc = "idle" /\ pc' = "enqueue" /\ input' = chunk /\ output' = <<>> /\ Contents' = Contents
    BY <1>2, CallKeeps DEF Call
  <2> QED
    BY <2>1 DEF F!Feed
<1>3. CASE Upgrade
  <2>1. pc = "enqueue" /\ UNCHANGED <<pc, input, output>> /\ Contents' = Contents
    BY <1>3, UpgradeKeeps DEF Upgrade
  <2> QED
    BY <2>1 DEF F!vars
<1>4. CASE Enqueue
  <2>1. pc = "enqueue" /\ pc' = "encode" /\ output' = output /\ Contents' = Contents \o input
    BY <1>4, EnqueueAppends DEF Enqueue
  <2> QED
    BY <2>1 DEF F!vars
<1>5. CASE Encode
  <2>1. /\ pc = "encode" /\ pc' = "encode" /\ activeLength > FrameLength
        /\ output' = Append(output, SubSeq(Contents, 1, FrameLength))
        /\ Contents' = SubSeq(Contents, FrameLength + 1, activeLength)
    BY <1>5, FrameLeaves DEF Encode
  <2>2. F!Encode
    BY <1>1, <2>1 DEF F!Encode, F!Cut
  <2> QED
    BY <2>2 DEF F!Next
<1>6. CASE EncodeFails
  <2>1. /\ pc = "encode" /\ pc' = "idle" /\ activeLength > FrameLength /\ output' = <<>>
        /\ Contents' = SubSeq(Contents, FrameLength + 1, activeLength)
    BY <1>6, FrameLeaves DEF EncodeFails
  <2>2. F!Fail
    BY <1>1, <2>1 DEF F!Fail, F!Cut
  <2> QED
    BY <2>2 DEF F!Next
<1>7. CASE Return
  <2>1. pc = "encode" /\ pc' = "idle" /\ activeLength <= FrameLength
        /\ output' = output /\ Contents' = Contents
    BY <1>7, ReturnKeeps DEF Return
  <2>2. F!Return
    BY <1>1, <2>1 DEF F!Return
  <2> QED
    BY <2>2 DEF F!Next
<1>8. CASE UNCHANGED vars
  <2>1. UNCHANGED <<pc, input, output>> /\ Contents' = Contents
    BY <1>8, ReturnKeeps DEF vars
  <2> QED
    BY <2>1 DEF F!vars
<1> QED
  BY <1>2, <1>3, <1>4, <1>5, <1>6, <1>7, <1>8 DEF Next, Inside, F!Next

\* The buffer loses, repeats and moves nothing: frames are cut from the stream.
THEOREM FramingImplemented == Spec => ImplementsFraming
<1>1. Init => F!Init
  BY FramingInit
<1>2. EncoderInv /\ [Next]_vars => [F!Next]_F!vars
  BY FramingStep
<1> QED
  BY <1>1, <1>2, EncoderInvariant, PTL DEF Spec, ImplementsFraming, F!Spec

-----------------------------------------------------------------------------
(* Chunks of at most a frame.                                              *)

\* Between calls at most a frame is left; in a call there is at most that and
\* a chunk, and the frame that is too much was not encoded yet.
Slack ==
  /\ pc \in {"idle", "enqueue"} => activeLength <= FrameLength
  /\ pc = "enqueue" => Len(input) <= FrameLength /\ output = <<>>
  /\ pc = "encode" => activeLength + FrameLength * Len(output) <= 2 * FrameLength
  /\ Len(output) <= 1

LEMMA SlackStep ==
  ASSUME EncoderInv, SmallChunks', Slack, [Next]_vars
  PROVE  Slack'
<1> USE EncoderAssumption
<1>1. activeLength \in Nat /\ Len(output) \in Nat /\ Len(input) \in Nat /\ FrameLength \in Nat
  BY DEF EncoderInv
<1>2. ASSUME NEW chunk \in Chunks, Call(chunk) PROVE Slack'
  <2>1. ~ (large \/ Len(chunk) > FrameLength)
    BY <1>2 DEF Call, SmallChunks
  <2>2. Len(chunk) \in Nat /\ Len(chunk) <= FrameLength
    <3>1. chunk \in Seq(Byte)
      OBVIOUS
    <3> QED
      BY <2>1, <3>1
  <2> QED
    BY <1>1, <1>2, <2>2 DEF Call, queue, Slack
<1>3. CASE Upgrade
  BY <1>3 DEF Upgrade, UpgradeToLargerCapacity, Slack
<1>4. CASE Enqueue
  BY <1>1, <1>4 DEF Enqueue, Write, Slack
<1>5. CASE Encode
  <2>1. Len(output') = Len(output) + 1 /\ activeLength' = activeLength - FrameLength
        /\ activeLength > FrameLength /\ pc = "encode" /\ pc' = "encode"
    BY <1>5, FrameLeaves DEF Encode, EncoderInv
  <2>2. Len(output) = 0
    BY <1>1, <2>1 DEF Slack
  <2> QED
    BY <1>1, <2>1, <2>2 DEF Slack
<1>6. CASE EncodeFails
  BY <1>1, <1>6, FrameLeaves DEF EncodeFails, Slack
<1>7. CASE Return
  BY <1>1, <1>7 DEF Return, queue, Slack
<1>8. CASE UNCHANGED vars
  BY <1>8 DEF vars, queue, Slack
<1> QED
  BY <1>2, <1>3, <1>4, <1>5, <1>6, <1>7, <1>8 DEF Next, Inside

\* Who records at most a frame now has always done so.
LEMMA StaysSmall == [Next]_vars /\ SmallChunks' => SmallChunks
BY DEF Next, Inside, Call, Upgrade, Enqueue, Encode, EncodeFails, Return, vars, SmallChunks

\* At most a frame is left between calls, and a call has at most one frame.
LEMMA SlackInvariant == Spec => [](SmallChunks => Slack)
<1>1. Init => Slack
  BY EncoderAssumption DEF Init, Slack
<1>2. EncoderInv /\ (SmallChunks => Slack) /\ [Next]_vars => (SmallChunks => Slack)'
  BY SlackStep, StaysSmall
<1> QED
  BY <1>1, <1>2, EncoderInvariant, PTL DEF Spec

\* recordingCallback drops no frame when the audio unit keeps to 20 ms.
THEOREM OneFrameEach == Spec => []OneFramePerCall
<1>1. (SmallChunks => Slack) => OneFramePerCall
  BY DEF Slack, OneFramePerCall
<1> QED
  BY <1>1, SlackInvariant, PTL

\* What is left for the next call is bounded, although nothing ever clears it.
THEOREM LeftIsBounded == Spec => []AtMostAFrameLeft
<1>1. (SmallChunks => Slack) => AtMostAFrameLeft
  BY DEF Slack, AtMostAFrameLeft
<1> QED
  BY <1>1, SlackInvariant, PTL

\* The memory of the first call is enough.
THEOREM MemoryIsBounded == Spec => []NeverGrows
<1>1. Init => NeverGrows
  BY DEF Init, NeverGrows
<1>2. EncoderInv /\ (SmallChunks => Slack) /\ NeverGrows /\ [Next]_vars => NeverGrows'
  <2> SUFFICES ASSUME EncoderInv, SmallChunks => Slack, NeverGrows, [Next]_vars,
                      SmallChunks', DefaultCapacity >= 2 * FrameLength
               PROVE  capacity' = DefaultCapacity
    BY DEF NeverGrows
  <2>0. SmallChunks
    BY StaysSmall
  <2>1. capacity = DefaultCapacity
    BY <2>0 DEF NeverGrows
  <2>2. ~ Upgrade
    <3>1. activeLength \in Nat /\ Len(input) \in Nat /\ FrameLength \in Nat /\ DefaultCapacity \in Nat
      BY EncoderAssumption DEF EncoderInv
    <3> QED
      BY <2>0, <2>1, <3>1 DEF Upgrade, Slack
  <2>3. capacity' = capacity
    BY <2>2 DEF Next, Inside, Call, Enqueue, Write, Encode, EncodeFails, Dequeue, Return, vars, queue
  <2> QED
    BY <2>1, <2>3
<1> QED
  BY <1>1, <1>2, EncoderInvariant, SlackInvariant, PTL DEF Spec
=============================================================================
