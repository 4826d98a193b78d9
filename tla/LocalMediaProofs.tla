-------------------------- MODULE LocalMediaProofs --------------------------
(***************************************************************************)
(* The timestamps of a sender grow, its frames keep their order and its    *)
(* blocks their sender, for every backlog shorter than the gap.            *)
(***************************************************************************)
EXTENDS LocalMedia, FiniteSetTheorems, TLAPS

-----------------------------------------------------------------------------
(* The lower bits of a time.                                               *)

\* A positive multiple of W is W or more.
LEMMA Times == ASSUME NEW W \in Nat \ {0}, NEW n \in Int, n >= 1 PROVE W * n >= W
OBVIOUS

\* A number is its quotient and its remainder...
LEMMA Parts == ASSUME NEW W \in Nat \ {0}, NEW x \in Int
  PROVE x % W \in 0 .. W - 1 /\ x \div W \in Int /\ x = W * (x \div W) + (x % W)
<1>1. PICK q \in Int, r \in 0 .. W - 1 : q = x \div W /\ r = x % W
  OBVIOUS
<1>2. x = W * q + r
  BY <1>1
<1> QED BY <1>1, <1>2

\* ...which are the only ones.
LEMMA Unique ==
  ASSUME NEW W \in Nat \ {0}, NEW x \in Int, NEW k \in Int, NEW s \in 0 .. W - 1, x = W * k + s
  PROVE x % W = s
<1> DEFINE q == x \div W
           r == x % W
<1>1. q \in Int /\ r \in 0 .. W - 1 /\ x = W * q + r
  BY Parts
<1>2. W * k + s = W * q + r
  BY <1>1
<1> HIDE DEF q, r
<1>3. W * (k - q) = r - s
  BY <1>1, <1>2
<1>4. CASE k - q >= 1
  <2>1. W * (k - q) >= W
    BY <1>1, <1>4, Times
  <2> QED BY <1>1, <1>3, <2>1
<1>5. CASE q - k >= 1
  <2>1. W * (q - k) >= W
    BY <1>1, <1>5, Times
  <2>2. W * (q - k) = s - r
    BY <1>1, <1>2
  <2> QED BY <1>1, <2>1, <2>2
<1>6. CASE k = q
  BY <1>1, <1>2, <1>6
<1>7. r = s
  BY <1>1, <1>4, <1>5, <1>6
<1> QED BY <1>7 DEF r

\* A distance shorter than W survives the cut to the lower bits.
LEMMA Ahead ==
  ASSUME NEW W \in Nat \ {0}, NEW a \in Nat, NEW b \in Nat, a - b \in 1 .. W - 1
  PROVE  ((a % W) - (b % W)) % W = a - b
<1> DEFINE q == b \div W
           r == b % W
           d == a - b
<1>1. q \in Int /\ r \in 0 .. W - 1 /\ b = W * q + r /\ d \in 1 .. W - 1
  BY Parts
<1>2. a = W * q + (r + d)
  BY <1>1
<1> HIDE DEF q, r, d
<1>3. CASE r + d < W
  <2>1. a % W = r + d
    BY <1>1, <1>2, <1>3, Unique
  <2>2. (r + d) - r = W * 0 + d /\ (r + d) - r \in Int
    BY <1>1
  <2>3. ((r + d) - r) % W = d
    BY <1>1, <2>2, Unique
  <2> QED BY <2>1, <2>3 DEF r, d
<1>4. CASE r + d >= W
  <2>1. PICK e \in 0 .. W - 1, k \in Int : e = r + d - W /\ k = q + 1 /\ a = W * k + e
    BY <1>1, <1>2, <1>4
  <2>5. a = W * k + e /\ a \in Int
    BY <2>1
  <2>2. a % W = e
    BY <2>5, Unique
  <2>3. e - r = W * (-1) + d /\ e - r \in Int /\ -1 \in Int
    BY <1>1, <2>1
  <2>4. (e - r) % W = d
    BY <1>1, <2>3, Unique
  <2> QED BY <2>2, <2>4 DEF r, d
<1> QED BY <1>1, <1>3, <1>4

-----------------------------------------------------------------------------
(* The initial state.                                                      *)

LEMMA PendingType ==
  ASSUME LocalMediaInv
  PROVE  Cardinality(pool) \in Nat /\ Len(queue) \in Nat /\ Pending \in Nat
<1>1. Cardinality(pool) \in Nat
  BY FS_CardinalityType DEF LocalMediaInv
<1>2. Len(queue) \in Nat
  BY DEF LocalMediaInv, LocalMediaTypeOK
<1> QED
  BY <1>1, <1>2 DEF Pending

LEMMA LocalMediaInit == Init => LocalMediaInv
<1> SUFFICES ASSUME Init PROVE LocalMediaInv
  OBVIOUS
<1>0. 0 % TimeWord = 0 /\ 0 \in 0 .. TimeWord - 1
  BY LocalMediaAssumption
<1>1. LocalMediaTypeOK
  <2>1. /\ pool \subseteq Nat /\ queue \in Seq(Nat) /\ frames \in Nat /\ sent \in Nat /\ now \in Nat
        /\ m_usAudioSequence \in 0 .. SeqWord - 1
        /\ m_ulLastFrameTimestamp \in Nat /\ m_ulLastPacketTimestamp \in Nat
    BY LocalMediaAssumption DEF Init
  <2> QED
    BY <1>0, <2>1 DEF Init, LocalMediaTypeOK, Unit
<1>2. IsFiniteSet(pool)
  BY FS_EmptySet DEF Init
<1>3. Stamps
  <2>1. Pending = 0
    BY FS_EmptySet DEF Init, Pending
  <2> QED
    BY <1>0, <2>1, LocalMediaAssumption DEF Init, Stamps
<1>4. Order /\ Life
  BY DEF Init, Order, Life
<1> QED
  BY <1>1, <1>2, <1>3, <1>4 DEF LocalMediaInv

-----------------------------------------------------------------------------
(* The clock, and the manager.                                             *)

\* A millisecond gives room for one more frame.
LEMMA TickKeeps == ASSUME LocalMediaInv, Tick PROVE LocalMediaInv'
<1>1. LocalMediaTypeOK' /\ IsFiniteSet(pool)'
  <2>1. now' \in Nat
    BY DEF Tick, LocalMediaInv, LocalMediaTypeOK
  <2> QED
    BY <2>1 DEF Tick, LocalMediaInv, LocalMediaTypeOK, stampVars
<1>2. Stamps'
  <2>1. Pending' = Pending
    BY DEF Tick, Pending
  <2> QED
    BY <2>1, PendingType, LocalMediaAssumption DEF Tick, LocalMediaInv, LocalMediaTypeOK, Stamps, stampVars
<1>3. Order' /\ Life'
  BY DEF Tick, LocalMediaInv, Order, Life, stampVars
<1> QED
  BY <1>1, <1>2, <1>3 DEF LocalMediaInv

LEMMA SetBackKeeps == ASSUME LocalMediaInv, SetBack PROVE LocalMediaInv'
<1>1. LocalMediaTypeOK' /\ IsFiniteSet(pool)'
  BY LocalMediaAssumption DEF SetBack, LocalMediaInv, LocalMediaTypeOK, stampVars
<1>2. Stamps'
  <2>1. Pending' = Pending
    BY DEF SetBack, Pending
  <2> QED
    BY <2>1, LocalMediaAssumption DEF SetBack, Stamps, LocalMediaInv, LocalMediaTypeOK, stampVars
<1>3. Order' /\ Life'
  BY DEF SetBack, LocalMediaInv, Order, Life, stampVars
<1> QED
  BY <1>1, <1>2, <1>3 DEF LocalMediaInv

\* A new sender has stamped nothing, and what is on its way has a name.
LEMMA OpenKeeps == ASSUME LocalMediaInv, openMediaSender PROVE LocalMediaInv'
<1>1. LocalMediaTypeOK' /\ IsFiniteSet(pool)'
  <2>1. 0 \in 0 .. TimeWord - 1
    BY LocalMediaAssumption
  <2> QED
    BY <2>1, LocalMediaAssumption DEF openMediaSender, LocalMediaInv, LocalMediaTypeOK, clockVars, Unit
<1>2. Stamps'
  <2>1. Pending' = Pending
    BY DEF openMediaSender, Pending
  <2>2. 0 % TimeWord = 0
    BY LocalMediaAssumption
  <2> QED
    BY <2>1, <2>2, LocalMediaAssumption DEF openMediaSender, LocalMediaInv, LocalMediaTypeOK, Stamps, clockVars
<1>3. Order'
  <2>1. frames \in Nat /\ (\A f \in pool : 0 < f) /\ \A i \in 1 .. Len(queue) : 0 < queue[i]
    BY DEF LocalMediaInv, LocalMediaTypeOK, Order
  <2> QED
    BY <2>1 DEF openMediaSender, LocalMediaInv, Order
<1>4. Life'
  BY DEF openMediaSender, LocalMediaInv, Life
<1> QED
  BY <1>1, <1>2, <1>3, <1>4 DEF LocalMediaInv

LEMMA DetachKeeps == ASSUME LocalMediaInv, Detach PROVE LocalMediaInv'
<1>1. Pending' = Pending
  BY DEF Detach, Pending
<1> QED
  BY <1>1 DEF Detach, LocalMediaInv, LocalMediaTypeOK, Stamps, Order, Life, clockVars, stampVars

LEMMA StopKeeps == ASSUME LocalMediaInv, Stop PROVE LocalMediaInv'
<1>1. Pending' = Pending
  BY DEF Stop, Pending
<1> QED
  BY <1>1 DEF Stop, LocalMediaInv, LocalMediaTypeOK, Stamps, Order, Life, Unit, clockVars, stampVars

\* What is left behind is on its way no more.
LEMMA DeleteKeeps == ASSUME LocalMediaInv, Delete PROVE LocalMediaInv'
<1>1. LocalMediaTypeOK' /\ IsFiniteSet(pool)'
  <2>1. left' \in BOOLEAN /\ queue' \in Seq(Nat) /\ IsFiniteSet(pool')
    BY FS_EmptySet DEF Delete, LocalMediaInv, LocalMediaTypeOK
  <2> QED
    BY <2>1 DEF Delete, LocalMediaInv, LocalMediaTypeOK, Unit, clockVars, stampVars
<1>2. Pending' = 0 /\ 0 <= Pending /\ Pending \in Nat
  BY FS_EmptySet, PendingType DEF Delete, Pending
<1>3. Stamps'
  BY <1>2, LocalMediaAssumption DEF Delete, LocalMediaInv, LocalMediaTypeOK, Stamps, clockVars, stampVars
<1>4. Order'
  BY DEF Delete, LocalMediaInv, LocalMediaTypeOK, Order, stampVars
<1>5. Life'
  BY DEF Delete, LocalMediaInv, LocalMediaTypeOK, Life
<1> QED
  BY <1>1, <1>3, <1>4, <1>5 DEF LocalMediaInv

-----------------------------------------------------------------------------
(* A frame.                                                                *)

\* It takes the room that this millisecond had kept.
LEMMA CaptureKeeps == ASSUME LocalMediaInv, recordingCallback PROVE LocalMediaInv'
<1>1. frames \in Nat /\ frames + 1 \notin pool /\ pool' = pool \cup {frames + 1}
  BY DEF recordingCallback, LocalMediaInv, LocalMediaTypeOK, Order
<1>2. IsFiniteSet(pool') /\ Cardinality(pool') = Cardinality(pool) + 1
  BY <1>1, FS_AddElement DEF LocalMediaInv
<1>3. LocalMediaTypeOK'
  <2>1. frames' \in Nat /\ pool' \subseteq Nat
    BY <1>1 DEF recordingCallback, LocalMediaInv, LocalMediaTypeOK
  <2> QED
    BY <2>1 DEF recordingCallback, LocalMediaInv, LocalMediaTypeOK, stampVars
<1>4. Pending' = Pending + 1 /\ Pending \in Nat /\ Pending < Backlog
  BY <1>2, PendingType DEF recordingCallback, Pending
<1>5. Stamps'
  BY <1>4, LocalMediaAssumption
  DEF recordingCallback, LocalMediaInv, LocalMediaTypeOK, Stamps, stampVars
<1>6. Order'
  <2>1. /\ frames' = frames + 1 /\ queue' = queue /\ sent' = sent /\ sent \in Nat
        /\ overlapped' = (overlapped \/ pool # {})
    BY DEF recordingCallback, stampVars, LocalMediaInv, LocalMediaTypeOK
  <2>2. Order /\ Len(queue) \in Nat
    BY PendingType DEF LocalMediaInv
  <2>3. /\ pool' \subseteq 1 .. frames' /\ sent' <= frames'
        /\ \A i \in 1 .. Len(queue') : queue'[i] \in 1 .. frames'
    BY <1>1, <2>1, <2>2 DEF Order
  <2>4. ASSUME ~ overlapped'
        PROVE  /\ ~ overlapped
               /\ \A f \in pool' : f = frames + 1
    BY <1>1, <2>1, <2>4
  <2>5. ASSUME ~ overlapped'
        PROVE  /\ \A f, g \in pool' : f = g
               /\ \A f \in pool' : sent' < f /\ \A i \in 1 .. Len(queue') : queue'[i] < f
               /\ \A i \in 1 .. Len(queue') : sent' < queue'[i]
               /\ \A i, j \in 1 .. Len(queue') : i < j => queue'[i] < queue'[j]
    BY <1>1, <2>1, <2>2, <2>4, <2>5 DEF Order
  <2> QED
    BY <2>3, <2>5 DEF Order
<1>7. Life'
  BY DEF recordingCallback, LocalMediaInv, Life
<1> QED
  BY <1>2, <1>3, <1>5, <1>6, <1>7 DEF LocalMediaInv

LEMMA SendKeeps ==
  ASSUME LocalMediaInv, NEW f \in pool, SendAudioData(f)
  PROVE  LocalMediaInv'
<1>1. f \in Nat /\ pool' = pool \ {f} /\ queue \in Seq(Nat)
  BY DEF SendAudioData, LocalMediaInv, LocalMediaTypeOK
<1>2. IsFiniteSet(pool') /\ Cardinality(pool') = Cardinality(pool) - 1
  BY <1>1, FS_RemoveElement DEF LocalMediaInv
<1>3. queue' = queue \/ queue' = Append(queue, f)
  BY DEF SendAudioData
<1>4. queue' \in Seq(Nat) /\ Len(queue') <= Len(queue) + 1
  BY <1>1, <1>3
<1>5. LocalMediaTypeOK'
  BY <1>1, <1>4 DEF SendAudioData, LocalMediaInv, LocalMediaTypeOK, clockVars, stampVars
<1>6. Pending' <= Pending /\ Pending' \in Int /\ Pending \in Nat
  BY <1>2, <1>4, PendingType DEF Pending
<1>7. Stamps'
  <2>1. /\ now' = now /\ stepped' = stepped /\ captured' = captured
        /\ m_ulLastFrameTimestamp' = m_ulLastFrameTimestamp
        /\ m_ulLastPacketTimestamp' = m_ulLastPacketTimestamp /\ timestamp' = timestamp
    BY DEF SendAudioData, clockVars, stampVars
  <2>2. /\ now \in Nat /\ m_ulLastFrameTimestamp \in Nat /\ m_ulLastPacketTimestamp \in Nat
        /\ Backlog \in Nat
    BY LocalMediaAssumption DEF LocalMediaInv, LocalMediaTypeOK
  <2>3. Stamps
    BY DEF LocalMediaInv
  <2>4. Pending' <= Backlog
    BY <1>6, <2>2, <2>3 DEF Stamps
  <2>5. CASE stepped
    BY <2>1, <2>3, <2>4, <2>5 DEF Stamps
  <2>6. CASE ~ stepped
    <3>1. m_ulLastFrameTimestamp <= now /\ m_ulLastPacketTimestamp <= m_ulLastFrameTimestamp + Backlog
      BY <2>3, <2>6 DEF Stamps
    <3>2. PICK room \in Nat : room = IF captured THEN 0 ELSE 1
      OBVIOUS
    <3>3. m_ulLastPacketTimestamp >= now => (m_ulLastPacketTimestamp - now) + Pending + room <= Backlog
      BY <2>3, <2>6, <3>2 DEF Stamps
    <3>4. PICK p \in Int, q \in Nat : p = Pending' /\ q = Pending /\ p <= q
      BY <1>6
    <3>5. m_ulLastPacketTimestamp >= now => (m_ulLastPacketTimestamp - now) + q + room <= Backlog
      BY <3>3, <3>4
    <3>6. m_ulLastPacketTimestamp >= now => (m_ulLastPacketTimestamp - now) + p + room <= Backlog
      <4>1. p <= q
        BY <3>4
      <4> QED
        BY <2>2, <3>5, <4>1
    <3> QED
      BY <2>1, <2>3, <2>4, <3>1, <3>2, <3>4, <3>6 DEF Stamps
  <2> QED
    BY <2>5, <2>6
<1>8. Order'
  <2>1. CASE queue' = queue
    BY <1>1, <2>1 DEF SendAudioData, LocalMediaInv, LocalMediaTypeOK, Order, stampVars
  <2>2. CASE queue' = Append(queue, f)
    <3>1. /\ Len(queue') = Len(queue) + 1 /\ Len(queue) \in Nat
          /\ \A i \in 1 .. Len(queue) : queue'[i] = queue[i]
          /\ queue'[Len(queue) + 1] = f
      BY <1>1, <2>2
    <3>2. \A i \in 1 .. Len(queue') : i \in 1 .. Len(queue) \/ i = Len(queue) + 1
      BY <3>1
    <3>3. frames' = frames /\ sent' = sent /\ overlapped' = overlapped /\ f \in 1 .. frames
      BY DEF SendAudioData, stampVars, LocalMediaInv, Order
    <3>4. pool' \subseteq 1 .. frames' /\ sent' <= frames'
      BY <1>1, <3>3 DEF LocalMediaInv, Order
    <3>5. \A i \in 1 .. Len(queue') : queue'[i] \in 1 .. frames'
      BY <3>1, <3>2, <3>3 DEF LocalMediaInv, Order
    <3>6. ASSUME ~ overlapped'
          PROVE  /\ pool' = {}
                 /\ \A i \in 1 .. Len(queue') : sent' < queue'[i]
                 /\ \A i, j \in 1 .. Len(queue') : i < j => queue'[i] < queue'[j]
      <4>1. pool' = {}
        BY <1>1, <3>3, <3>6 DEF LocalMediaInv, Order
      <4>2. \A i \in 1 .. Len(queue') : sent' < queue'[i]
        BY <3>1, <3>2, <3>3, <3>6 DEF LocalMediaInv, Order
      <4>3. ASSUME NEW i \in 1 .. Len(queue'), NEW j \in 1 .. Len(queue'), i < j
            PROVE  queue'[i] < queue'[j]
        <5>1. i \in 1 .. Len(queue)
          BY <3>1, <4>3
        <5>2. CASE j \in 1 .. Len(queue)
          BY <3>1, <3>3, <3>6, <4>3, <5>1, <5>2 DEF LocalMediaInv, Order
        <5>3. CASE j = Len(queue) + 1
          BY <3>1, <3>3, <3>6, <5>1, <5>3 DEF LocalMediaInv, Order
        <5> QED
          BY <3>2, <5>2, <5>3
      <4> QED
        BY <4>1, <4>2, <4>3
    <3> QED
      BY <3>4, <3>5, <3>6 DEF Order
  <2> QED
    BY <1>3, <2>1, <2>2
<1>9. Life'
  BY DEF SendAudioData, LocalMediaInv, Life
<1> QED
  BY <1>2, <1>5, <1>7, <1>8, <1>9 DEF LocalMediaInv

\* What the head of the queue leaves.
LEMMA Popped ==
  ASSUME LocalMediaInv, queue # <<>>, queue' = Tail(queue)
  PROVE  /\ queue' \in Seq(Nat) /\ Head(queue) = queue[1] /\ Head(queue) \in Nat
         /\ Len(queue) \in Nat \ {0} /\ Len(queue') = Len(queue) - 1
         /\ \A i \in 1 .. Len(queue') : i + 1 \in 1 .. Len(queue) /\ queue'[i] = queue[i + 1]
<1>1. queue \in Seq(Nat)
  BY DEF LocalMediaInv, LocalMediaTypeOK
<1>2. Len(queue) \in Nat \ {0} /\ Head(queue) = queue[1] /\ 1 \in 1 .. Len(queue)
  BY <1>1
<1> QED
  BY <1>1, <1>2

\* The time of the packet is behind the last one, and within a backlog of the clock.
LEMMA StampAhead ==
  ASSUME LocalMediaInv, ~ stepped, queue # <<>>
  PROVE  /\ Stamp(now) > m_ulLastPacketTimestamp
         /\ Stamp(now) <= now + Backlog
         /\ Stamp(now) > now => Stamp(now) = m_ulLastPacketTimestamp + 1 /\ m_ulLastPacketTimestamp >= now
<1>1. Pending >= 1 /\ Pending \in Nat
  <2>1. Len(queue) >= 1
    BY DEF LocalMediaInv, LocalMediaTypeOK
  <2> QED
    BY <2>1, PendingType DEF Pending
<1>2. /\ now \in Nat /\ m_ulLastFrameTimestamp \in Nat /\ m_ulLastPacketTimestamp \in Nat
      /\ m_ulLastFrameTimestamp <= now
      /\ m_ulLastPacketTimestamp <= m_ulLastFrameTimestamp + Backlog
      /\ m_ulLastPacketTimestamp >= now => m_ulLastPacketTimestamp - now + Pending <= Backlog
  BY <1>1, LocalMediaAssumption DEF LocalMediaInv, LocalMediaTypeOK, Stamps
<1> QED
  BY <1>1, <1>2, LocalMediaAssumption DEF Stamp

LEMMA ProcessKeeps == ASSUME LocalMediaInv, ProcessAudioFrame PROVE LocalMediaInv'
<1>1. queue # <<>> /\ queue' = Tail(queue)
  BY DEF ProcessAudioFrame
<1>2. m_usAudioSequence' \in 0 .. SeqWord - 1
  BY LocalMediaAssumption DEF ProcessAudioFrame, LocalMediaInv, LocalMediaTypeOK
<1>3. m_ulLastPacketTimestamp' \in Nat
  BY DEF ProcessAudioFrame, Stamp, LocalMediaInv, LocalMediaTypeOK
<1>9. /\ timestamp' = m_ulLastPacketTimestamp' % TimeWord /\ timestamp' \in 0 .. TimeWord - 1
      /\ m_ulLastPacketTimestamp' >= m_ulLastFrameTimestamp'
  <2>1. timestamp' = m_ulLastPacketTimestamp' % TimeWord
    BY DEF ProcessAudioFrame
  <2>2. Stamp(now) >= now
    BY DEF Stamp, LocalMediaInv, LocalMediaTypeOK
  <2> QED
    BY <1>3, <2>1, <2>2, LocalMediaAssumption DEF ProcessAudioFrame
<1>4. LocalMediaTypeOK' /\ IsFiniteSet(pool)'
  BY <1>1, <1>2, <1>3, <1>9, Popped DEF ProcessAudioFrame, LocalMediaInv, LocalMediaTypeOK, clockVars
<1>5. Pending' = Pending - 1 /\ Pending \in Nat /\ Pending <= Backlog
  <2>1. Pending <= Backlog
    BY DEF LocalMediaInv, Stamps
  <2> QED
    BY <1>1, <2>1, Popped, PendingType DEF ProcessAudioFrame, Pending
<1>6. Stamps'
  <2>1. now' = now /\ stepped' = stepped /\ captured' = captured /\ now >= Gap /\ now \in Nat
    BY DEF ProcessAudioFrame, clockVars, LocalMediaInv, LocalMediaTypeOK, Stamps
  <2>2. CASE stepped
    BY <1>5, <1>9, <2>1, <2>2, LocalMediaAssumption DEF Stamps
  <2>3. CASE ~ stepped
    <3>1. m_ulLastFrameTimestamp' = now /\ m_ulLastPacketTimestamp' = Stamp(now)
      BY DEF ProcessAudioFrame
    <3>2. Stamp(now) <= now + Backlog /\ Stamp(now) \in Nat
      BY <1>1, <1>3, <2>3, <3>1, StampAhead
    <3>3. CASE Stamp(now) > now
      <4>1. /\ Stamp(now) = m_ulLastPacketTimestamp + 1 /\ m_ulLastPacketTimestamp \in Nat
            /\ m_ulLastPacketTimestamp - now + Pending + (IF captured THEN 0 ELSE 1) <= Backlog
        BY <1>1, <2>3, <3>3, StampAhead DEF LocalMediaInv, LocalMediaTypeOK, Stamps
      <4> QED
        BY <1>5, <1>9, <2>1, <3>1, <3>2, <4>1, LocalMediaAssumption DEF Stamps
    <3>4. CASE Stamp(now) <= now
      BY <1>5, <1>9, <2>1, <3>1, <3>2, <3>4, LocalMediaAssumption DEF Stamps
    <3> QED
      BY <2>1, <3>2, <3>3, <3>4
  <2> QED
    BY <2>2, <2>3
<1>7. Order'
  <2>1. sent' = queue[1] /\ pool' = pool /\ frames' = frames /\ overlapped' = overlapped
    BY <1>1, Popped DEF ProcessAudioFrame
  <2>2. 1 \in 1 .. Len(queue) /\ Len(queue) \in Nat
    BY <1>1, Popped
  <2>3. Order /\ frames \in Nat
    BY DEF LocalMediaInv, LocalMediaTypeOK
  <2>4. \A i \in 1 .. Len(queue') : i \in Nat /\ i + 1 \in 1 .. Len(queue) /\ queue'[i] = queue[i + 1]
    BY <1>1, Popped
  <2>5. /\ pool' \subseteq 1 .. frames' /\ sent' <= frames'
        /\ \A i \in 1 .. Len(queue') : queue'[i] \in 1 .. frames'
    BY <2>1, <2>2, <2>3, <2>4 DEF Order
  <2>6. ASSUME ~ overlapped
        PROVE  /\ \A f \in pool : sent' < f /\ \A i \in 1 .. Len(queue') : queue'[i] < f
               /\ \A i \in 1 .. Len(queue') : sent' < queue'[i]
    BY <2>1, <2>2, <2>3, <2>4, <2>6 DEF Order
  <2>7. ASSUME ~ overlapped, NEW i \in 1 .. Len(queue'), NEW j \in 1 .. Len(queue'), i < j
        PROVE  queue'[i] < queue'[j]
    <3>1. i + 1 \in 1 .. Len(queue) /\ j + 1 \in 1 .. Len(queue) /\ i + 1 < j + 1
      BY <2>4, <2>7
    <3> QED
      BY <2>3, <2>4, <2>7, <3>1 DEF Order
  <2> QED
    BY <2>1, <2>3, <2>5, <2>6, <2>7 DEF Order
<1>8. Life'
  BY DEF ProcessAudioFrame, LocalMediaInv, Life
<1> QED
  BY <1>4, <1>6, <1>7, <1>8 DEF LocalMediaInv

LEMMA RunLeftKeeps == ASSUME LocalMediaInv, RunLeft PROVE LocalMediaInv'
<1>1. Pending' = Pending
  BY DEF RunLeft, Pending
<1> QED
  BY <1>1 DEF RunLeft, LocalMediaInv, LocalMediaTypeOK, Stamps, Order, Life, clockVars, stampVars

-----------------------------------------------------------------------------
LEMMA LocalMediaStep == LocalMediaInv /\ [Next]_vars => LocalMediaInv'
<1> SUFFICES ASSUME LocalMediaInv, [Next]_vars PROVE LocalMediaInv'
  OBVIOUS
<1>1. CASE Next
  BY <1>1, TickKeeps, SetBackKeeps, OpenKeeps, DetachKeeps, StopKeeps, DeleteKeeps, CaptureKeeps,
     SendKeeps, ProcessKeeps, RunLeftKeeps DEF Next
<1>2. CASE UNCHANGED vars
  <2>1. Pending' = Pending
    BY <1>2 DEF vars, Pending
  <2>2. LocalMediaTypeOK' /\ IsFiniteSet(pool)'
    BY <1>2 DEF LocalMediaInv, LocalMediaTypeOK, vars, clockVars, stampVars
  <2>3. Stamps'
    BY <1>2, <2>1 DEF LocalMediaInv, Stamps, vars, clockVars, stampVars
  <2>4. Order' /\ Life'
    BY <1>2 DEF LocalMediaInv, Order, Life, vars, stampVars
  <2> QED
    BY <2>2, <2>3, <2>4 DEF LocalMediaInv
<1> QED
  BY <1>1, <1>2

\* The inductive invariant of the way of a frame.
THEOREM LocalMediaInvariant == Spec => []LocalMediaInv
BY LocalMediaInit, LocalMediaStep, PTL DEF Spec

\* What changes neither the sequence number nor the last frame sent.
LEMMA OnlyProcessSends ==
  ASSUME [Next]_vars, ~ ProcessAudioFrame, ~ openMediaSender
  PROVE  m_usAudioSequence' = m_usAudioSequence /\ sent' = sent
BY DEF Next, Tick, SetBack, Detach, Stop, Delete, recordingCallback, RunLeft, SendAudioData, vars, stampVars

\* The time of the packet is ahead of the last one by one, or by no more than the silence.
LEMMA StampNear ==
  ASSUME LocalMediaInv, ~ stepped, queue # <<>>, now - m_ulLastFrameTimestamp < TimeWord \div 2
  PROVE  Stamp(now) - m_ulLastPacketTimestamp \in 1 .. TimeWord \div 2 - 1
<1>1. /\ now \in Nat /\ m_ulLastFrameTimestamp \in Nat /\ m_ulLastPacketTimestamp \in Nat
      /\ m_ulLastFrameTimestamp <= m_ulLastPacketTimestamp
  BY DEF LocalMediaInv, LocalMediaTypeOK, Stamps
<1>2. PICK half \in Nat : half = TimeWord \div 2 /\ half >= 2
  BY LocalMediaAssumption
<1>3. Stamp(now) \in Nat /\ Stamp(now) > m_ulLastPacketTimestamp
  BY <1>1, StampAhead DEF Stamp
<1>4. Stamp(now) <= now \/ Stamp(now) = m_ulLastPacketTimestamp + 1
  BY <1>1, <1>3, StampAhead
<1>. QED BY <1>1, <1>2, <1>3, <1>4

\* The time computed for a packet is later than that of the packet before, when fewer frames
\* than the gap has milliseconds are on their way and the clock is not set back; and its
\* field, whatever its width, follows the last one after a silence of less than half of
\* what the field counts.
THEOREM TimestampsAlwaysGrow == Spec => TimestampsGrow
<1>1. ASSUME LocalMediaInv, [Next]_vars,
             m_usAudioSequence' # m_usAudioSequence, sender, sender', ~ stepped
      PROVE  /\ m_ulLastPacketTimestamp' > m_ulLastPacketTimestamp
             /\ sent # 0 /\ now - m_ulLastFrameTimestamp < TimeWord \div 2
                  => Follows(timestamp', timestamp)
  <2>1. CASE ProcessAudioFrame
    <3>1. queue # <<>> /\ m_ulLastPacketTimestamp' = Stamp(now) /\ timestamp' = Stamp(now) % TimeWord
      BY <2>1 DEF ProcessAudioFrame
    <3>2. m_ulLastPacketTimestamp' > m_ulLastPacketTimestamp
      BY <1>1, <3>1, StampAhead
    <3>3. ASSUME now - m_ulLastFrameTimestamp < TimeWord \div 2
          PROVE  Follows(timestamp', timestamp)
      <4>1. PICK a \in Nat, b \in Nat : a = Stamp(now) /\ b = m_ulLastPacketTimestamp
        BY <1>1 DEF Stamp, LocalMediaInv, LocalMediaTypeOK
      <4>2. a - b \in 1 .. TimeWord \div 2 - 1
        BY <1>1, <3>1, <3>3, <4>1, StampNear
      <4>3. TimeWord \in Nat \ {0} /\ TimeWord \div 2 \in Nat /\ TimeWord \div 2 <= TimeWord
        BY LocalMediaAssumption
      <4>4. a - b \in 1 .. TimeWord - 1
        BY <4>2, <4>3
      <4>5. ((a % TimeWord) - (b % TimeWord)) % TimeWord = a - b
        BY <4>3, <4>4, Ahead
      <4>6. timestamp' = a % TimeWord /\ timestamp = b % TimeWord
        BY <1>1, <3>1, <4>1 DEF LocalMediaInv, Stamps
      <4> QED
        BY <4>2, <4>5, <4>6 DEF Follows
    <3> QED
      BY <3>2, <3>3
  <2>2. CASE openMediaSender
    BY <1>1, <2>2 DEF openMediaSender
  <2> QED
    BY <1>1, <2>1, <2>2, OnlyProcessSends
<1> QED
  BY <1>1, LocalMediaInvariant, PTL DEF Spec, TimestampsGrow

\* The timestamps stay within one backlog of the clock.
THEOREM TimestampsStayClose == Spec => []TimestampsFollowTheClock
<1>1. LocalMediaInv => TimestampsFollowTheClock
  <2> SUFFICES ASSUME LocalMediaInv, ~ stepped PROVE m_ulLastPacketTimestamp <= now + Backlog
    BY DEF TimestampsFollowTheClock
  <2> QED
    BY LocalMediaAssumption DEF LocalMediaInv, LocalMediaTypeOK, Stamps
<1> QED
  BY <1>1, LocalMediaInvariant, PTL

\* Frames keep their order as long as no two blocks of the concurrent queue overlap.
THEOREM FramesInOrder == Spec => InOrder
<1>1. ASSUME LocalMediaInv, [Next]_vars, sent' # sent, sender, sender'
      PROVE  overlapped \/ sent' > sent
  <2>1. CASE ProcessAudioFrame
    <3>1. sent' = queue[1] /\ 1 \in 1 .. Len(queue)
      BY <1>1, <2>1, Popped DEF ProcessAudioFrame
    <3> QED
      BY <1>1, <3>1 DEF LocalMediaInv, LocalMediaTypeOK, Order
  <2>2. CASE openMediaSender
    BY <1>1, <2>2 DEF openMediaSender
  <2> QED
    BY <1>1, <2>1, <2>2, OnlyProcessSends
<1> QED
  BY <1>1, LocalMediaInvariant, PTL DEF Spec, InOrder

\* A sender that is closed with nothing on its way is used by nobody.
THEOREM DrainedIsSafe == Spec => []SafeWhenDrained
<1>1. LocalMediaInv => SafeWhenDrained
  BY DEF LocalMediaInv, Life, SafeWhenDrained
<1> QED
  BY <1>1, LocalMediaInvariant, PTL
=============================================================================
