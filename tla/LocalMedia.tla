----------------------------- MODULE LocalMedia -----------------------------
(***************************************************************************)
(* The way of a frame of audio from the audio unit (AudioUnitTool.m) to    *)
(* the media sender (OpenLocalUser.cpp), while the manager opens and       *)
(* closes that sender (openMediaSender, closeMediaSender).                 *)
(*                                                                         *)
(* The record callback hands each frame to a block on a concurrent queue,  *)
(* which hands it to a block on the sender's serial queue, which stamps    *)
(* and sends it.  Nobody waits for either block.                           *)
(***************************************************************************)
EXTENDS Integers, Sequences, FiniteSets

CONSTANTS Gap,       \* 120 ms: a longer silence restarts the timestamps
          SeqWord,   \* 2^16, the values of m_usAudioSequence
          TimeWord,  \* 2^32, the values of the timestamp in a packet
          Backlog,   \* bound: frames on their way at once
          MaxTime,   \* bound: of the clock
          MaxFrames  \* bound: frames captured

ASSUME LocalMediaAssumption ==
  /\ Gap \in Nat /\ Backlog \in Nat /\ MaxTime \in Nat /\ MaxFrames \in Nat
  /\ SeqWord \in Nat \ {0, 1}
  /\ TimeWord \in Nat /\ TimeWord >= 4
  /\ Backlog < Gap

VARIABLES
  now,        \* gettimeofday, in milliseconds
  stepped,    \* history: the clock was set back
  captured,   \* a frame was captured in this millisecond
  frames,     \* frames captured so far: the last one's name
  unit,       \* AudioUnitTool: see Unit
  attached,   \* its m_SendCmdManage is not NULL
  pool,       \* frames in a block on the concurrent queue
  overlapped, \* history: two of those blocks were there at once
  queue,      \* m_sendAudioQueue: frames in its blocks
  sender,     \* m_OpenLocalUser is not NULL
  left,       \* blocks are left that use an object that was deleted
  dead,       \* a deleted object was used
  m_usAudioSequence, m_ulLastFrameTimestamp, m_ulLastPacketTimestamp,
  sent,       \* the frame sent last by this sender, 0: none
  timestamp   \* the timestamp in its packet

clockVars == <<now, stepped, captured>>
stampVars == <<m_usAudioSequence, m_ulLastFrameTimestamp, m_ulLastPacketTimestamp, sent, timestamp>>
vars == <<clockVars, frames, unit, attached, pool, overlapped, queue, sender, left, dead, stampVars>>

Unit == {"none", "started", "stopped"}

Pending == Cardinality(pool) + Len(queue)

LocalMediaTypeOK ==
  /\ now \in Nat /\ stepped \in BOOLEAN /\ captured \in BOOLEAN
  /\ frames \in Nat
  /\ unit \in Unit /\ attached \in BOOLEAN
  /\ pool \subseteq Nat /\ overlapped \in BOOLEAN /\ queue \in Seq(Nat)
  /\ sender \in BOOLEAN /\ left \in BOOLEAN /\ dead \in BOOLEAN
  /\ m_usAudioSequence \in 0 .. SeqWord - 1
  /\ m_ulLastFrameTimestamp \in Nat /\ m_ulLastPacketTimestamp \in Nat
  /\ sent \in Nat /\ timestamp \in 0 .. TimeWord - 1

Init ==
  /\ now = Gap /\ stepped = FALSE /\ captured = FALSE
  /\ frames = 0
  /\ unit = "none" /\ attached = FALSE
  /\ pool = {} /\ overlapped = FALSE /\ queue = <<>>
  /\ sender = FALSE /\ left = FALSE /\ dead = FALSE
  /\ m_usAudioSequence = 0 /\ m_ulLastFrameTimestamp = 0 /\ m_ulLastPacketTimestamp = 0
  /\ sent = 0 /\ timestamp = 0

-----------------------------------------------------------------------------
(* The clock of the device, which its owner, or the network, may set.      *)

Tick ==
  /\ ~ dead /\ now < MaxTime
  /\ now' = now + 1 /\ captured' = FALSE
  /\ UNCHANGED <<stepped, frames, unit, attached, pool, overlapped, queue, sender, left, dead, stampVars>>

SetBack ==
  /\ ~ dead /\ ~ stepped
  /\ now' \in Gap .. now - 1
  /\ stepped' = TRUE
  /\ UNCHANGED <<captured, frames, unit, attached, pool, overlapped, queue, sender, left, dead, stampVars>>

-----------------------------------------------------------------------------
(* The manager, which holds m_mutex.                                       *)

\* A new sender, with its queue and its members reset; the unit is made and started.
openMediaSender ==
  /\ ~ dead /\ ~ sender
  /\ sender' = TRUE /\ attached' = TRUE /\ unit' = "started"
  /\ m_usAudioSequence' = 0 /\ m_ulLastFrameTimestamp' = 0 /\ m_ulLastPacketTimestamp' = 0
  /\ sent' = 0 /\ timestamp' = 0
  /\ UNCHANGED <<clockVars, frames, pool, overlapped, queue, left, dead>>

\* closeMediaSender takes three steps.  The unit loses its manager...
Detach ==
  /\ ~ dead /\ sender /\ attached
  /\ attached' = FALSE
  /\ UNCHANGED <<clockVars, frames, unit, pool, overlapped, queue, sender, left, dead, stampVars>>

\* ...and is stopped: the callback comes no more...
Stop ==
  /\ ~ dead /\ sender /\ ~ attached /\ unit = "started"
  /\ unit' = "stopped"
  /\ UNCHANGED <<clockVars, frames, attached, pool, overlapped, queue, sender, left, dead, stampVars>>

\* ...and the unit, the queue, the packet and the sender are given back.  The blocks that
\* have not run keep pointing to them.
Delete ==
  /\ ~ dead /\ sender /\ ~ attached /\ unit = "stopped"
  /\ unit' = "none" /\ sender' = FALSE
  /\ left' = (left \/ Pending > 0)
  /\ pool' = {} /\ queue' = <<>>
  /\ UNCHANGED <<clockVars, frames, attached, overlapped, dead, stampVars>>

-----------------------------------------------------------------------------
(* The audio thread.                                                       *)

\* recordingCallback, when the encoder returned a frame.  A frame is 20 ms: there is not
\* more than one in a millisecond.
recordingCallback ==
  /\ ~ dead /\ unit = "started" /\ ~ captured
  /\ frames < MaxFrames /\ Pending < Backlog
  /\ captured' = TRUE
  /\ frames' = frames + 1
  /\ pool' = pool \cup {frames + 1}
  /\ overlapped' = (overlapped \/ pool # {})
  /\ dead' = ~ sender
  /\ UNCHANGED <<now, stepped, unit, attached, queue, sender, left, stampVars>>

-----------------------------------------------------------------------------
(* The blocks.                                                             *)

\* SendPacket, SendAudioData of the manager and of the sender.
SendAudioData(f) ==
  /\ ~ dead /\ f \in pool
  /\ pool' = pool \ {f}
  /\ queue' = IF attached THEN Append(queue, f) ELSE queue
  /\ UNCHANGED <<clockVars, frames, unit, attached, overlapped, sender, left, dead, stampVars>>

\* Mutants: the time as it is; the two differences mixed up.
StampNow(t) == t

StampSwapped(t) ==
  IF t - m_ulLastFrameTimestamp \in 0 .. Gap - 1 /\ m_ulLastPacketTimestamp < t
    THEN m_ulLastPacketTimestamp + 1
    ELSE t

\* The time stamped on a packet made at t.  The differences are unsigned: a time before the
\* last frame counts as a long silence, and the smaller one tells which time is ahead.
Stamp(t) ==
  IF t - m_ulLastFrameTimestamp \in 0 .. Gap - 1 /\ m_ulLastPacketTimestamp >= t
    THEN m_ulLastPacketTimestamp + 1
    ELSE t

\* Mutant: a queue that is not serial.
ProcessAny ==
  /\ ~ dead /\ queue # <<>>
  /\ \E i \in 1 .. Len(queue) :
       /\ sent' = queue[i]
       /\ queue' = SubSeq(queue, 1, i - 1) \o SubSeq(queue, i + 1, Len(queue))
  /\ m_ulLastPacketTimestamp' = Stamp(now) /\ m_ulLastFrameTimestamp' = now
  /\ timestamp' = Stamp(now) % TimeWord
  /\ m_usAudioSequence' = (m_usAudioSequence + 1) % SeqWord
  /\ UNCHANGED <<clockVars, frames, unit, attached, pool, overlapped, sender, left, dead>>

\* The packet's field takes the lower bits of the time.
ProcessAudioFrame ==
  /\ ~ dead /\ queue # <<>>
  /\ queue' = Tail(queue) /\ sent' = Head(queue)
  /\ m_ulLastPacketTimestamp' = Stamp(now) /\ m_ulLastFrameTimestamp' = now
  /\ timestamp' = Stamp(now) % TimeWord
  /\ m_usAudioSequence' = (m_usAudioSequence + 1) % SeqWord
  /\ UNCHANGED <<clockVars, frames, unit, attached, pool, overlapped, sender, left, dead>>

\* A block that was left behind runs.
RunLeft ==
  /\ ~ dead /\ left
  /\ dead' = TRUE
  /\ UNCHANGED <<clockVars, frames, unit, attached, pool, overlapped, queue, sender, left, stampVars>>

Next ==
  \/ Tick \/ SetBack
  \/ openMediaSender \/ Detach \/ Stop \/ Delete
  \/ recordingCallback \/ ProcessAudioFrame \/ RunLeft
  \/ \E f \in pool : SendAudioData(f)

Spec == Init /\ [][Next]_vars

-----------------------------------------------------------------------------
(* Properties.                                                             *)

\* s follows t, in the arithmetic of the timestamp field.
Follows(s, t) == (s - t) % TimeWord \in 1 .. TimeWord \div 2 - 1

\* The time computed for a packet is later than that of the packet before, however many
\* frames come in one burst and however long the silence between two bursts, as long as the
\* clock is not set back (OpenLocalUser.cpp 350-363).  The field in the packet is narrower
\* and wraps (367): it follows the last one, as numbers of its width do, when the silence
\* was shorter than half of what it counts.
TimestampsGrow ==
  [][m_usAudioSequence' # m_usAudioSequence /\ sender /\ sender' /\ ~ stepped
       => /\ m_ulLastPacketTimestamp' > m_ulLastPacketTimestamp
          /\ sent # 0 /\ now - m_ulLastFrameTimestamp < TimeWord \div 2
               => Follows(timestamp', timestamp)]_vars

\* The timestamps run ahead of the clock by no more than the frames of one backlog: what
\* bursts add is given back by the clock (356-361).
TimestampsFollowTheClock == ~ stepped => m_ulLastPacketTimestamp <= now + Backlog

\* Frames are sent in the order in which they were captured, unless one was captured while
\* the block of another had not run: the queue of those blocks is concurrent
\* (AudioUnitTool.m 72; OpenLocalUser.cpp 77, 233).
InOrder == [][sent' # sent /\ sender' /\ sender => overlapped \/ sent' > sent]_vars

\* Nothing uses a unit or a sender that was deleted, unless it was deleted while a frame was
\* on its way: closing waits for no block (CIntercomManage.cpp 733-750).
SafeWhenDrained == dead => left

-----------------------------------------------------------------------------
(* What holds in every state, and carries the properties over a step.      *)

\* A timestamp that has reached the clock leaves room, within one backlog, for what is on
\* its way and for what may still be captured in this millisecond.
Stamps ==
  /\ now >= Gap /\ Pending <= Backlog
  /\ m_ulLastPacketTimestamp >= m_ulLastFrameTimestamp
  /\ timestamp = m_ulLastPacketTimestamp % TimeWord
  /\ ~ stepped =>
       /\ m_ulLastFrameTimestamp <= now
       /\ m_ulLastPacketTimestamp <= m_ulLastFrameTimestamp + Backlog
       /\ m_ulLastPacketTimestamp >= now =>
            (m_ulLastPacketTimestamp - now) + Pending + (IF captured THEN 0 ELSE 1) <= Backlog

\* Without overlap, what was sent precedes what is queued, and that what is in a block.
Order ==
  /\ pool \subseteq 1 .. frames
  /\ sent <= frames
  /\ \A i \in 1 .. Len(queue) : queue[i] \in 1 .. frames
  /\ ~ overlapped =>
       /\ \A f, g \in pool : f = g
       /\ \A f \in pool : sent < f /\ \A i \in 1 .. Len(queue) : queue[i] < f
       /\ \A i \in 1 .. Len(queue) : sent < queue[i]
       /\ \A i, j \in 1 .. Len(queue) : i < j => queue[i] < queue[j]

\* While the unit runs, its sender is there.
Life == (unit = "started" => sender) /\ (dead => left)

\* The inductive invariant.
LocalMediaInv == LocalMediaTypeOK /\ IsFiniteSet(pool) /\ Stamps /\ Order /\ Life
=============================================================================
