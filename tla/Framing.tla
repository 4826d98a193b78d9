------------------------------ MODULE Framing ------------------------------
(***************************************************************************)
(* What the Opus encoder promises about the samples it is given: it cuts   *)
(* their stream into frames, in order, and keeps what is left over for the *)
(* next call.  Only a frame that cannot be encoded is lost, and with it    *)
(* the frames of the same call.  OpusEncoder.tla is shown to implement     *)
(* this.                                                                   *)
(***************************************************************************)
EXTENDS Naturals, Sequences

CONSTANTS Chunks,      \* what the calls are given: sequences of bytes
          FrameLength  \* the bytes of a frame

VARIABLES pending,     \* what was given and is not in a frame yet
          frames,      \* the frames of this call
          busy         \* in a call

vars == <<pending, frames, busy>>

Init == pending = <<>> /\ frames = <<>> /\ busy = FALSE

Feed(chunk) ==
  /\ ~ busy
  /\ pending' = pending \o chunk
  /\ frames' = <<>>
  /\ busy' = TRUE

\* The next frame leaves the stream.
Cut ==
  /\ busy /\ Len(pending) > FrameLength
  /\ pending' = SubSeq(pending, FrameLength + 1, Len(pending))

Encode == Cut /\ frames' = Append(frames, SubSeq(pending, 1, FrameLength)) /\ UNCHANGED busy

Fail == Cut /\ frames' = <<>> /\ busy' = FALSE

Return ==
  /\ busy /\ Len(pending) <= FrameLength
  /\ busy' = FALSE
  /\ UNCHANGED <<pending, frames>>

Next == Encode \/ Fail \/ Return \/ \E chunk \in Chunks : Feed(chunk)

Spec == Init /\ [][Next]_vars
=============================================================================
