----------------------------- MODULE MCVideoChat -----------------------------
(* Values for TLC: two meetings. *)
EXTENDS VideoChatInv

CONSTANTS m1, m2, u1

TwoMeetings == {m1, m2}
=============================================================================
