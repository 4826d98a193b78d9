------------------------------- MODULE Floor -------------------------------
(***************************************************************************)
(* What the push-to-talk service promises about a floor (the room, or one  *)
(* group): it is held by at most one client, only its holder talks on it,  *)
(* and it is taken back only from a client that has stopped talking.       *)
(* Intercom.tla is shown to implement this.                                *)
(***************************************************************************)
CONSTANTS Client,   \* the users of one room
          Floors,   \* the room and its groups
          NoOne     \* nobody holds the floor

VARIABLES holder,   \* the client each floor was granted to
          talking   \* the clients that are talking on each floor

vars == <<holder, talking>>

Init == /\ holder  = [f \in Floors |-> NoOne]
        /\ talking = [f \in Floors |-> {}]

Grant(c, f) ==
  /\ holder[f] = NoOne
  /\ holder' = [holder EXCEPT ![f] = c]
  /\ UNCHANGED talking

Talk(c, f) ==
  /\ holder[f] = c
  /\ talking' = [talking EXCEPT ![f] = {c}]
  /\ UNCHANGED holder

Hush(c, f) ==
  /\ talking[f] = {c}
  /\ talking' = [talking EXCEPT ![f] = {}]
  /\ UNCHANGED holder

\* One floor is given back, or all those of a client that leaves: never one
\* somebody still talks on.
Free(S) ==
  /\ \A f \in S : talking[f] = {}
  /\ holder' = [f \in Floors |-> IF f \in S THEN NoOne ELSE holder[f]]
  /\ UNCHANGED talking

Next == \/ \E c \in Client, f \in Floors : Grant(c, f) \/ Talk(c, f) \/ Hush(c, f)
        \/ \E S \in SUBSET Floors : Free(S)

Spec == Init /\ [][Next]_vars
=============================================================================
