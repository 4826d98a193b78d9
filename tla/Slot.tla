-------------------------------- MODULE Slot --------------------------------
(***************************************************************************)
(* What a facade promises about its managers: it keeps one at a time, it   *)
(* takes a new one only when it has none, and it lets one go only when its *)
(* connection is closed.  One that it takes early, while what is left of   *)
(* another is still going, it may lose.  IntercomFacade.tla is shown to    *)
(* implement this.                                                         *)
(***************************************************************************)
CONSTANTS Manager,  \* the managers that are ever created
          NULL      \* no manager

VARIABLES slot,     \* the manager in use
          open,     \* its connection is open
          used,     \* the managers that were ever in use
          early,    \* the one in use was taken while another was going
          going     \* one that was let go is not gone yet

vars == <<slot, open, used, early, going>>

Init == slot = NULL /\ open = FALSE /\ used = {} /\ early = FALSE /\ going = FALSE

Take(m) ==
  /\ slot = NULL /\ m \notin used
  /\ slot' = m
  /\ open' = TRUE
  /\ used' = used \cup {m}
  /\ early' = going
  /\ UNCHANGED going

Close ==
  /\ slot # NULL /\ open
  /\ open' = FALSE
  /\ UNCHANGED <<slot, used, early, going>>

LetGo ==
  /\ slot # NULL /\ ~ open
  /\ slot' = NULL
  /\ early' = FALSE
  /\ going' = TRUE
  /\ UNCHANGED <<open, used>>

Gone ==
  /\ going
  /\ going' = FALSE
  /\ UNCHANGED <<slot, open, used, early>>

Lose ==
  /\ early
  /\ slot' = NULL
  /\ open' = FALSE
  /\ early' = FALSE
  /\ UNCHANGED <<used, going>>

Next == Close \/ LetGo \/ Gone \/ Lose \/ \E m \in Manager : Take(m)

Spec == Init /\ [][Next]_vars
=============================================================================
