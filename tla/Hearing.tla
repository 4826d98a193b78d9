------------------------------- MODULE Hearing -------------------------------
(***************************************************************************)
(* Whom a client of the video meetings hears.  It enters a meeting with    *)
(* nobody in its ears, hears whoever is there when it is let in, then each *)
(* who comes, once, until he goes or the meeting ends; outside of a        *)
(* meeting it hears nobody; and no receiver is forgotten, which nobody     *)
(* could close any more.  VideoChat.tla implements this.  An application   *)
(* that does not wait for its answers is promised the last only, a client  *)
(* whose login left the media of a meeting behind nothing.                 *)
(***************************************************************************)
CONSTANT User

VARIABLES phase,    \* see Phase
          heard,    \* the users who are heard
          forgotten \* the users whose receiver was forgotten

vars == <<phase, heard, forgotten>>

\* "offline": without a session, or it is about to end.  "entering": asked, and not
\* answered.  "hasty": the application does not wait.  "adrift": a login left media behind.
Phase == {"offline", "outside", "entering", "inside", "hasty", "adrift"}
Waits == phase \notin {"hasty", "adrift"}

Init == phase = "offline" /\ heard = {} /\ forgotten = {}

LogIn ==
  /\ phase = "offline" /\ heard = {}
  /\ phase' = "outside"
  /\ UNCHANGED <<heard, forgotten>>

Ask ==
  /\ phase = "outside"
  /\ phase' = "entering"
  /\ UNCHANGED <<heard, forgotten>>

\* The answer, with those who are there.
Admitted(S) ==
  /\ phase = "entering" /\ heard = {}
  /\ phase' = "inside"
  /\ heard' = S
  /\ UNCHANGED forgotten

Comes(u) ==
  /\ phase = "inside" /\ u \notin heard
  /\ heard' = heard \cup {u}
  /\ UNCHANGED <<phase, forgotten>>

Goes(u) ==
  /\ phase = "inside" /\ u \in heard
  /\ heard' = heard \ {u}
  /\ UNCHANGED <<phase, forgotten>>

\* Refused, left or destroyed.
Ended ==
  /\ phase \in {"entering", "inside"}
  /\ phase' = "outside"
  /\ heard' = {}
  /\ UNCHANGED forgotten

LogOut ==
  /\ Waits
  /\ phase' = "offline"
  /\ UNCHANGED <<heard, forgotten>>

\* What is still to be read of a session that ends.
Late ==
  /\ phase = "offline"
  /\ \E S \in SUBSET User :
       \/ heard' = heard \ S
       \/ heard \cap S = {} /\ heard' = heard \cup S
  /\ UNCHANGED <<phase, forgotten>>

\* A new manager.
Anew ==
  /\ phase \in {"offline", "hasty", "adrift"}
  /\ phase' \in {"offline", "hasty"} /\ (phase # "adrift" => phase' = phase)
  /\ heard' = {} /\ forgotten' = {}

\* The application asks and has not waited, or a login leaves media behind.
Drift ==
  /\ \/ Waits /\ phase' = "hasty"
     \/ phase # "adrift" /\ phase' = "adrift"
  /\ UNCHANGED <<heard, forgotten>>

Hasty ==
  /\ phase = "hasty"
  /\ heard' \in SUBSET User
  /\ UNCHANGED <<phase, forgotten>>

Adrift ==
  /\ phase = "adrift"
  /\ heard' \in SUBSET User /\ forgotten' \in SUBSET User
  /\ UNCHANGED phase

\* What was left behind is closed.
Ashore ==
  /\ phase = "adrift"
  /\ phase' \in {"offline", "outside", "hasty"}
  /\ heard' = {}
  /\ UNCHANGED forgotten

Next ==
  \/ LogIn \/ Ask \/ Ended \/ LogOut \/ Late \/ Anew \/ Drift \/ Hasty \/ Adrift \/ Ashore
  \/ \E S \in SUBSET User : Admitted(S)
  \/ \E u \in User : Comes(u) \/ Goes(u)

Spec == Init /\ [][Next]_vars
=============================================================================
