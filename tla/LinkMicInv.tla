----------------------------- MODULE LinkMicInv -----------------------------
(***************************************************************************)
(* The inductive invariant of a room: what an anchor will make of the      *)
(* packets that it has not read yet, and under which id a guest sends.     *)
(***************************************************************************)
EXTENDS LinkMic

\* What a packet says of u, and what it makes of the receiver of u.
Concerns(p, u) ==
  \/ p.cmd \in {"REMOTEUSERLOGIN", "REMOTEUSERQUIT"} /\ p.user = u
  \/ p.cmd = "UPDATEUSERLIST" /\ p.ids[u] # None
IdIn(p, u) ==
  CASE p.cmd = "REMOTEUSERLOGIN" -> p.id
    [] p.cmd = "UPDATEUSERLIST"  -> p.ids[u]
    [] OTHER                     -> None

\* An anchor that listens to u under x does so under y when it has read k packets of q.
Becomes(q, k, u, x, y) ==
  \/ x = y /\ \A i \in 1 .. k : ~ Concerns(q[i], u)
  \/ \E i \in 1 .. k : /\ Concerns(q[i], u) /\ IdIn(q[i], u) = y
                       /\ \A j \in i + 1 .. k : ~ Concerns(q[j], u)

Has(q, cmd) == \E i \in 1 .. Len(q) : q[i].cmd = cmd

-----------------------------------------------------------------------------
\* What ends the manager; nothing is closed by the first.
Ends == {"LOGINREFUSED", "RELOGIN", "USERQUIT"}
EndPending(c) == \E cmd \in Ends : Has(toClient[c], cmd)

\* c has nothing open that its next session could find there.
Fresh(c) == openLocalUser[c] = None /\ openRemoteUser[c] = Nobody

\* A session has a connection, and a queue has a session.
Sessions(c) ==
  /\ logged[c] # None => link[c] \in {"up", "busy"}
  /\ link[c] \notin {"up", "busy"} => toServer[c] = <<>> /\ toClient[c] = <<>>
  /\ logged[c] = None /\ ~ EndPending(c) => toClient[c] = <<>>

\* Before a session, and after the last one, nothing is open but what CS_RESTARTED left.
Beginning(c) ==
  /\ link[c] \in {"none", "connecting", "down"} => stranded[c] \/ Fresh(c)
  /\ link[c] \in {"up", "busy"} /\ logged[c] = None /\ ~ EndPending(c) => stranded[c] \/ Fresh(c)

\* A login is refused when the session before is over, or as the first news of a client that
\* has nothing open.
Refusals(q, fresh) ==
  \A i \in 1 .. Len(q) : q[i].cmd = "LOGINREFUSED" =>
    \/ \E j \in 1 .. i - 1 : q[j].cmd \in Ends
    \/ i = 1 /\ fresh

\* The last login on its way has this id.
LastLogin(q, id) ==
  \A i \in 1 .. Len(q) : q[i].cmd = "LOGINSERVER" =>
    q[i].id = id \/ \E j \in i + 1 .. Len(q) : q[j].cmd = "LOGINSERVER"

\* A session has the last id that was drawn, or a login with it is on its way.
Ids(c) ==
  /\ link[c] \notin {"none", "connecting"} => audioID[c] # None
  /\ logged[c] # None => logged[c] = audioID[c] \/ Has(toServer[c], "LOGINSERVER")
  /\ LastLogin(toServer[c], audioID[c])

\* A sender has the last id, or stale says that it has not; the microphone is for a sender;
\* a guest with a session has one, or will read LOGINSERVERED.
Senders(c) ==
  /\ openLocalUser[c] <= audioID[c]
  /\ stale[c] <=> openLocalUser[c] \notin {None, audioID[c]}
  /\ mic[c] => openLocalUser[c] # None
  /\ c \notin Anchor /\ logged[c] # None /\ ~ EndPending(c) =>
       openLocalUser[c] # None \/ Has(toClient[c], "LOGINSERVERED")

\* What the application shut is closed.
Shut(c) == \A u \in shut[c] : openRemoteUser[c][u] = None

\* The ids an anchor is to listen to.
Others(a) == [logged EXCEPT ![a] = None]

\* Nobody is opened twice by a login: a user comes back when its receiver is closed.
NeverTwice(q, heard) ==
  \A i \in 1 .. Len(q) : q[i].cmd = "REMOTEUSERLOGIN" =>
    \/ \E j \in 1 .. i - 1 : q[j].cmd \in Ends
    \/ Becomes(q, i - 1, q[i].user, heard[q[i].user], None)

\* Nobody is heard in the end under an id that is not his.
InStep(q, heard, ids) ==
  \A u \in Client : \E y \in {None, ids[u]} : Becomes(q, Len(q), u, heard[u], y)

\* Everybody is heard in the end, but who was shut and says nothing.
Complete(q, heard, ids, closed) ==
  \A u \in Client :
    \/ Becomes(q, Len(q), u, heard[u], ids[u])
    \/ u \in closed /\ \A i \in 1 .. Len(q) : ~ Concerns(q[i], u)

\* Who is logged in will hear everybody when it has read the list.
Hearing(a) ==
  a \in Anchor /\ ~ stranded[a] =>
    /\ NeverTwice(toClient[a], openRemoteUser[a])
    /\ logged[a] # None /\ ~ EndPending(a) =>
         /\ InStep(toClient[a], openRemoteUser[a], Others(a))
         /\ \/ Has(toClient[a], "LOGINSERVERED") \/ Has(toServer[a], "GETUSERLIST")
            \/ Complete(toClient[a], openRemoteUser[a], Others(a), shut[a])

Good(c) ==
  /\ Sessions(c) /\ Beginning(c) /\ Refusals(toClient[c], stranded[c] \/ Fresh(c))
  /\ Ids(c) /\ Senders(c) /\ Shut(c) /\ Hearing(c)

LinkMicInv == LinkMicTypeOK /\ \A c \in Client : Good(c)
=============================================================================
