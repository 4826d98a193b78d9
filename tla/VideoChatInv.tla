---------------------------- MODULE VideoChatInv ----------------------------
(***************************************************************************)
(* The inductive invariant of a video meeting: what the client will make   *)
(* of the packets that it has not read yet.                                *)
(***************************************************************************)
EXTENDS VideoChat

\* What a packet does to the receiver of u, and to the entry of u in m_UserInfoList.
Closing(p) == p.cmd \in {"EXITED", "DESTROY", "USERQUIT", "RELOGIN"}
Closes(p, u) == Closing(p) \/ (p.cmd \in {"PEER_EXIT", "REMOTEUSERQUIT"} /\ p.user = u)
Opens(p, u) ==
  \/ p.cmd = "JOINED" /\ u \in p.users
  \/ p.cmd = "PEER_JOIN" /\ p.user = u
Unlists(p, u) == p.cmd = "REMOTEUSERQUIT" /\ p.user = u
Lists(p, u) ==
  \/ p.cmd = "UPDATEUSERLIST" /\ u \in p.users
  \/ p.cmd = "REMOTEUSERLOGIN" /\ p.user = u

\* A client with receivers for open has none for u when it has read k packets of q.
ClosedAfter(q, open, k, u) ==
  \/ u \notin open /\ \A j \in 1 .. k : ~ Opens(q[j], u)
  \/ \E i \in 1 .. k : Closes(q[i], u) /\ \A j \in i + 1 .. k : ~ Opens(q[j], u)

\* A client that knows list knows u when it has read k packets of q.
KnownAfter(q, list, k, u) ==
  \/ u \in list /\ \A j \in 1 .. k : ~ Unlists(q[j], u)
  \/ \E i \in 1 .. k : Lists(q[i], u) /\ \A j \in i + 1 .. k : ~ Unlists(q[j], u)

\* It has a receiver for u when it has read all of q.
EndsOpen(q, open, list, u) ==
  \/ u \in open /\ \A j \in 1 .. Len(q) : ~ Closes(q[j], u)
  \/ \E i \in 1 .. Len(q) :
       /\ Opens(q[i], u) /\ (q[i].cmd = "PEER_JOIN" => KnownAfter(q, list, i - 1, u))
       /\ \A j \in i + 1 .. Len(q) : ~ Closes(q[j], u)

\* The news of a meeting comes between the answer to its JOIN and its end; inside says
\* that there is no end yet.
Framed(q, inside) ==
  \A i \in 1 .. Len(q) : Closing(q[i]) =>
    /\ \A k \in i + 1 .. Len(q) : q[k].cmd \in {"PEER_JOIN", "DESTROY"} =>
         \E j \in i + 1 .. k - 1 : q[j].cmd = "JOINED"
    /\ inside => \E j \in i + 1 .. Len(q) : q[j].cmd = "JOINED"

Has(q, cmd) == \E i \in 1 .. Len(q) : q[i].cmd = cmd

\* No login comes after a JOIN, and no JOIN before the list of users was asked for.
LoginFirst(q) ==
  \A i \in 1 .. Len(q) : q[i].cmd = "LOGINSERVER" => \A j \in 1 .. i - 1 : q[j].cmd # "JOIN"
AskedFirst(q) ==
  \A i \in 1 .. Len(q) : q[i].cmd = "JOIN" => \E j \in 1 .. i - 1 : q[j].cmd = "GETUSERLIST"

-----------------------------------------------------------------------------
Attends(u) == attends # NoMeeting /\ u \in members[attends]

\* The client will know whoever is logged in.
EndsKnown == \A u \in peers : KnownAfter(toClient, userInfoList, Len(toClient), u)

\* A packet will delete the manager.
EndPending == Has(toClient, "USERQUIT") \/ Has(toClient, "RELOGIN") \/ Has(toClient, "LOGINREFUSED")
Leaving == EndPending \/ Has(toServer, "QUITSERVER")

\* A session, its connection and its login.
Sessions ==
  /\ attends # NoMeeting => session
  /\ link \notin {"up", "busy"} => toServer = <<>> /\ toClient = <<>> /\ ~ session
  /\ link \in {"up", "busy"} /\ ~ session /\ ~ EndPending =>
       /\ ~ told /\ ~ Has(toClient, "LOGINSERVERED")
       /\ stranded \/ (app = "idle" /\ ~ Has(toServer, "JOIN"))
  /\ link = "up" /\ app = "join" => told \/ stranded

\* A login is not read in a meeting.
Logins ==
  ~ stranded => LoginFirst(toServer) /\ (Has(toServer, "LOGINSERVER") => attends = NoMeeting)

\* Who is logged in knows the users, or has asked for them, before he joins.
Listed ==
  link = "up" /\ session /\ ~ Leaving =>
    \/ EndsKnown
    \/ /\ told => Has(toServer, "GETUSERLIST")
       /\ ~ stranded => AskedFirst(toServer) /\ attends = NoMeeting

\* The client opens nobody twice, and closes and hears whom it should.
NeverTwice ==
  ~ stranded => \A u \in User, i \in 1 .. Len(toClient) :
    Opens(toClient[i], u) => ClosedAfter(toClient, receivers, i - 1, u)

InStep ==
  ~ stranded => \A u \in User :
    /\ link \notin {"none", "lost"} /\ ~ Attends(u) => ClosedAfter(toClient, receivers, Len(toClient), u)
    /\ link = "up" /\ ~ Leaving /\ Attends(u) => EndsOpen(toClient, receivers, userInfoList, u)

MeetingInv ==
  /\ VideoChatTypeOK /\ Sessions /\ Logins /\ Listed
  /\ Framed(toClient, attends # NoMeeting) /\ NeverTwice /\ InStep

-----------------------------------------------------------------------------
(* What the client talks with: its sender, and the meeting it knows.       *)

\* What ends the manager, what closes the sender, and what finds it open.
Ends == {"USERQUIT", "RELOGIN", "LOGINREFUSED"}
ClosesSender == {"REFUSED", "EXITED", "DESTROY"}
FindsSender == {"JOINED", "REFUSED", "DESTROY", "PEER_JOIN"}

\* A packet of cmds is read when nothing of closers has been, and open holds now; or not at all.
Finds(q, cmds, closers, open) ==
  \A k \in 1 .. Len(q) : q[k].cmd \in cmds =>
    \/ \E j \in 1 .. k - 1 : q[j].cmd \in Ends
    \/ open /\ \A j \in 1 .. k - 1 : q[j].cmd \notin closers

\* The answer to a JOIN, the news of a meeting and its end will find the sender that was
\* opened for it: open says that it is there now.
Unread(q, open) == Finds(q, FindsSender, ClosesSender, open)

\* A login is refused when the session before is over, or as the first news of a client:
\* fresh says that it has opened nothing yet.
Refusals(q, fresh) ==
  \A i \in 1 .. Len(q) : q[i].cmd = "LOGINREFUSED" =>
    \/ \E j \in 1 .. i - 1 : q[j].cmd \in {"USERQUIT", "RELOGIN"}
    \/ q[1].cmd = "LOGINREFUSED" /\ fresh

\* A JOIN that the session will live to see, and one at a time.
Asked(q) ==
  \E i \in 1 .. Len(q) : q[i].cmd = "JOIN" /\ \A j \in 1 .. i - 1 : q[j].cmd # "QUITSERVER"
AskedOnce(q) ==
  \A k \in 1 .. Len(q) : \A i \in 1 .. k - 1 : q[i].cmd = "JOIN" /\ q[k].cmd = "JOIN" =>
    \E j \in 1 .. k - 1 : q[j].cmd = "QUITSERVER"

\* No EXIT is under way when a JOIN is sent.
ExitLast(q) ==
  \A i \in 1 .. Len(q) : q[i].cmd = "JOIN" => \A j \in 1 .. i - 1 : q[j].cmd # "EXIT"

\* A JOIN is for m.
OnlyTo(q, m) == \A i \in 1 .. Len(q) : q[i].cmd = "JOIN" => q[i].mtg = m

\* Before its first session, and when it is deleted, a client has nothing open.
Beginning ==
  /\ link \in {"up", "busy"} /\ ~ session /\ ~ EndPending => toClient = <<>> /\ (stranded \/ Closed)
  /\ Refusals(toClient, ~ told /\ (stranded \/ (Closed /\ app = "idle")))
  /\ link = "none" => app = "idle" /\ (stranded \/ Closed)

Media ==
  /\ sender # "old" /\ (mic => sender = "new")
  /\ app = "join" => mtgID = joining /\ ~ Has(toServer, "EXIT") /\ ~ Has(toClient, "EXITED")

\* At most one meeting is asked for, and nothing will close the sender before the answer.
Unanswered ==
  /\ ExitLast(toServer)
  /\ ~ EndPending =>
       /\ AskedOnce(toServer)
       /\ Asked(toServer) => attends = NoMeeting
       /\ Asked(toServer) \/ attends # NoMeeting =>
            sender = "new" /\ \A cmd \in ClosesSender : ~ Has(toClient, cmd)

\* The client knows its meeting, is in none, or will be told.
InTouch ==
  link = "up" /\ ~ Leaving =>
    /\ ~ Has(toServer, "EXIT") =>
         /\ attends # NoMeeting => mtgID = attends
         /\ OnlyTo(toServer, mtgID)
    /\ (mtgID = NoMeeting /\ ~ ExitPending) \/ app = "join" =>
         /\ attends = NoMeeting /\ ~ Has(toServer, "JOIN")
         /\ ~ Has(toClient, "REFUSED") /\ ~ Has(toClient, "DESTROY")
    /\ sender # "none" =>
         Has(toServer, "JOIN") \/ attends # NoMeeting \/ \E cmd \in ClosesSender : Has(toClient, cmd)

\* A hasty application gives up all of it, and a stranded login most of it for a time.
TalkInv ==
  ~ hasty => Beginning /\ (~ stranded => Media /\ Unread(toClient, sender = "new") /\ Unanswered /\ InTouch)

-----------------------------------------------------------------------------
(* Whom the client hears, and where it takes itself to be.                 *)

\* The answers to a JOIN, and what fills the ears.
Answers == {"JOINED", "REFUSED"}
MeetingNews == {"JOINED", "PEER_JOIN"}

\* Who hears anybody has a sender, is in a meeting or will be told that it ended, and waits for
\* no answer: an answer is read with empty ears.
EarsInv ==
  ~ hasty /\ ~ stranded =>
    /\ receivers # {} => sender = "new"
    /\ Finds(toClient, Answers, MeetingNews, receivers = {})
    /\ link \in {"up", "busy"} /\ ~ EndPending /\ attends = NoMeeting =>
         \/ receivers = {} /\ \A cmd \in MeetingNews : ~ Has(toClient, cmd)
         \/ \E cmd \in ClosesSender : Has(toClient, cmd)

VideoInv == MeetingInv /\ TalkInv /\ EarsInv

\* There is a JOIN to be sent, read or answered.
Asking == app = "join" \/ Has(toServer, "JOIN") \/ \E cmd \in Answers : Has(toClient, cmd)

\* What the client promises: see Hearing.tla.
phase ==
  IF stranded THEN "adrift"
  ELSE IF hasty THEN "hasty"
  ELSE IF link # "up" \/ Leaving THEN "offline"
  ELSE IF sender = "none" /\ app = "idle" THEN "outside"
  ELSE IF Asking THEN "entering"
  ELSE "inside"

H == INSTANCE Hearing WITH heard <- receivers, forgotten <- lost

\* A client hears nobody outside of a meeting and enters it with nobody in its ears; it hears
\* who was there and who comes, once, and forgets no receiver (CVideoChat.cpp, OnDispatchMtgCmd
\* and OnDispatchMtgCmdReg).
ImplementsHearing == H!Spec
=============================================================================
