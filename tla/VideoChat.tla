------------------------------ MODULE VideoChat ------------------------------
(***************************************************************************)
(* A video meeting, as one client sees it (class/CVideoChat/CVideoChat.cpp *)
(* behind VideoChatMgr.c).                                                 *)
(*                                                                         *)
(* The application asks to join and to exit; the server answers with       *)
(* MTGCMDREQ, says with MTGCMD what the other users do, and the handlers   *)
(* open and close the media.  joinMtg writes m_mtgID first and connects a  *)
(* sender before it asks, so it is two steps.  The handlers run one at a   *)
(* time under m_mutex and are one step each.                               *)
(*                                                                         *)
(* A login while there is a manager is in MediaFacades.                    *)
(*                                                                         *)
(* The server, the connection and the other users are not in the           *)
(* repository.  The connection is FIFO and loses what is in flight only    *)
(* with the session.  Packets that change nothing (USERMEDIASTATUS,        *)
(* SIGNALINGTRANSFER, INVITEMTGUSER) are left out, and so is the camera.   *)
(***************************************************************************)
EXTENDS Naturals, Sequences, FiniteSets

CONSTANTS Meeting,     \* meeting ids
          NoMeeting,   \* the empty m_mtgID
          User,        \* the other users
          MaxToServer, \* a call of the application waits for room here
          MaxToClient  \* the server waits while the client has more unread

ASSUME VideoChatAssumption ==
  /\ NoMeeting \notin Meeting
  /\ MaxToServer \in Nat /\ MaxToClient \in Nat

VARIABLES
  link,         \* the manager and its connection: see Link
  told,         \* the application has seen CS_LOGINED, and nothing ended that login since
  app,          \* "join": in joinMtg, m_mtgID is written and nothing sent
  joining,      \* the argument of joinMtg
  mtgID,        \* m_mtgID
  sender,       \* m_OpenLocalUser.  "old": opened under the m_audioID of an earlier login
  mic,          \* the audio unit runs and gives its frames to this manager
  receivers,    \* keys of m_pOpenRemoteUser_map
  lost,         \* users whose receiver was overwritten in the map, still open
  userInfoList, \* keys of m_UserInfoList
  stranded,     \* history: a login in, or on the way into, a meeting, and nothing closed since
  toServer,     \* packets in flight
  toClient,
  peers,        \* server: the other users who are logged in
  members,      \* server: which of them are in each meeting
  session,      \* server: the client is logged in
  attends,      \* server: the meeting the client is in
  hasty         \* history: joinMtg was called before the answer to exitMtg was read

mediaVars  == <<sender, mic, receivers, lost, stranded>>
appVars    == <<told, app, joining, mtgID>>
serverVars == <<peers, members, session, attends>>
chatVars == <<link, appVars, mediaVars, userInfoList, toServer, toClient, serverVars>>
vars == <<chatVars, hasty>>

\* "none": no manager.  "busy": CS_BUSY, XNet is reconnecting.  "lost": the server
\* has dropped the session, the client does not know yet.  "down": it does.
Link == {"none", "connecting", "up", "busy", "lost", "down"}

Packet(cmd) == [cmd |-> cmd]
About(cmd, u) == [cmd |-> cmd, user |-> u]
Join(m) == [cmd |-> "JOIN", mtg |-> m]
Users(cmd, S) == [cmd |-> cmd, users |-> S]

\* JOIN and EXIT are MTGCMD with that MTGCMD.
ToServer == [cmd : {"LOGINSERVER", "GETUSERLIST", "QUITSERVER", "EXIT"}]
              \cup [cmd : {"JOIN"}, mtg : Meeting]

\* JOINED, REFUSED and EXITED are the MTGCMDREQ that answer JOIN and EXIT; PEER_JOIN,
\* PEER_EXIT and DESTROY are MTGCMD.  LOGINREFUSED is LOGINSERVERED with an error.
ToClient ==
  [cmd : {"LOGINSERVERED", "LOGINREFUSED", "RELOGIN", "USERQUIT", "REFUSED", "EXITED", "DESTROY"}]
    \cup [cmd : {"REMOTEUSERLOGIN", "REMOTEUSERQUIT", "PEER_JOIN", "PEER_EXIT"}, user : User]
    \cup [cmd : {"UPDATEUSERLIST", "JOINED"}, users : SUBSET User]

VideoChatTypeOK ==
  /\ link \in Link /\ told \in BOOLEAN
  /\ app \in {"idle", "join"} /\ joining \in Meeting \cup {NoMeeting}
  /\ app = "join" => joining # NoMeeting
  /\ mtgID \in Meeting \cup {NoMeeting}
  /\ sender \in {"none", "new", "old"} /\ mic \in BOOLEAN /\ stranded \in BOOLEAN
  /\ receivers \subseteq User /\ lost \subseteq User /\ userInfoList \subseteq User
  /\ toServer \in Seq(ToServer) /\ toClient \in Seq(ToClient)
  /\ peers \subseteq User /\ members \in [Meeting -> SUBSET User]
  /\ session \in BOOLEAN /\ attends \in Meeting \cup {NoMeeting}
  /\ hasty \in BOOLEAN

Init ==
  /\ link = "none" /\ told = FALSE
  /\ app = "idle" /\ joining = NoMeeting /\ mtgID = NoMeeting
  /\ sender = "none" /\ mic = FALSE /\ stranded = FALSE
  /\ receivers = {} /\ lost = {} /\ userInfoList = {}
  /\ toServer = <<>> /\ toClient = <<>>
  /\ peers = {} /\ members = [m \in Meeting |-> {}]
  /\ session = FALSE /\ attends = NoMeeting
  /\ hasty = FALSE

Sent(p) == IF link = "up" THEN Append(toServer, p) ELSE toServer
Space == Len(toServer) < MaxToServer

-----------------------------------------------------------------------------
(* The application's calls.                                                *)

\* loginVideoChatServer: a new manager.
Login ==
  /\ link = "none" /\ app = "idle"
  /\ link' = "connecting"
  /\ told' = FALSE /\ mtgID' = NoMeeting
  /\ sender' = "none" /\ mic' = FALSE /\ stranded' = FALSE
  /\ receivers' = {} /\ lost' = {} /\ userInfoList' = {}
  /\ UNCHANGED <<app, joining, toServer, toClient, serverVars>>

\* Mutant: no test of m_mtgID.
JoinMtgAgain(m) ==
  /\ link # "none" /\ app = "idle"
  /\ mtgID' = m
  /\ app' = "join" /\ joining' = m
  /\ UNCHANGED <<link, told, mediaVars, userInfoList, toServer, toClient, serverVars>>

\* joinMtg (and creatMtg, which nothing calls) returns if there is a meeting ...
JoinMtg(m) ==
  /\ link # "none" /\ app = "idle"
  /\ mtgID = NoMeeting
  /\ mtgID' = m
  /\ app' = "join" /\ joining' = m
  /\ UNCHANGED <<link, told, mediaVars, userInfoList, toServer, toClient, serverVars>>

\* ... or opens the sender, which may be there, and asks.
JoinAsks ==
  /\ app = "join" /\ Space
  /\ sender' = IF sender = "none" THEN "new" ELSE sender
  /\ toServer' = Sent(Join(joining))
  /\ app' = "idle" /\ joining' = NoMeeting
  /\ UNCHANGED <<link, told, mtgID, mic, receivers, lost, stranded, userInfoList, toClient, serverVars>>

\* exitMtg; destroyMtg sends the same.
ExitMtg ==
  /\ link # "none" /\ app = "idle" /\ Space
  /\ mic' = FALSE
  /\ toServer' = Sent(Packet("EXIT"))
  /\ mtgID' = NoMeeting
  /\ UNCHANGED <<link, told, app, joining, sender, receivers, lost, stranded, userInfoList, toClient, serverVars>>

LogoutServer ==
  /\ link # "none" /\ app = "idle" /\ Space
  /\ mic' = FALSE
  /\ userInfoList' = {}
  /\ mtgID' = NoMeeting
  /\ toServer' = Sent(Packet("QUITSERVER"))
  /\ told' = FALSE
  /\ UNCHANGED <<link, app, joining, sender, receivers, lost, stranded, toClient, serverVars>>

\* openLocalAudio and closeLocalAudio.
LocalAudio(on) ==
  /\ link # "none" /\ app = "idle"
  /\ mic' = on
  /\ UNCHANGED <<link, appVars, sender, receivers, lost, stranded, userInfoList, toServer, toClient, serverVars>>

-----------------------------------------------------------------------------
(* The network thread: connection events (On_SessionConnectStatus).        *)

\* In a meeting, or on the way into one, and not told yet how that ended.
InMeeting ==
  \/ app = "join" \/ attends # NoMeeting
  \/ \E i \in 1 .. Len(toServer) : toServer[i].cmd = "JOIN"
  \/ \E i \in 1 .. Len(toClient) : toClient[i].cmd \in {"JOINED", "REFUSED"}

\* sendloginServer draws a new m_audioID and forgets the meeting, not its media.
SendLoginServer ==
  /\ link' = "up"
  /\ told' = FALSE
  /\ mtgID' = NoMeeting
  /\ sender' = IF sender = "none" THEN "none" ELSE "old"
  /\ stranded' = (stranded \/ InMeeting \/ sender # "none" \/ receivers # {})
  /\ toServer' = Append(toServer, Packet("LOGINSERVER"))
  /\ UNCHANGED <<app, joining, mic, receivers, lost, userInfoList, toClient, serverVars>>

\* CS_CONNECTED, CS_RECONNECTED (the session goes on), CS_RESTARTED (a new one
\* replaces a session that was lost).
Connected   == link = "connecting" /\ SendLoginServer
Reconnected == link = "busy" /\ SendLoginServer
Restarted   == link \in {"lost", "down"} /\ SendLoginServer

\* CS_BUSY is only reported.  Bound: there is room for the login it leads to.
Busy ==
  /\ link = "up" /\ Space
  /\ link' = "busy"
  /\ UNCHANGED <<appVars, mediaVars, userInfoList, toServer, toClient, serverVars>>

\* closeMediaSender; the audio unit is stopped only if there is a sender.
CloseMediaSender ==
  /\ sender' = "none"
  /\ mic' = (mic /\ sender = "none")

\* closeMediaSender and StopAllRemoteMedia.
CloseMedia ==
  /\ CloseMediaSender
  /\ receivers' = {}
  /\ stranded' = (stranded /\ (InMeeting \/ mic'))
  /\ UNCHANGED lost

\* CS_DISCONNECTED.  The manager stays.
Disconnected ==
  /\ link = "lost"
  /\ link' = "down"
  /\ told' = FALSE
  /\ CloseMedia
  /\ UNCHANGED <<app, joining, mtgID, userInfoList, toServer, toClient, serverVars>>

-----------------------------------------------------------------------------
(* The network thread: packets (OnDispatchCmd).                            *)

Receives(cmd) ==
  /\ link = "up" /\ toClient # <<>> /\ Head(toClient).cmd = cmd
  /\ toClient' = Tail(toClient)

\* Mutant: the list of users is not asked for.
LoginServeredOnly ==
  /\ Receives("LOGINSERVERED")
  /\ told' = TRUE
  /\ UNCHANGED <<link, app, joining, mtgID, mediaVars, userInfoList, toServer, serverVars>>

\* LOGINSERVERED with ERRORTYPE 0: getUserList.
LoginServered ==
  /\ Receives("LOGINSERVERED")
  /\ told' = TRUE
  /\ toServer' = Sent(Packet("GETUSERLIST"))
  /\ UNCHANGED <<link, app, joining, mtgID, mediaVars, userInfoList, serverVars>>

\* The manager is disconnected and deleted, on a thread of its own; what happens to
\* a call that is inside it is beyond this module.
Teardown(cmd) ==
  /\ link = "up" /\ toClient # <<>> /\ Head(toClient).cmd = cmd
  /\ app = "idle"
  /\ link' = "none"
  /\ told' = FALSE
  /\ toServer' = <<>> /\ toClient' = <<>>
  /\ session' = FALSE /\ attends' = NoMeeting
  /\ UNCHANGED <<app, joining, mtgID, userInfoList, peers, members>>

\* LOGINSERVERED with another ERRORTYPE closes nothing.
LoginRefused == Teardown("LOGINREFUSED") /\ UNCHANGED mediaVars

\* USERQUIT answers QUITSERVER; RELOGIN: the user logged in elsewhere.
SessionOver == \E cmd \in {"USERQUIT", "RELOGIN"} : Teardown(cmd) /\ CloseMedia

RemoteUserLogin ==
  /\ Receives("REMOTEUSERLOGIN")
  /\ userInfoList' = userInfoList \cup {Head(toClient).user}
  /\ UNCHANGED <<link, appVars, mediaVars, toServer, serverVars>>

\* Mutant: the receiver of a user who quits is kept.
QuitKeepsReceiver ==
  /\ Receives("REMOTEUSERQUIT")
  /\ userInfoList' = userInfoList \ {Head(toClient).user}
  /\ UNCHANGED <<link, appVars, mediaVars, toServer, serverVars>>

RemoteUserQuit ==
  /\ Receives("REMOTEUSERQUIT")
  /\ userInfoList' = userInfoList \ {Head(toClient).user}
  /\ receivers' = receivers \ {Head(toClient).user}
  /\ UNCHANGED <<link, appVars, sender, mic, lost, stranded, toServer, serverVars>>

UpdateUserList ==
  /\ Receives("UPDATEUSERLIST")
  /\ userInfoList' = userInfoList \cup Head(toClient).users
  /\ UNCHANGED <<link, appVars, mediaVars, toServer, serverVars>>

\* A receiver for each user of S; one that was in the map is forgotten, not closed.
OpenReceivers(S) ==
  /\ receivers' = receivers \cup S
  /\ lost' = lost \cup (receivers \cap S)

\* MTGCMDREQ, MTG_JOIN with RESULT: whoever is there, then openLocalMedia.
MtgJoined ==
  /\ Receives("JOINED")
  /\ OpenReceivers(Head(toClient).users)
  /\ mic' = TRUE
  /\ UNCHANGED <<link, appVars, sender, stranded, userInfoList, toServer, serverVars>>

\* MTGCMDREQ, MTG_JOIN without: m_mtgID stays.
MtgRefused ==
  /\ Receives("REFUSED")
  /\ CloseMediaSender
  /\ UNCHANGED <<link, appVars, receivers, lost, stranded, userInfoList, toServer, serverVars>>

\* Mutant: StopAllRemoteMedia is missing.
ExitedKeepsReceivers ==
  /\ Receives("EXITED")
  /\ CloseMediaSender
  /\ mtgID' = NoMeeting
  /\ UNCHANGED <<link, told, app, joining, receivers, lost, stranded, userInfoList, toServer, serverVars>>

\* Mutant: an answer without a meeting is taken for a late one.
ExitedIfIn ==
  /\ Receives("EXITED")
  /\ IF mtgID # NoMeeting THEN CloseMedia ELSE UNCHANGED mediaVars
  /\ mtgID' = NoMeeting
  /\ UNCHANGED <<link, told, app, joining, userInfoList, toServer, serverVars>>

\* MTGCMDREQ, MTG_EXIT, whatever RESULT says.
MtgExited ==
  /\ Receives("EXITED")
  /\ CloseMedia
  /\ mtgID' = NoMeeting
  /\ UNCHANGED <<link, told, app, joining, userInfoList, toServer, serverVars>>

\* Mutant: a user is opened only when new in the map.
PeerJoinUnknown ==
  /\ Receives("PEER_JOIN")
  /\ LET u == Head(toClient).user
     IN  IF u \notin userInfoList THEN OpenReceivers({u}) ELSE UNCHANGED <<receivers, lost>>
  /\ UNCHANGED <<link, appVars, sender, mic, stranded, userInfoList, toServer, serverVars>>

\* MTGCMD, MTG_JOIN: a user who is not in the list is ignored.
PeerJoin ==
  /\ Receives("PEER_JOIN")
  /\ LET u == Head(toClient).user
     IN  IF u \in userInfoList THEN OpenReceivers({u}) ELSE UNCHANGED <<receivers, lost>>
  /\ UNCHANGED <<link, appVars, sender, mic, stranded, userInfoList, toServer, serverVars>>

PeerExit ==
  /\ Receives("PEER_EXIT")
  /\ receivers' = receivers \ {Head(toClient).user}
  /\ UNCHANGED <<link, appVars, sender, mic, lost, stranded, userInfoList, toServer, serverVars>>

\* MTGCMD, MTG_DESTROY: m_mtgID stays.
MtgDestroyed ==
  /\ Receives("DESTROY")
  /\ CloseMedia
  /\ UNCHANGED <<link, appVars, userInfoList, toServer, serverVars>>

Handle ==
  \/ LoginServered \/ LoginRefused \/ SessionOver \/ RemoteUserLogin \/ RemoteUserQuit
  \/ UpdateUserList \/ MtgJoined \/ MtgRefused \/ MtgExited \/ PeerJoin \/ PeerExit
  \/ MtgDestroyed

-----------------------------------------------------------------------------
(* The server and the other users.                                         *)

Room == Len(toClient) < MaxToClient
Tell(p) == Room /\ toClient' = Append(toClient, p)
ClientVars == <<link, appVars, mediaVars, userInfoList>>

ServerReads(cmd) ==
  /\ link = "up" /\ toServer # <<>> /\ Head(toServer).cmd = cmd
  /\ toServer' = Tail(toServer)
  /\ UNCHANGED <<ClientVars, peers, members>>

\* A login begins a session and ends the one before, with its meeting; who has a
\* session is not refused another.
ServerLogin ==
  /\ ServerReads("LOGINSERVER")
  /\ \/ session' = TRUE /\ Tell(Packet("LOGINSERVERED"))
     \/ ~session /\ session' = FALSE /\ Tell(Packet("LOGINREFUSED"))
  /\ attends' = NoMeeting

ServerUserList ==
  /\ session /\ ServerReads("GETUSERLIST")
  /\ Tell(Users("UPDATEUSERLIST", peers))
  /\ UNCHANGED <<session, attends>>

\* Nobody is in two meetings.
ServerJoin ==
  /\ session /\ ServerReads("JOIN")
  /\ \/ /\ attends = NoMeeting
        /\ attends' = Head(toServer).mtg
        /\ Tell(Users("JOINED", members[attends']))
     \/ /\ attends' = attends
        /\ Tell(Packet("REFUSED"))
  /\ UNCHANGED session

ServerExit ==
  /\ session /\ ServerReads("EXIT")
  /\ attends' = NoMeeting
  /\ Tell(Packet("EXITED"))
  /\ UNCHANGED session

ServerQuit ==
  /\ session /\ ServerReads("QUITSERVER")
  /\ session' = FALSE /\ attends' = NoMeeting
  /\ Tell(Packet("USERQUIT"))

\* What comes after the end of a session is not answered.
ServerIgnores ==
  /\ ~session
  /\ \E cmd \in {"GETUSERLIST", "JOIN", "EXIT", "QUITSERVER"} : ServerReads(cmd)
  /\ UNCHANGED <<toClient, session, attends>>

ServerAnswers ==
  ServerLogin \/ ServerUserList \/ ServerJoin \/ ServerExit \/ ServerQuit \/ ServerIgnores

\* The user logs in somewhere else.
ServerRelogin ==
  /\ session /\ Tell(Packet("RELOGIN"))
  /\ session' = FALSE /\ attends' = NoMeeting
  /\ UNCHANGED <<ClientVars, toServer, peers, members>>

\* A session hears of every login and logout, and of who comes to and leaves its meeting.
Hears(cond, p) == IF cond THEN Tell(p) ELSE UNCHANGED toClient

PeerLogsIn(u) ==
  /\ u \notin peers
  /\ peers' = peers \cup {u}
  /\ Hears(session, About("REMOTEUSERLOGIN", u))
  /\ UNCHANGED <<ClientVars, toServer, members, session, attends>>

PeerQuits(u) ==
  /\ u \in peers
  /\ peers' = peers \ {u}
  /\ members' = [m \in Meeting |-> members[m] \ {u}]
  /\ Hears(session, About("REMOTEUSERQUIT", u))
  /\ UNCHANGED <<ClientVars, toServer, session, attends>>

PeerJoins(u, m) ==
  /\ u \in peers /\ \A n \in Meeting : u \notin members[n]
  /\ members' = [members EXCEPT ![m] = @ \cup {u}]
  /\ Hears(attends = m, About("PEER_JOIN", u))
  /\ UNCHANGED <<ClientVars, toServer, peers, session, attends>>

PeerExits(u, m) ==
  /\ u \in members[m]
  /\ members' = [members EXCEPT ![m] = @ \ {u}]
  /\ Hears(attends = m, About("PEER_EXIT", u))
  /\ UNCHANGED <<ClientVars, toServer, peers, session, attends>>

\* The meeting the client is in is closed for everybody.
Destroy ==
  /\ attends # NoMeeting
  /\ members' = [members EXCEPT ![attends] = {}]
  /\ attends' = NoMeeting
  /\ Tell(Packet("DESTROY"))
  /\ UNCHANGED <<ClientVars, toServer, peers, session>>

\* The connection is lost for longer than XNet bridges.
Drop ==
  /\ link \in {"up", "busy"}
  /\ link' = "lost"
  /\ toServer' = <<>> /\ toClient' = <<>>
  /\ session' = FALSE /\ attends' = NoMeeting
  /\ UNCHANGED <<appVars, mediaVars, userInfoList, peers, members>>

-----------------------------------------------------------------------------
Connection == Connected \/ Reconnected \/ Restarted \/ Disconnected
Peers == \E u \in User : PeerLogsIn(u) \/ PeerQuits(u) \/ \E m \in Meeting : PeerJoins(u, m) \/ PeerExits(u, m)
Server == ServerAnswers \/ ServerRelogin \/ Peers \/ Destroy \/ Busy \/ Drop
Calls == Login \/ JoinAsks \/ ExitMtg \/ LogoutServer

\* What is still to come that ends a meeting the application has left.
ExitPending ==
  \/ \E i \in 1 .. Len(toServer) : toServer[i].cmd = "EXIT"
  \/ \E i \in 1 .. Len(toClient) : toClient[i].cmd = "EXITED"

\* An application joins when it is logged in, and touches its microphone in a meeting.
Joins == told /\ (\E m \in Meeting : JoinMtg(m)) /\ hasty' = (hasty \/ ExitPending)
Microphone == sender # "none" /\ \E on \in BOOLEAN : LocalAudio(on)
Other == Connection \/ Handle \/ Server \/ Calls \/ Microphone
Next == (Other /\ UNCHANGED hasty) \/ Joins
Spec == Init /\ [][Next]_vars

\* The threads run, XNet gives up or reconnects, the server answers in time.
FairSpec ==
  /\ Spec
  /\ WF_chatVars(Handle)
  /\ WF_chatVars(Connection /\ link # "down")
  /\ SF_chatVars(ServerAnswers)

-----------------------------------------------------------------------------
Closed == sender = "none" /\ ~mic /\ receivers = {}

\* Nothing is under way.
Quiet == link = "up" /\ app = "idle" /\ toServer = <<>> /\ toClient = <<>>

\* Whoever is in the client's meeting is heard, and nobody else, once all news is
\* read: through joins, exits and logouts of the others, and however fast the
\* application leaves and joins (OnDispatchMtgCmd, OnDispatchMtgCmdReg).
HearsTheMeeting ==
  Quiet /\ ~stranded =>
    receivers = (IF attends = NoMeeting THEN {} ELSE members[attends])

\* A receiver is never overwritten in m_pOpenRemoteUser_map, where nobody could
\* close it any more (CVideoChat.cpp, OnDispatchMtgCmd and OnDispatchMtgCmdReg).
NeverOverwritten == [][lost' \subseteq lost \/ stranded]_vars

\* In a meeting that was joined in time the client knows which, and talks under its present audio id:
\* a late answer has not closed the sender of a newer meeting (OnDispatchMtgCmdReg).
TalksInTheMeeting ==
  Quiet /\ ~stranded /\ ~hasty /\ attends # NoMeeting => mtgID = attends /\ sender = "new"

\* Outside of a meeting, left, refused or destroyed, nothing is open, and a manager is deleted
\* with nothing open: no audio unit gives frames to it (closeMediaSender, StopAllRemoteMedia;
\* OnDispatchCmd, USERQUIT, RELOGIN and LOGINSERVERED).
ClosedOutside ==
  link = "none" \/ (Quiet /\ attends = NoMeeting) => Closed \/ stranded \/ hasty

\* A meeting that was left gets silent, whatever the connection does (exitMtg).
SilentAgain ==
  (mtgID = NoMeeting /\ sender # "none")
    ~> (sender = "none" \/ mtgID # NoMeeting \/ stranded \/ hasty \/ link = "down")
=============================================================================
