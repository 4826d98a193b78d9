------------------------------- MODULE LinkMic -------------------------------
(***************************************************************************)
(* A room with anchors and guests (class/LinkMic/CLinkMicManage.cpp behind *)
(* linkMicMgr.cpp): who is not an anchor sends its microphone as long as   *)
(* it is logged in, and an anchor listens to everybody.                    *)
(*                                                                         *)
(* There is no agreement about the media but the audio id: a client draws  *)
(* one for each login, connects its sender under it, and the server hands  *)
(* it to the others.  An audio id is the number of the login here.         *)
(*                                                                         *)
(* The handlers run one at a time, on the network thread, and so does what *)
(* opens and closes the media; the application's calls are one step each.  *)
(* A login while there is a manager is in MediaFacades.                    *)
(*                                                                         *)
(* The server and the connection are not in the repository.  The           *)
(* connection is FIFO and loses what is in flight only with the session.   *)
(* SIGNALINGTRANSFER changes nothing and is left out, and so is the video  *)
(* of an anchor: creatVideoWindow returns nil before its block has run,    *)
(* and the array of the views does not take it.                            *)
(***************************************************************************)
EXTENDS Integers, Sequences, FiniteSets

CONSTANTS Client,      \* the users of one room
          Anchor,      \* those that logged in with isAnchor
          HasVideo,    \* those that logged in with ishaveVideo
          Refused,     \* those whose login the server may refuse
          MaxLogins,   \* Bound: audio ids of a client
          MaxToServer, \* a call of the application waits for room here
          MaxToClient  \* the server waits while a client has more unread

ASSUME LinkMicAssumption ==
  /\ Anchor \subseteq Client /\ Refused \subseteq Client
  /\ HasVideo \subseteq Client \ Anchor
  /\ MaxLogins \in Nat /\ MaxToServer \in Nat /\ MaxToClient \in Nat

VARIABLES
  link,           \* the manager and its connection: see Link
  audioID,        \* m_audioID
  openLocalUser,  \* m_OpenLocalUser: the id it was connected under, None for NULL
  mic,            \* the audio unit runs and gives its frames to this manager
  openRemoteUser, \* m_pOpenRemoteUser_map: the id each receiver listens to, or None
  lost,           \* receivers that were overwritten or never entered there, still open
  userInfoList,   \* m_UserInfoList: the id of each user, or None
  shut,           \* history: the users whose video the application closed, and their voice with it
  stale,          \* history: a login drew a new id while the sender was open
  stranded,       \* history: CS_RESTARTED came while media of the lost session were open
  toServer,       \* packets in flight from each client
  toClient,       \* packets in flight to each client
  logged          \* server: the id each client is logged in with, or None

mediaVars == <<openLocalUser, mic, openRemoteUser, lost, shut>>
historyVars == <<stale, stranded>>
queueVars == <<toServer, toClient>>
vars == <<link, audioID, mediaVars, userInfoList, historyVars, queueVars, logged>>

None == 0
AudioID == 1 .. MaxLogins
Nobody == [u \in Client |-> None]

\* "none": no manager.  "busy": CS_BUSY, XNet is reconnecting.  "lost": the server
\* has dropped the session, the client does not know yet.  "down": it does.
Link == {"none", "connecting", "up", "busy", "lost", "down"}

Packet(cmd) == [cmd |-> cmd]
Login(id) == [cmd |-> "LOGINSERVER", id |-> id]
About(cmd, u, id) == [cmd |-> cmd, user |-> u, id |-> id]
UserList(ids) == [cmd |-> "UPDATEUSERLIST", ids |-> ids]

\* LOGINREFUSED is LOGINSERVERED with an error.
ToServer == [cmd : {"GETUSERLIST", "QUITSERVER"}] \cup [cmd : {"LOGINSERVER"}, id : AudioID]
ToClient ==
  [cmd : {"LOGINSERVERED", "LOGINREFUSED", "RELOGIN", "USERQUIT"}]
    \cup [cmd : {"REMOTEUSERLOGIN", "REMOTEUSERQUIT"}, user : Client, id : AudioID]
    \cup [cmd : {"UPDATEUSERLIST"}, ids : [Client -> AudioID \cup {None}]]

LinkMicTypeOK ==
  /\ link \in [Client -> Link]
  /\ audioID \in [Client -> AudioID \cup {None}]
  /\ openLocalUser \in [Client -> AudioID \cup {None}]
  /\ mic \in [Client -> BOOLEAN]
  /\ openRemoteUser \in [Client -> [Client -> AudioID \cup {None}]]
  /\ lost \in [Client -> SUBSET (Client \X (AudioID \cup {None}))]
  /\ userInfoList \in [Client -> [Client -> AudioID \cup {None}]]
  /\ shut \in [Client -> SUBSET Client] /\ stale \in [Client -> BOOLEAN]
  /\ stranded \in [Client -> BOOLEAN]
  /\ toServer \in [Client -> Seq(ToServer)]
  /\ toClient \in [Client -> Seq(ToClient)]
  /\ logged \in [Client -> AudioID \cup {None}]

Init ==
  /\ link = [c \in Client |-> "none"]
  /\ audioID = Nobody
  /\ openLocalUser = Nobody
  /\ mic = [c \in Client |-> FALSE]
  /\ openRemoteUser = [c \in Client |-> Nobody]
  /\ lost = [c \in Client |-> {}]
  /\ userInfoList = [c \in Client |-> Nobody]
  /\ shut = [c \in Client |-> {}] /\ stale = [c \in Client |-> FALSE]
  /\ stranded = [c \in Client |-> FALSE]
  /\ toServer = [c \in Client |-> <<>>]
  /\ toClient = [c \in Client |-> <<>>]
  /\ logged = Nobody

Sent(c, m) == IF link[c] = "up" THEN [toServer EXCEPT ![c] = Append(@, m)] ELSE toServer
Space(c) == Len(toServer[c]) < MaxToServer
Uncrowded(S) == \A c \in S : Len(toClient[c]) <= MaxToClient

-----------------------------------------------------------------------------
(* The application's calls.                                                *)

\* loginLinkMicServer: a new manager.
LoginLinkMicServer(c) ==
  /\ link[c] = "none" /\ audioID[c] < MaxLogins
  /\ link' = [link EXCEPT ![c] = "connecting"]
  /\ openLocalUser' = [openLocalUser EXCEPT ![c] = None]
  /\ mic' = [mic EXCEPT ![c] = FALSE]
  /\ openRemoteUser' = [openRemoteUser EXCEPT ![c] = Nobody]
  /\ lost' = [lost EXCEPT ![c] = {}]
  /\ userInfoList' = [userInfoList EXCEPT ![c] = Nobody]
  /\ shut' = [shut EXCEPT ![c] = {}]
  /\ stale' = [stale EXCEPT ![c] = FALSE] /\ stranded' = [stranded EXCEPT ![c] = FALSE]
  /\ UNCHANGED <<audioID, queueVars, logged>>

LogoutServer(c) ==
  /\ link[c] # "none" /\ Space(c)
  /\ mic' = [mic EXCEPT ![c] = FALSE]
  /\ userInfoList' = [userInfoList EXCEPT ![c] = Nobody]
  /\ toServer' = Sent(c, Packet("QUITSERVER"))
  /\ UNCHANGED <<link, audioID, openLocalUser, openRemoteUser, lost, shut, historyVars, toClient, logged>>

\* closeRemoteUserVideo closes the voice, too.
CloseRemoteUserVideo(c, u) ==
  /\ link[c] # "none"
  /\ userInfoList[c][u] # None /\ openRemoteUser[c][u] # None
  /\ openRemoteUser' = [openRemoteUser EXCEPT ![c][u] = None]
  /\ shut' = [shut EXCEPT ![c] = @ \cup {u}]
  /\ UNCHANGED <<link, audioID, openLocalUser, mic, lost, userInfoList, historyVars, queueVars, logged>>

-----------------------------------------------------------------------------
(* The network thread: connection events (On_SessionConnectStatus).        *)

\* LoginServer draws a new m_audioID and leaves the media as they are.
LoginServer(c) ==
  /\ audioID[c] < MaxLogins
  /\ link' = [link EXCEPT ![c] = "up"]
  /\ audioID' = [audioID EXCEPT ![c] = @ + 1]
  /\ stale' = [stale EXCEPT ![c] = openLocalUser[c] # None]
  /\ toServer' = [toServer EXCEPT ![c] = Append(@, Login(audioID'[c]))]
  /\ UNCHANGED <<mediaVars, userInfoList, stranded, toClient, logged>>

\* CS_CONNECTED and CS_RECONNECTED (the session goes on).
Connected(c)   == link[c] = "connecting" /\ LoginServer(c)
Reconnected(c) == link[c] = "busy" /\ LoginServer(c)

\* CS_RESTARTED, a new connection after the session was lost, is only reported.
Restarted(c) ==
  /\ link[c] \in {"lost", "down"}
  /\ link' = [link EXCEPT ![c] = "up"]
  /\ stranded' = [stranded EXCEPT ![c] = openLocalUser[c] # None \/ openRemoteUser[c] # Nobody]
  /\ UNCHANGED <<audioID, mediaVars, userInfoList, stale, queueVars, logged>>

\* CS_BUSY is only reported.  Bound: there is an id, and room, for the login it leads to.
Busy(c) ==
  /\ link[c] = "up" /\ Space(c) /\ audioID[c] < MaxLogins
  /\ link' = [link EXCEPT ![c] = "busy"]
  /\ UNCHANGED <<audioID, mediaVars, userInfoList, historyVars, queueVars, logged>>

\* Mutant: the audio unit is left running.
CloseSenderOnly(c) ==
  /\ openLocalUser' = [openLocalUser EXCEPT ![c] = None]
  /\ UNCHANGED mic

\* closeMediaSender stops the audio unit only if there is a sender.
CloseMediaSender(c) ==
  /\ openLocalUser' = [openLocalUser EXCEPT ![c] = None]
  /\ mic' = [mic EXCEPT ![c] = @ /\ openLocalUser[c] = None]

\* closeMediaSender and StopAllRemoteMedia.
CloseMedia(c) ==
  /\ CloseMediaSender(c)
  /\ openRemoteUser' = [openRemoteUser EXCEPT ![c] = Nobody]
  /\ shut' = [shut EXCEPT ![c] = {}]
  /\ stale' = [stale EXCEPT ![c] = FALSE] /\ stranded' = [stranded EXCEPT ![c] = FALSE]
  /\ UNCHANGED lost

\* CS_DISCONNECTED.  The manager stays.
Disconnected(c) ==
  /\ link[c] = "lost"
  /\ link' = [link EXCEPT ![c] = "down"]
  /\ CloseMedia(c)
  /\ UNCHANGED <<audioID, userInfoList, queueVars, logged>>

-----------------------------------------------------------------------------
(* The network thread: packets (OnDispatchCmd).                            *)

\* The next packet for c is a cmd.
Receives(c, cmd) ==
  /\ link[c] = "up"
  /\ toClient[c] # <<>> /\ Head(toClient[c]).cmd = cmd

Handled(c) == toClient' = [toClient EXCEPT ![c] = Tail(@)]

\* Mutant: the sender of the login before is replaced.
OpenMediaSenderAgain(c) ==
  /\ openLocalUser' = [openLocalUser EXCEPT ![c] = audioID[c]]
  /\ mic' = [mic EXCEPT ![c] = @ \/ c \in HasVideo]

\* Mutant: the id of the camera is taken.
OpenMediaSenderVideo(c) ==
  IF openLocalUser[c] # None THEN UNCHANGED <<openLocalUser, mic>>
  ELSE /\ openLocalUser' = [openLocalUser EXCEPT ![c] = audioID[c] + 200]
       /\ mic' = [mic EXCEPT ![c] = @ \/ c \in HasVideo]

\* openMediaSender: nothing, if there is one.  The audio unit is started with the camera.
OpenMediaSender(c) ==
  IF openLocalUser[c] # None THEN UNCHANGED <<openLocalUser, mic>>
  ELSE /\ openLocalUser' = [openLocalUser EXCEPT ![c] = audioID[c]]
       /\ mic' = [mic EXCEPT ![c] = @ \/ c \in HasVideo]

\* LOGINSERVERED with ERRORTYPE 0, then getUserList.
LoginServered(c) ==
  /\ Receives(c, "LOGINSERVERED") /\ Handled(c)
  /\ IF c \in Anchor THEN UNCHANGED <<openLocalUser, mic>> ELSE OpenMediaSender(c)
  /\ toServer' = Sent(c, Packet("GETUSERLIST"))
  /\ UNCHANGED <<link, audioID, openRemoteUser, lost, shut, userInfoList, historyVars, logged>>

\* A receiver of c for the id of each user of ids; one that the map had is forgotten,
\* not closed.
OpenReceivers(c, ids) ==
  LET news == {u \in Client : ids[u] # None} IN
  /\ openRemoteUser' = [openRemoteUser EXCEPT ![c] = [u \in Client |-> IF u \in news THEN ids[u] ELSE @[u]]]
  /\ lost' = [lost EXCEPT ![c] = @ \cup {<<u, openRemoteUser[c][u]>> : u \in {v \in news : openRemoteUser[c][v] # None}}]
  /\ shut' = [shut EXCEPT ![c] = @ \ news]

RemoteUserLogin(c) ==
  /\ Receives(c, "REMOTEUSERLOGIN") /\ Handled(c)
  /\ LET m == Head(toClient[c]) IN
     /\ userInfoList' = [userInfoList EXCEPT ![c][m.user] = m.id]
     /\ IF c \in Anchor THEN OpenReceivers(c, [Nobody EXCEPT ![m.user] = m.id])
        ELSE UNCHANGED <<openRemoteUser, lost, shut>>
  /\ UNCHANGED <<link, audioID, openLocalUser, mic, historyVars, toServer, logged>>

\* Mutant: the receiver of a user who quits is kept.
QuitKeepsReceiver(c) ==
  /\ Receives(c, "REMOTEUSERQUIT") /\ Handled(c)
  /\ userInfoList' = [userInfoList EXCEPT ![c][Head(toClient[c]).user] = None]
  /\ UNCHANGED <<link, audioID, mediaVars, historyVars, toServer, logged>>

RemoteUserQuit(c) ==
  /\ Receives(c, "REMOTEUSERQUIT") /\ Handled(c)
  /\ LET u == Head(toClient[c]).user IN
     /\ userInfoList' = [userInfoList EXCEPT ![c][u] = None]
     /\ openRemoteUser' = [openRemoteUser EXCEPT ![c][u] = None]
     /\ shut' = [shut EXCEPT ![c] = @ \ {u}]
  /\ UNCHANGED <<link, audioID, openLocalUser, mic, lost, historyVars, toServer, logged>>

\* UPDATEUSERLIST adds users and never removes one.
UpdateUserList(c) ==
  /\ Receives(c, "UPDATEUSERLIST") /\ Handled(c)
  /\ LET ids == Head(toClient[c]).ids IN
     /\ userInfoList' = [userInfoList EXCEPT ![c] = [u \in Client |-> IF ids[u] # None THEN ids[u] ELSE @[u]]]
     /\ IF c \in Anchor THEN OpenReceivers(c, ids) ELSE UNCHANGED <<openRemoteUser, lost, shut>>
  /\ UNCHANGED <<link, audioID, openLocalUser, mic, historyVars, toServer, logged>>

\* IConnectStatusCallback: the manager is disconnected and deleted.
SessionEnds(c) ==
  /\ toServer' = [toServer EXCEPT ![c] = <<>>]
  /\ toClient' = [d \in Client |->
       IF d = c THEN <<>>
       ELSE IF logged[c] # None /\ logged[d] # None
         THEN Append(toClient[d], About("REMOTEUSERQUIT", c, logged[c]))
       ELSE toClient[d]]
  /\ logged' = [logged EXCEPT ![c] = None]

Teardown(c, cmd) ==
  /\ Receives(c, cmd) /\ Uncrowded(Client \ {c})
  /\ link' = [link EXCEPT ![c] = "none"]
  /\ SessionEnds(c)
  /\ UNCHANGED <<audioID, userInfoList>>

\* LOGINSERVERED with another ERRORTYPE closes nothing.
LoginRefused(c) == Teardown(c, "LOGINREFUSED") /\ UNCHANGED <<mediaVars, historyVars>>

\* Mutant: nothing is closed.
SessionOverKeepsMedia(c) ==
  \E cmd \in {"USERQUIT", "RELOGIN"} : Teardown(c, cmd) /\ UNCHANGED <<mediaVars, historyVars>>

\* USERQUIT answers QUITSERVER; RELOGIN: the user logged in elsewhere.
SessionOver(c) == \E cmd \in {"USERQUIT", "RELOGIN"} : Teardown(c, cmd) /\ CloseMedia(c)

-----------------------------------------------------------------------------
(* The server and the connection (external).                               *)

Asked(c, cmd) ==
  /\ link[c] = "up" /\ toServer[c] # <<>> /\ Head(toServer[c]).cmd = cmd
  /\ Uncrowded(Client)

Served(c) == toServer' = [toServer EXCEPT ![c] = Tail(@)]
ClientVars == <<link, audioID, mediaVars, userInfoList, historyVars>>

\* own to c, and other to everyone else with a session.
Tell(c, own, other) ==
  toClient' = [d \in Client |->
    IF d = c THEN toClient[d] \o own
    ELSE IF logged[d] # None THEN toClient[d] \o other
    ELSE toClient[d]]

Leaves(c) == IF logged[c] # None THEN << About("REMOTEUSERQUIT", c, logged[c]) >> ELSE <<>>

\* A login ends the session the user had; who has one is not refused another.
ServerLogin(c) ==
  /\ Asked(c, "LOGINSERVER") /\ Served(c)
  /\ LET id == Head(toServer[c]).id IN
     \/ /\ Tell(c, << Packet("LOGINSERVERED") >>, Leaves(c) \o << About("REMOTEUSERLOGIN", c, id) >>)
        /\ logged' = [logged EXCEPT ![c] = id]
     \/ /\ c \in Refused /\ logged[c] = None
        /\ Tell(c, << Packet("LOGINREFUSED") >>, <<>>)
        /\ UNCHANGED logged
  /\ UNCHANGED ClientVars

\* The other users.
ServerUserList(c) ==
  /\ logged[c] # None
  /\ Asked(c, "GETUSERLIST") /\ Served(c)
  /\ Tell(c, << UserList([logged EXCEPT ![c] = None]) >>, <<>>)
  /\ UNCHANGED <<ClientVars, logged>>

ServerQuit(c) ==
  /\ logged[c] # None
  /\ Asked(c, "QUITSERVER") /\ Served(c)
  /\ Tell(c, << Packet("USERQUIT") >>, Leaves(c))
  /\ logged' = [logged EXCEPT ![c] = None]
  /\ UNCHANGED ClientVars

\* What comes after the end of a session is not answered.
ServerIgnores(c) ==
  /\ logged[c] = None
  /\ Asked(c, "GETUSERLIST") \/ Asked(c, "QUITSERVER")
  /\ Served(c)
  /\ UNCHANGED <<ClientVars, toClient, logged>>

\* The account logs in on another device.
ServerKick(c) ==
  /\ logged[c] # None /\ link[c] = "up" /\ Uncrowded(Client)
  /\ Tell(c, << Packet("RELOGIN") >>, Leaves(c))
  /\ logged' = [logged EXCEPT ![c] = None]
  /\ UNCHANGED <<ClientVars, toServer>>

\* The session of a client that is reconnecting expires.
ServerDrop(c) ==
  /\ link[c] = "busy" /\ Uncrowded(Client \ {c})
  /\ link' = [link EXCEPT ![c] = "lost"]
  /\ SessionEnds(c)
  /\ UNCHANGED <<audioID, mediaVars, userInfoList, historyVars>>

-----------------------------------------------------------------------------
Calls(c) ==
  \/ LoginLinkMicServer(c) \/ LogoutServer(c)
  \/ \E u \in Client : CloseRemoteUserVideo(c, u)

Handle(c) ==
  \/ LoginServered(c) \/ LoginRefused(c) \/ SessionOver(c)
  \/ RemoteUserLogin(c) \/ RemoteUserQuit(c) \/ UpdateUserList(c)

ServerAnswers(c) == ServerLogin(c) \/ ServerUserList(c) \/ ServerQuit(c) \/ ServerIgnores(c)

Connection(c) == Connected(c) \/ Reconnected(c) \/ Disconnected(c) \/ ServerDrop(c)

Next == \E c \in Client :
  \/ Calls(c) \/ Handle(c) \/ ServerAnswers(c) \/ Connection(c)
  \/ Restarted(c) \/ Busy(c) \/ ServerKick(c)

Spec == Init /\ [][Next]_vars

\* The threads run, the server answers, XNet reconnects or gives up.
FairSpec ==
  /\ Spec
  /\ \A c \in Client : /\ WF_vars(Handle(c)) /\ SF_vars(ServerAnswers(c))
                       /\ WF_vars(Connection(c))

-----------------------------------------------------------------------------
(* Properties.                                                             *)

\* c is logged in, has asked for the users, and has read all it was told.
Settled(c) ==
  link[c] = "up" /\ logged[c] # None /\ toServer[c] = <<>> /\ toClient[c] = <<>>

\* An anchor listens to every other user under the id of its present login, and to
\* nobody who is gone, whatever the others did while it logged in (109-331).
AnchorHears ==
  \A a \in Anchor, u \in Client : Settled(a) /\ ~ stranded[a] =>
    openRemoteUser[a][u] = IF u \in shut[a] \cup {a} THEN None ELSE logged[u]

\* It hears a guest, unless the guest was reconnected: its sender is still that of
\* the login before (333-360, 536-570).
GuestIsHeard ==
  \A a \in Anchor, g \in Client \ Anchor :
    Settled(a) /\ Settled(g) /\ g \notin shut[a] /\ ~ stranded[a] =>
      (openLocalUser[g] = openRemoteUser[a][g] <=> ~ stale[g])

\* A receiver is forgotten only for a list, never for a user who comes back: the
\* quit of the session before is always read first (145-235).
LostByListOnly ==
  [][\A c \in Client : lost'[c] \subseteq lost[c] \/ stranded[c] \/ Receives(c, "UPDATEUSERLIST")]_vars

\* A manager is deleted with nothing open but what was lost, and with no audio unit
\* that gives frames to it, unless a login was refused after CS_RESTARTED (117-142, 237-246, 317-330).
NothingOutlivesManager ==
  \A c \in Client : link[c] = "none" /\ ~ stranded[c] =>
    openLocalUser[c] = None /\ ~ mic[c] /\ openRemoteUser[c] = Nobody

\* A guest that logs out falls silent, if its QUITSERVER found the connection up and
\* a session, or that session is lost (362-375, 317-330).
Quits(c) == logged[c] # None /\ \E i \in DOMAIN toServer[c] : toServer[c][i].cmd = "QUITSERVER"
LogoutSilences ==
  \A g \in Client \ Anchor : Quits(g) ~> openLocalUser[g] = None \/ link[g] = "lost"
=============================================================================
