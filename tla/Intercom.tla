------------------------------ MODULE Intercom ------------------------------
(***************************************************************************)
(* The push-to-talk client (class/Intercom/CIntercomManage.cpp and its C   *)
(* interface IntercomMgr.m), several of them around one server.            *)
(*                                                                         *)
(* Each client has two threads.  The application's thread calls the C      *)
(* interface; stopSendAudio is several steps of it, because it takes no    *)
(* lock before closeMediaSender.  The network thread delivers connection   *)
(* events and packets one at a time; the handler of a granted floor is two *)
(* steps, and holds m_mutex between them.                                  *)
(*                                                                         *)
(* The server and the XNet connection are not in the repository.  They are *)
(* modelled from what the client relies on: the server gives each floor to *)
(* the first client that asks, answers it with AUDIO_SEND_ENABLE under its *)
(* own name and tells the others AUDIO_SEND_DISABLE; the connection is     *)
(* FIFO, and loses what is in flight only when the session is lost.        *)
(***************************************************************************)
EXTENDS Naturals, Sequences, FiniteSets

CONSTANTS Client,      \* the users of one room (one m_strAddress)
          Listener,    \* those that logged in with listenInRoom
          Group,       \* Group[c] is c's m_userGroupId, NoGroup for ""
          NoGroup,
          Room,        \* the floor of the whole room
          NoOne,       \* an empty speaker name; nobody holds the floor
          Talker,      \* those whose user touches the talk buttons
          Refused,     \* those whose login the server may refuse
          Leaver,      \* those that may log out
          Unsteady,    \* those that may be disconnected or logged in elsewhere
          MaxToServer, \* a call of the application waits for room here
          MaxToClient  \* the server waits while a client has more unread

ASSUME IntercomAssumption ==
  /\ Listener \subseteq Client /\ Talker \subseteq Client /\ Refused \subseteq Client
  /\ Leaver \subseteq Client /\ Unsteady \subseteq Client
  /\ NoOne \notin Client
  /\ NoGroup # Room
  /\ \A c \in Client : Group[c] # Room
  /\ MaxToServer \in Nat /\ MaxToClient \in Nat

Floors == {Room} \cup ({Group[c] : c \in Client} \ {NoGroup})

\* The two channels of a client: ISINROOM true and false.
Channel == {"room", "group"}
FloorOf(c, ch) == IF ch = "room" THEN Room ELSE Group[c]
ChannelOf(f) == IF f = Room THEN "room" ELSE "group"

AUDIO_SEND_STATUS ==
  {"AUDIO_SEND_ENABLE", "AUDIO_SEND_DISABLE", "AUDIO_SEND_SENDING"}

VARIABLES
  link,           \* the manager and its connection: see Link
  audioStatus,    \* m_ROOMaudioStatus and m_GROUPaudioStatus, by channel
  speakerName,    \* m_RoomSpeakerName and m_GroupSpeakerName, by channel
  speakChannel,   \* m_isSpeakinRoom, as a channel
  openLocalUser,  \* m_OpenLocalUser is not NULL: the microphone is being sent
  openRemoteUser, \* keys of m_pOpenRemoteUser_map: whose voice is played
  userInfoList,   \* keys of m_UserInfoList
  app,            \* where the application's thread is: see App
  quitting,       \* stopSendAudio runs inside logoutServer
  net,            \* where the network thread is: see Net
  orphan,         \* the manager was deleted and its sender left open
  toServer,       \* packets in flight from each client
  toClient,       \* packets in flight to each client
  logged,         \* server: the clients with a session
  holder          \* server: who holds each floor

talkVars   == <<audioStatus, speakerName, speakChannel, openLocalUser>>
rosterVars == <<openRemoteUser, userInfoList>>
threadVars == <<app, quitting, net>>
queueVars  == <<toServer, toClient>>
serverVars == <<logged, holder>>
vars == <<link, talkVars, rosterVars, threadVars, orphan, queueVars, serverVars>>

\* "none": no manager.  "busy": CS_BUSY, XNet is reconnecting.  "lost": the
\* server has dropped the session, the client does not know yet.
Link == {"none", "connecting", "up", "busy", "lost"}

\* "wait": in the usleep that ends startIntercomAudio and stopIntercomAudio.
\* The others are the steps of stopSendAudio, in order, then of logoutServer.
App == {"idle", "wait", "check", "stop_room", "stop_group", "close", "quit"}
Stopping == {"check", "stop_room", "stop_group", "close", "quit"}

\* "granted": the status says SENDING and openMediaSender is about to run.
Net == {"idle", "granted"}

-----------------------------------------------------------------------------
(* Packets.  LOGINSERVERED carries its ERRORTYPE as a command of its own.  *)

Voice(u, f, data) == [cmd |-> "SENDVOICE", user |-> u, floor |-> f, data |-> data]
Packet(cmd) == [cmd |-> cmd]
About(cmd, u) == [cmd |-> cmd, user |-> u]
UserList(S) == [cmd |-> "UPDATEUSERLIST", users |-> S]

VoiceData == {"AUDIO_SEND_ENABLE", "AUDIO_SEND_DISABLE"}
VoicePacket == [cmd : {"SENDVOICE"}, user : Client, floor : Floors, data : VoiceData]
ToServer == VoicePacket \cup [cmd : {"LOGINSERVER", "GETUSERLIST", "QUITSERVER"}]
ToClient == VoicePacket
              \cup [cmd : {"LOGINSERVERED", "LOGINREFUSED", "RELOGIN", "USERQUIT"}]
              \cup [cmd : {"REMOTEUSERLOGIN", "REMOTEUSERQUIT"}, user : Client]
              \cup [cmd : {"UPDATEUSERLIST"}, users : SUBSET Client]

TypeOK ==
  /\ link \in [Client -> Link]
  /\ audioStatus \in [Client -> [Channel -> AUDIO_SEND_STATUS]]
  /\ speakerName \in [Client -> [Channel -> Client \cup {NoOne}]]
  /\ speakChannel \in [Client -> Channel]
  /\ openLocalUser \in [Client -> BOOLEAN]
  /\ openRemoteUser \in [Client -> SUBSET Client]
  /\ userInfoList \in [Client -> SUBSET Client]
  /\ app \in [Client -> App]
  /\ quitting \in [Client -> BOOLEAN]
  /\ net \in [Client -> Net]
  /\ orphan \in [Client -> BOOLEAN]
  /\ toServer \in [Client -> Seq(ToServer)]
  /\ toClient \in [Client -> Seq(ToClient)]
  /\ logged \in SUBSET Client
  /\ holder \in [Floors -> Client \cup {NoOne}]

Init ==
  /\ link = [c \in Client |-> "none"]
  /\ audioStatus = [c \in Client |-> [ch \in Channel |-> "AUDIO_SEND_ENABLE"]]
  /\ speakerName = [c \in Client |-> [ch \in Channel |-> NoOne]]
  /\ speakChannel \in [Client -> Channel]
  /\ openLocalUser = [c \in Client |-> FALSE]
  /\ openRemoteUser = [c \in Client |-> {}]
  /\ userInfoList = [c \in Client |-> {}]
  /\ app = [c \in Client |-> "idle"]
  /\ quitting = [c \in Client |-> FALSE]
  /\ net = [c \in Client |-> "idle"]
  /\ orphan = [c \in Client |-> FALSE]
  /\ toServer = [c \in Client |-> << >>]
  /\ toClient = [c \in Client |-> << >>]
  /\ logged = {}
  /\ holder = [f \in Floors |-> NoOne]

\* CAppClient::SendData hands the packet to XNet, which has nowhere to send
\* it unless the connection is up.
Sent(c, m) ==
  IF link[c] = "up" THEN [toServer EXCEPT ![c] = Append(@, m)] ELSE toServer

\* SendVoice, which sends nothing for a group the user is not in.
SentVoice(c, ch, data) ==
  IF ch = "group" /\ Group[c] = NoGroup THEN toServer
  ELSE Sent(c, Voice(c, FloorOf(c, ch), data))

Space(c) == Len(toServer[c]) < MaxToServer
Uncrowded(S) == \A c \in S : Len(toClient[c]) <= MaxToClient

-----------------------------------------------------------------------------
(* The application's thread.                                               *)

\* loginIntercomServer with no manager: the constructor, then ConnectServer.
\* m_isSpeakinRoom is not initialised.
Login(c) ==
  /\ link[c] = "none" /\ app[c] = "idle"
  /\ link' = [link EXCEPT ![c] = "connecting"]
  /\ audioStatus' = [audioStatus EXCEPT ![c] = [ch \in Channel |-> "AUDIO_SEND_ENABLE"]]
  /\ speakerName' = [speakerName EXCEPT ![c] = [ch \in Channel |-> NoOne]]
  /\ \E ch \in Channel : speakChannel' = [speakChannel EXCEPT ![c] = ch]
  /\ openLocalUser' = [openLocalUser EXCEPT ![c] = FALSE]
  /\ openRemoteUser' = [openRemoteUser EXCEPT ![c] = {}]
  /\ userInfoList' = [userInfoList EXCEPT ![c] = {}]
  /\ UNCHANGED <<threadVars, orphan, queueVars, serverVars>>

\* Mutant: the other channel is not looked at.
MayStartBoth(c, ch) ==
  (ch = "room" => c \in Listener) /\ audioStatus[c][ch] = "AUDIO_SEND_ENABLE"

\* The guard of startSendAudio.
MayStart(c, ch) ==
  /\ ch = "room" => c \in Listener
  /\ audioStatus[c][ch] = "AUDIO_SEND_ENABLE"
  /\ \A other \in Channel \ {ch} : audioStatus[c][other] # "AUDIO_SEND_SENDING"

StartSendAudio(c, ch) ==
  /\ link[c] # "none" /\ app[c] = "idle" /\ Space(c) /\ c \in Talker
  /\ IF MayStart(c, ch)
       THEN /\ toServer' = SentVoice(c, ch, "AUDIO_SEND_DISABLE")
            /\ speakChannel' = [speakChannel EXCEPT ![c] = ch]
       ELSE UNCHANGED <<toServer, speakChannel>>
  /\ app' = [app EXCEPT ![c] = "wait"]
  /\ UNCHANGED <<link, audioStatus, speakerName, openLocalUser, rosterVars,
                 quitting, net, orphan, toClient, serverVars>>

Wake(c) ==
  /\ app[c] = "wait"
  /\ app' = [app EXCEPT ![c] = "idle"]
  /\ UNCHANGED <<link, talkVars, rosterVars, quitting, net, orphan, queueVars, serverVars>>

\* stopSendAudio, called by stopIntercomAudio (q FALSE) or logoutServer (q TRUE).
StopSendAudio(c, q) ==
  /\ link[c] # "none" /\ app[c] = "idle" /\ Space(c)
  /\ c \in IF q THEN Leaver ELSE Talker
  /\ toServer' = SentVoice(c, speakChannel[c], "AUDIO_SEND_ENABLE")
  /\ app' = [app EXCEPT ![c] = "check"]
  /\ quitting' = [quitting EXCEPT ![c] = q]
  /\ UNCHANGED <<link, talkVars, rosterVars, net, orphan, toClient, serverVars>>

\* It tests the statuses ...
StopCheck(c) ==
  /\ app[c] = "check"
  /\ app' = [app EXCEPT ![c] =
       IF audioStatus[c]["room"] = "AUDIO_SEND_SENDING" THEN "stop_room"
       ELSE IF audioStatus[c]["group"] = "AUDIO_SEND_SENDING" THEN "stop_group"
       ELSE "close"]
  /\ UNCHANGED <<link, talkVars, rosterVars, quitting, net, orphan, queueVars, serverVars>>

\* ... stops the audio unit, then writes the status it tested.
StopWrite(c, ch) ==
  /\ app[c] = IF ch = "room" THEN "stop_room" ELSE "stop_group"
  /\ audioStatus' = [audioStatus EXCEPT ![c][ch] = "AUDIO_SEND_ENABLE"]
  /\ app' = [app EXCEPT ![c] = "close"]
  /\ UNCHANGED <<link, speakerName, speakChannel, openLocalUser, rosterVars,
                 quitting, net, orphan, queueVars, serverVars>>

\* Mutant: the sender is left open.
StopCloseKeepsSender(c) ==
  /\ app[c] = "close" /\ net[c] = "idle"
  /\ app' = [app EXCEPT ![c] = IF quitting[c] THEN "quit" ELSE "wait"]
  /\ UNCHANGED <<link, talkVars, rosterVars, quitting, net, orphan, queueVars, serverVars>>

\* closeMediaSender, under m_mutex.
StopClose(c) ==
  /\ app[c] = "close" /\ net[c] = "idle"
  /\ openLocalUser' = [openLocalUser EXCEPT ![c] = FALSE]
  /\ app' = [app EXCEPT ![c] = IF quitting[c] THEN "quit" ELSE "wait"]
  /\ UNCHANGED <<link, audioStatus, speakerName, speakChannel, rosterVars,
                 quitting, net, orphan, queueVars, serverVars>>

\* The rest of logoutServer.
Quit(c) ==
  /\ app[c] = "quit" /\ net[c] = "idle" /\ Space(c)
  /\ openLocalUser' = [openLocalUser EXCEPT ![c] = FALSE]
  /\ openRemoteUser' = [openRemoteUser EXCEPT ![c] = {}]
  /\ userInfoList' = [userInfoList EXCEPT ![c] = {}]
  /\ toServer' = Sent(c, Packet("QUITSERVER"))
  /\ app' = [app EXCEPT ![c] = "idle"]
  /\ quitting' = [quitting EXCEPT ![c] = FALSE]
  /\ UNCHANGED <<link, audioStatus, speakerName, speakChannel, net, orphan,
                 toClient, serverVars>>

-----------------------------------------------------------------------------
(* The network thread: connection events (On_SessionConnectStatus).        *)

\* Mutant: the floor state of the lost session is kept.
LoginServerKeepsStatus(c) ==
  /\ link' = [link EXCEPT ![c] = "up"]
  /\ toServer' = [toServer EXCEPT ![c] = Append(@, Packet("LOGINSERVER"))]
  /\ UNCHANGED <<talkVars, rosterVars, threadVars, orphan, toClient, serverVars>>

\* LoginServer resets the floor state and sends LOGINSERVER; it leaves the
\* media sender, the receivers and the user list as they are.
LoginServer(c) ==
  /\ link' = [link EXCEPT ![c] = "up"]
  /\ audioStatus' = [audioStatus EXCEPT ![c] = [ch \in Channel |-> "AUDIO_SEND_ENABLE"]]
  /\ speakerName' = [speakerName EXCEPT ![c] = [ch \in Channel |-> NoOne]]
  /\ toServer' = [toServer EXCEPT ![c] = Append(@, Packet("LOGINSERVER"))]
  /\ UNCHANGED <<speakChannel, openLocalUser, rosterVars, threadVars, orphan,
                 toClient, serverVars>>

\* CS_CONNECTED, CS_RECONNECTED (the same session goes on) and CS_RESTARTED
\* (a new one replaces a session that was lost).
Connected(c)   == link[c] = "connecting" /\ net[c] = "idle" /\ Space(c) /\ LoginServer(c)
Reconnected(c) == link[c] = "busy" /\ net[c] = "idle" /\ Space(c) /\ LoginServer(c)
Restarted(c)   == link[c] = "lost" /\ net[c] = "idle" /\ Space(c) /\ LoginServer(c)

\* CS_BUSY is only reported to the application.
Busy(c) ==
  /\ link[c] = "up" /\ c \in Unsteady
  /\ link' = [link EXCEPT ![c] = "busy"]
  /\ UNCHANGED <<talkVars, rosterVars, threadVars, orphan, queueVars, serverVars>>

\* Server: c's session and connection are over.  The floors c held are free,
\* which the others learn from REMOTEUSERQUIT.
FloorsFreed(c) == [f \in Floors |-> IF holder[f] = c THEN NoOne ELSE holder[f]]

SessionEnds(c) ==
  /\ c \in logged => Uncrowded(Client \ {c})
  /\ toServer' = [toServer EXCEPT ![c] = << >>]
  /\ toClient' = [d \in Client |->
       IF d = c THEN << >>
       ELSE IF {c, d} \subseteq logged THEN Append(toClient[d], About("REMOTEUSERQUIT", c))
       ELSE toClient[d]]
  /\ logged' = logged \ {c}
  /\ holder' = FloorsFreed(c)

\* IConnectStatusCallback after a logout, a refused login, a login elsewhere
\* or a disconnection: the manager is disconnected and deleted, half a second
\* after the event, with whatever it still had open.
Teardown(c) ==
  /\ app[c] \notin Stopping
  /\ link' = [link EXCEPT ![c] = "none"]
  /\ orphan' = [orphan EXCEPT ![c] = @ \/ openLocalUser'[c]]
  /\ SessionEnds(c)
  /\ UNCHANGED <<audioStatus, speakerName, speakChannel, userInfoList, threadVars>>

\* CS_DISCONNECTED: closeMediaSender, StopAllRemoteMedia, then the teardown.
Disconnected(c) ==
  /\ link[c] = "lost" /\ net[c] = "idle"
  /\ openLocalUser' = [openLocalUser EXCEPT ![c] = FALSE]
  /\ openRemoteUser' = [openRemoteUser EXCEPT ![c] = {}]
  /\ Teardown(c)

-----------------------------------------------------------------------------
(* The network thread: packets (OnDispatchCmd).                            *)

\* The next packet for c is a cmd, and the thread is free to handle it.
Receives(c, cmd) ==
  /\ link[c] = "up" /\ net[c] = "idle"
  /\ toClient[c] # << >> /\ Head(toClient[c]).cmd = cmd

Handled(c) == toClient' = [toClient EXCEPT ![c] = Tail(@)]

\* Mutant: the user list is not asked for.
LoginServeredAsksNothing(c) ==
  /\ Receives(c, "LOGINSERVERED")
  /\ Handled(c)
  /\ UNCHANGED <<link, talkVars, rosterVars, threadVars, orphan, toServer, serverVars>>

\* LOGINSERVERED with ERRORTYPE 0: getUserList.
LoginServered(c) ==
  /\ Receives(c, "LOGINSERVERED")
  /\ Handled(c)
  /\ toServer' = Sent(c, Packet("GETUSERLIST"))
  /\ UNCHANGED <<link, talkVars, rosterVars, threadVars, orphan, serverVars>>

\* LOGINSERVERED with an error, and USERQUIT: straight to the teardown.
LoginRefusedOrUserQuit(c) ==
  /\ Receives(c, "LOGINREFUSED") \/ Receives(c, "USERQUIT")
  /\ UNCHANGED <<openLocalUser, openRemoteUser>>
  /\ Teardown(c)

\* RELOGIN: closeMediaSender, StopAllRemoteMedia, then the teardown.
Relogin(c) ==
  /\ Receives(c, "RELOGIN")
  /\ openLocalUser' = [openLocalUser EXCEPT ![c] = FALSE]
  /\ openRemoteUser' = [openRemoteUser EXCEPT ![c] = {}]
  /\ Teardown(c)

RemoteUserLogin(c) ==
  /\ Receives(c, "REMOTEUSERLOGIN")
  /\ Handled(c)
  /\ userInfoList' = [userInfoList EXCEPT ![c] = @ \cup {Head(toClient[c]).user}]
  /\ UNCHANGED <<link, talkVars, openRemoteUser, threadVars, orphan, toServer, serverVars>>

\* Mutant: nothing is done about a user who quits.
RemoteUserQuitKeepsUser(c) ==
  /\ Receives(c, "REMOTEUSERQUIT")
  /\ Handled(c)
  /\ UNCHANGED <<link, talkVars, rosterVars, threadVars, orphan, toServer, serverVars>>

\* A user who quits frees the channels it was speaking on.  Its receiver
\* stays in m_pOpenRemoteUser_map.
RemoteUserQuit(c) ==
  /\ Receives(c, "REMOTEUSERQUIT")
  /\ Handled(c)
  /\ LET u == Head(toClient[c]).user IN
     /\ userInfoList' = [userInfoList EXCEPT ![c] = @ \ {u}]
     /\ audioStatus' = [audioStatus EXCEPT ![c] = [ch \in Channel |->
          IF speakerName[c][ch] = u THEN "AUDIO_SEND_ENABLE" ELSE @[ch]]]
     /\ speakerName' = [speakerName EXCEPT ![c] = [ch \in Channel |->
          IF @[ch] = u THEN NoOne ELSE @[ch]]]
  /\ UNCHANGED <<link, speakChannel, openLocalUser, openRemoteUser, threadVars,
                 orphan, toServer, serverVars>>

\* For a user who is not in the list, the callback reads past its end
\* (iter->second): the program may also die, and its session with it.
QuitOfStranger(c) ==
  /\ Receives(c, "REMOTEUSERQUIT") /\ Head(toClient[c]).user \notin userInfoList[c]
  /\ c \in Unsteady
  /\ link' = [link EXCEPT ![c] = "none"]
  /\ openLocalUser' = [openLocalUser EXCEPT ![c] = FALSE]
  /\ openRemoteUser' = [openRemoteUser EXCEPT ![c] = {}]
  /\ app' = [app EXCEPT ![c] = "idle"]
  /\ quitting' = [quitting EXCEPT ![c] = FALSE]
  /\ SessionEnds(c)
  /\ UNCHANGED <<audioStatus, speakerName, speakChannel, userInfoList, net, orphan>>

\* UPDATEUSERLIST adds users and never removes one.
UpdateUserList(c) ==
  /\ Receives(c, "UPDATEUSERLIST")
  /\ Handled(c)
  /\ userInfoList' = [userInfoList EXCEPT ![c] = @ \cup Head(toClient[c]).users]
  /\ UNCHANGED <<link, talkVars, openRemoteUser, threadVars, orphan, toServer, serverVars>>

\* A SENDVOICE for c's room, or for its group, saying data.
Hears(c, data) ==
  /\ Receives(c, "SENDVOICE")
  /\ Head(toClient[c]).data = data
  /\ Head(toClient[c]).floor \in {Room, Group[c]}

\* SENDVOICE of another group, one's own request coming back, and a speaker
\* in a room one does not listen to are ignored.
VoiceIgnored(c) ==
  /\ Receives(c, "SENDVOICE")
  /\ \/ ~ Hears(c, "AUDIO_SEND_ENABLE") /\ ~ Hears(c, "AUDIO_SEND_DISABLE")
     \/ /\ Hears(c, "AUDIO_SEND_DISABLE")
        /\ \/ Head(toClient[c]).user = c
           \/ Head(toClient[c]).floor = Room /\ c \notin Listener
  /\ Handled(c)
  /\ UNCHANGED <<link, talkVars, rosterVars, threadVars, orphan, toServer, serverVars>>

\* AUDIO_SEND_ENABLE under one's own name grants the floor.
\* Mutant: whoever frees a floor grants it.
GrantsAnybody(c) == Hears(c, "AUDIO_SEND_ENABLE")
GrantsMe(c) == Hears(c, "AUDIO_SEND_ENABLE") /\ Head(toClient[c]).user = c

VoiceGranted(c) ==
  /\ GrantsMe(c)
  /\ Handled(c)
  /\ audioStatus' = [audioStatus EXCEPT
       ![c][ChannelOf(Head(toClient[c]).floor)] = "AUDIO_SEND_SENDING"]
  /\ net' = [net EXCEPT ![c] = "granted"]
  /\ UNCHANGED <<link, speakerName, speakChannel, openLocalUser, rosterVars,
                 app, quitting, orphan, toServer, serverVars>>

OpenMediaSender(c) ==
  /\ net[c] = "granted"
  /\ openLocalUser' = [openLocalUser EXCEPT ![c] = TRUE]
  /\ net' = [net EXCEPT ![c] = "idle"]
  /\ UNCHANGED <<link, audioStatus, speakerName, speakChannel, rosterVars,
                 app, quitting, orphan, queueVars, serverVars>>

\* When u falls silent on ch, its receiver is closed; when the other channel is
\* silent too and several receivers are open, all are.
\* Mutant: the other channel is not looked at.
StillOpenEither(c, ch, u) ==
  IF Cardinality(openRemoteUser[c]) > 1 THEN {} ELSE openRemoteUser[c] \ {u}
StillOpen(c, ch, u) ==
  LET silent == \A o \in Channel \ {ch} : audioStatus[c][o] # "AUDIO_SEND_DISABLE"
  IN  IF silent /\ Cardinality(openRemoteUser[c]) > 1 THEN {} ELSE openRemoteUser[c] \ {u}

\* AUDIO_SEND_ENABLE under another name: its channel is free again.
VoiceEnable(c) ==
  /\ Hears(c, "AUDIO_SEND_ENABLE") /\ Head(toClient[c]).user # c
  /\ Handled(c)
  /\ LET m  == Head(toClient[c])
         ch == ChannelOf(m.floor)
     IN /\ audioStatus' = [audioStatus EXCEPT ![c][ch] = "AUDIO_SEND_ENABLE"]
        /\ speakerName' = [speakerName EXCEPT ![c][ch] = NoOne]
        /\ openRemoteUser' = [openRemoteUser EXCEPT ![c] = StillOpen(c, ch, m.user)]
  /\ UNCHANGED <<link, speakChannel, openLocalUser, userInfoList, threadVars,
                 orphan, toServer, serverVars>>

\* AUDIO_SEND_DISABLE under another name: that user speaks on the channel.  SendVoice
\* puts no PEERUSERID into a SENDVOICE (646-663), so the receiver that 483-497 would
\* close is not found.  The new receiver is stored under USERID and replaces one that
\* RemoteUserQuit left there, which nobody closes any more: openRemoteUser is the keys
\* of m_pOpenRemoteUser_map, not the receivers that were ever opened.
VoiceDisable(c) ==
  /\ Hears(c, "AUDIO_SEND_DISABLE") /\ Head(toClient[c]).user # c
  /\ Head(toClient[c]).floor = Room => c \in Listener
  /\ Handled(c)
  /\ LET m  == Head(toClient[c])
         ch == ChannelOf(m.floor)
     IN /\ audioStatus' = [audioStatus EXCEPT ![c][ch] = "AUDIO_SEND_DISABLE"]
        /\ speakerName' = [speakerName EXCEPT ![c][ch] = m.user]
        /\ openRemoteUser' = [openRemoteUser EXCEPT ![c] = @ \cup {m.user}]
  /\ UNCHANGED <<link, speakChannel, openLocalUser, userInfoList, threadVars,
                 orphan, toServer, serverVars>>

-----------------------------------------------------------------------------
(* The server and the connection (external).                               *)

\* The server's next packet from c is a cmd.
Asked(c, cmd) ==
  /\ link[c] \in {"up", "busy"}
  /\ toServer[c] # << >> /\ Head(toServer[c]).cmd = cmd
  /\ Uncrowded(Client)

AskedVoice(c, data) ==
  /\ Asked(c, "SENDVOICE") /\ c \in logged /\ Head(toServer[c]).data = data

Served(c) == toServer' = [toServer EXCEPT ![c] = Tail(@)]

\* own to c, and other to everyone else with a session.
Tell(c, own, other) ==
  toClient' = [d \in Client |->
    IF d = c THEN toClient[d] \o own
    ELSE IF d \in logged THEN toClient[d] \o other
    ELSE toClient[d]]

\* What a user who logs in is told of a floor that somebody else holds.
Replay(c, f) ==
  IF f \notin Floors \/ holder[f] \in {c, NoOne} THEN << >>
  ELSE << Voice(holder[f], f, "AUDIO_SEND_DISABLE") >>

\* A login ends the session the user had.
ServerLogin(c) ==
  /\ Asked(c, "LOGINSERVER") /\ Served(c)
  /\ Tell(c, << Packet("LOGINSERVERED") >> \o Replay(c, Room) \o Replay(c, Group[c]),
          IF c \in logged
            THEN << About("REMOTEUSERQUIT", c), About("REMOTEUSERLOGIN", c) >>
            ELSE << About("REMOTEUSERLOGIN", c) >>)
  /\ logged' = logged \cup {c}
  /\ holder' = FloorsFreed(c)
  /\ UNCHANGED <<link, talkVars, rosterVars, threadVars, orphan>>

ServerRefuse(c) ==
  /\ Asked(c, "LOGINSERVER") /\ Served(c) /\ c \in Refused
  /\ Tell(c, << Packet("LOGINREFUSED") >>, << >>)
  /\ UNCHANGED <<link, talkVars, rosterVars, threadVars, orphan, serverVars>>

ServerUserList(c) ==
  /\ Asked(c, "GETUSERLIST") /\ Served(c)
  /\ Tell(c, << UserList(logged) >>, << >>)
  /\ UNCHANGED <<link, talkVars, rosterVars, threadVars, orphan, serverVars>>

ServerQuit(c) ==
  /\ Asked(c, "QUITSERVER") /\ Served(c)
  /\ Tell(c, << Packet("USERQUIT") >>,
          IF c \in logged THEN << About("REMOTEUSERQUIT", c) >> ELSE << >>)
  /\ logged' = logged \ {c}
  /\ holder' = FloorsFreed(c)
  /\ UNCHANGED <<link, talkVars, rosterVars, threadVars, orphan>>

ServerGrant(c) ==
  /\ AskedVoice(c, "AUDIO_SEND_DISABLE") /\ Served(c)
  /\ LET f == Head(toServer[c]).floor IN
     /\ holder[f] = NoOne
     /\ holder' = [holder EXCEPT ![f] = c]
     /\ Tell(c, << Voice(c, f, "AUDIO_SEND_ENABLE") >>,
                << Voice(c, f, "AUDIO_SEND_DISABLE") >>)
  /\ UNCHANGED <<link, talkVars, rosterVars, threadVars, orphan, logged>>

ServerRelease(c) ==
  /\ AskedVoice(c, "AUDIO_SEND_ENABLE") /\ Served(c)
  /\ LET f == Head(toServer[c]).floor IN
     /\ holder[f] = c
     /\ holder' = [holder EXCEPT ![f] = NoOne]
     /\ Tell(c, << >>, << Voice(c, f, "AUDIO_SEND_ENABLE") >>)
  /\ UNCHANGED <<link, talkVars, rosterVars, threadVars, orphan, logged>>

\* A request for a floor that is taken, the release of one that is not one's
\* own, and the voice commands of a user without a session have no effect.
ServerIgnore(c) ==
  /\ Asked(c, "SENDVOICE") /\ Served(c)
  /\ LET m == Head(toServer[c]) IN
       \/ c \notin logged
       \/ m.data = "AUDIO_SEND_DISABLE" /\ holder[m.floor] # NoOne
       \/ m.data = "AUDIO_SEND_ENABLE" /\ holder[m.floor] # c
  /\ UNCHANGED <<link, talkVars, rosterVars, threadVars, orphan, toClient, serverVars>>

\* The account logs in on another device.
ServerKick(c) ==
  /\ c \in logged /\ link[c] = "up" /\ c \in Unsteady /\ Uncrowded(Client)
  /\ Tell(c, << Packet("RELOGIN") >>, << About("REMOTEUSERQUIT", c) >>)
  /\ logged' = logged \ {c}
  /\ holder' = FloorsFreed(c)
  /\ UNCHANGED <<link, talkVars, rosterVars, threadVars, orphan, toServer>>

\* The session of a client that is reconnecting expires.
ServerDrop(c) ==
  /\ link[c] = "busy"
  /\ link' = [link EXCEPT ![c] = "lost"]
  /\ SessionEnds(c)
  /\ UNCHANGED <<talkVars, rosterVars, threadVars, orphan>>

-----------------------------------------------------------------------------
(* The whole system.                                                       *)

\* Nothing that c asked for is still on its way.
Voices(q) == {i \in DOMAIN q : q[i].cmd = "SENDVOICE"}
Answered(c) ==
  /\ net[c] = "idle"
  /\ Voices(toServer[c]) = {}
  /\ \A i \in Voices(toClient[c]) : toClient[c][i].user # c

AppStep(c) == \/ Login(c)
              \/ \E ch \in Channel : StartSendAudio(c, ch)
              \/ \E q \in BOOLEAN : StopSendAudio(c, q)
              \/ StopCheck(c)
              \/ \E ch \in Channel : StopWrite(c, ch)
              \/ StopClose(c)
              \/ Quit(c)

NetStep(c) == \/ Connected(c) \/ LoginServered(c) \/ LoginRefusedOrUserQuit(c)
              \/ RemoteUserLogin(c) \/ RemoteUserQuit(c) \/ UpdateUserList(c)
              \/ VoiceIgnored(c) \/ VoiceGranted(c) \/ OpenMediaSender(c)
              \/ VoiceEnable(c) \/ VoiceDisable(c)

ServerStep(c) == \/ ServerLogin(c) \/ ServerRefuse(c) \/ ServerUserList(c)
                 \/ ServerQuit(c) \/ ServerGrant(c) \/ ServerRelease(c)
                 \/ ServerIgnore(c)

Outage(c) == \/ Busy(c) \/ Reconnected(c) \/ Restarted(c) \/ Disconnected(c)
             \/ ServerDrop(c) \/ ServerKick(c) \/ Relogin(c) \/ QuitOfStranger(c)

Next == \E c \in Client :
          AppStep(c) \/ Wake(c) \/ NetStep(c) \/ ServerStep(c) \/ Outage(c)

Spec == Init /\ [][Next]_vars

\* The network as startIntercomAudio and stopIntercomAudio expect it: no
\* outage, and an answer within the 100 ms that each of them sleeps.
PromptStep(c) ==
  AppStep(c) \/ (Answered(c) /\ Wake(c)) \/ NetStep(c) \/ ServerStep(c)

PromptNext == \E c \in Client : PromptStep(c)

PromptSpec == Init /\ [][PromptNext]_vars
=============================================================================
