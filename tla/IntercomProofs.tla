--------------------------- MODULE IntercomProofs ---------------------------
(***************************************************************************)
(* The push-to-talk client with any network: its types, the inductive      *)
(* invariant AnyInv of IntercomInv.tla and what follows from it, for every *)
(* set of users, every assignment of groups and every bound on the queues. *)
(***************************************************************************)
EXTENDS IntercomInv, TLAPS

-----------------------------------------------------------------------------
(* Types.                                                                  *)

\* The channel of a floor, and back.
LEMMA ChannelFloor ==
  ASSUME NEW c \in Client
  PROVE  /\ FloorOf(c, "room") = Room
         /\ FloorOf(c, "group") = Group[c]
         /\ \A ch \in Channel : ChannelOf(FloorOf(c, ch)) = ch
         /\ FloorOf(c, "room") \in Floors
         /\ Group[c] # NoGroup => FloorOf(c, "group") \in Floors
         /\ \A f \in {Room, Group[c]} : FloorOf(c, ChannelOf(f)) = f
         /\ \A f : ChannelOf(f) \in Channel
BY IntercomAssumption DEF FloorOf, ChannelOf, Floors, Channel

LEMMA SentType ==
  ASSUME TypeOK, NEW c \in Client, NEW m \in ToServer
  PROVE  Sent(c, m) \in [Client -> Seq(ToServer)]
BY DEF TypeOK, Sent

LEMMA SentVoiceType ==
  ASSUME TypeOK, NEW c \in Client, NEW ch \in Channel, NEW d \in VoiceData
  PROVE  SentVoice(c, ch, d) \in [Client -> Seq(ToServer)]
<1>1. CASE ch = "group" /\ Group[c] = NoGroup
  BY <1>1 DEF SentVoice, TypeOK
<1>2. CASE ~ (ch = "group" /\ Group[c] = NoGroup)
  <2>1. FloorOf(c, ch) \in Floors
    BY <1>2, ChannelFloor DEF Channel
  <2>2. Voice(c, FloorOf(c, ch), d) \in ToServer
    BY <2>1 DEF Voice, ToServer, VoicePacket
  <2>. QED BY <1>2, <2>2, SentType DEF SentVoice
<1>. QED BY <1>1, <1>2

LEMMA TellType ==
  ASSUME TypeOK, NEW c \in Client, NEW own \in Seq(ToClient), NEW other \in Seq(ToClient),
         Tell(c, own, other)
  PROVE  toClient' \in [Client -> Seq(ToClient)]
<1>1. \A d \in Client : /\ toClient[d] \o own \in Seq(ToClient)
                        /\ toClient[d] \o other \in Seq(ToClient)
                        /\ toClient[d] \in Seq(ToClient)
  BY DEF TypeOK
<1>. QED BY <1>1 DEF Tell

LEMMA HandledType ==
  ASSUME TypeOK, NEW c \in Client, Handled(c), toClient[c] # << >>
  PROVE  toClient' \in [Client -> Seq(ToClient)]
BY DEF TypeOK, Handled

LEMMA HeadType ==
  ASSUME TypeOK, NEW c \in Client
  PROVE  /\ toClient[c] # << >> => Head(toClient[c]) \in ToClient
         /\ toServer[c] # << >> => Head(toServer[c]) \in ToServer
         /\ toServer[c] # << >> => Tail(toServer[c]) \in Seq(ToServer)
         /\ toClient[c] # << >> => Tail(toClient[c]) \in Seq(ToClient)
BY DEF TypeOK

LEMMA AppTypes ==
  ASSUME TypeOK, NEW c \in Client, AppStep(c) \/ Wake(c)
  PROVE  TypeOK'
<1>1. CASE Login(c)
  BY <1>1 DEF Login, TypeOK, Link, AUDIO_SEND_STATUS, threadVars, queueVars, serverVars
<1>2. ASSUME NEW ch \in Channel, StartSendAudio(c, ch)
      PROVE  TypeOK'
  <2>1. toServer' \in [Client -> Seq(ToServer)]
    BY <1>2, SentVoiceType DEF StartSendAudio, VoiceData, TypeOK
  <2>. QED BY <1>2, <2>1 DEF StartSendAudio, TypeOK, App, rosterVars, serverVars
<1>3. ASSUME NEW q \in BOOLEAN, StopSendAudio(c, q)
      PROVE  TypeOK'
  <2>1. toServer' \in [Client -> Seq(ToServer)]
    BY <1>3, SentVoiceType DEF StopSendAudio, VoiceData, TypeOK
  <2>. QED BY <1>3, <2>1 DEF StopSendAudio, TypeOK, App, talkVars, rosterVars, serverVars
<1>4. CASE StopCheck(c)
  BY <1>4 DEF StopCheck, TypeOK, App, talkVars, rosterVars, queueVars, serverVars
<1>5. ASSUME NEW ch \in Channel, StopWrite(c, ch)
      PROVE  TypeOK'
  BY <1>5 DEF StopWrite, TypeOK, App, AUDIO_SEND_STATUS, rosterVars, queueVars, serverVars
<1>6. CASE StopClose(c)
  BY <1>6 DEF StopClose, TypeOK, App, rosterVars, queueVars, serverVars
<1>7. CASE Quit(c)
  <2>1. toServer' \in [Client -> Seq(ToServer)]
    BY <1>7, SentType DEF Quit, Packet, ToServer
  <2>. QED BY <1>7, <2>1 DEF Quit, TypeOK, App, serverVars
<1>8. CASE Wake(c)
  BY <1>8 DEF Wake, TypeOK, App, talkVars, rosterVars, queueVars, serverVars
<1>. QED BY <1>1, <1>2, <1>3, <1>4, <1>5, <1>6, <1>7, <1>8 DEF AppStep

LEMMA SessionEndsType ==
  ASSUME TypeOK, NEW c \in Client, SessionEnds(c)
  PROVE  /\ toServer' \in [Client -> Seq(ToServer)]
         /\ toClient' \in [Client -> Seq(ToClient)]
         /\ logged' \in SUBSET Client
         /\ holder' \in [Floors -> Client \cup {NoOne}]
<1>1. About("REMOTEUSERQUIT", c) \in ToClient
  BY DEF About, ToClient
<1>. QED BY <1>1 DEF SessionEnds, TypeOK, FloorsFreed

LEMMA NetTypes ==
  ASSUME TypeOK, NEW c \in Client, NetStep(c) \/ Outage(c)
  PROVE  TypeOK'
<1>1. ASSUME LoginServer(c)
      PROVE  TypeOK'
  <2>1. toServer' \in [Client -> Seq(ToServer)]
    BY <1>1 DEF LoginServer, Packet, ToServer, TypeOK
  <2>. QED BY <1>1, <2>1 DEF LoginServer, TypeOK, Link, AUDIO_SEND_STATUS, rosterVars,
                             threadVars, serverVars
<1>2. CASE Busy(c)
  BY <1>2 DEF Busy, TypeOK, Link, talkVars, rosterVars, threadVars, queueVars, serverVars
<1>3. CASE Disconnected(c)
  BY <1>3, SessionEndsType DEF Disconnected, Teardown, TypeOK, Link, threadVars
<1>4. CASE LoginServered(c)
  <2>1. toServer' \in [Client -> Seq(ToServer)]
    BY <1>4, SentType DEF LoginServered, Packet, ToServer
  <2>2. toClient' \in [Client -> Seq(ToClient)]
    BY <1>4, HandledType DEF LoginServered, Receives
  <2>. QED BY <1>4, <2>1, <2>2 DEF LoginServered, TypeOK, talkVars, rosterVars, threadVars, serverVars
<1>5. CASE LoginRefusedOrUserQuit(c)
  BY <1>5, SessionEndsType DEF LoginRefusedOrUserQuit, Teardown, TypeOK, Link, threadVars
<1>6. CASE Relogin(c)
  BY <1>6, SessionEndsType DEF Relogin, Teardown, TypeOK, Link, threadVars
<1>7. CASE RemoteUserLogin(c)
  <2>1. /\ toClient' \in [Client -> Seq(ToClient)]
        /\ Head(toClient[c]).user \in Client
    BY <1>7, HandledType, HeadType DEF RemoteUserLogin, Receives, ToClient, VoicePacket
  <2>. QED BY <1>7, <2>1 DEF RemoteUserLogin, TypeOK, talkVars, threadVars, serverVars
<1>8. CASE RemoteUserQuit(c)
  <2>1. toClient' \in [Client -> Seq(ToClient)]
    BY <1>8, HandledType DEF RemoteUserQuit, Receives
  <2>2. \A u : /\ [ch \in Channel |-> IF speakerName[c][ch] = u THEN "AUDIO_SEND_ENABLE"
                                     ELSE audioStatus[c][ch]] \in [Channel -> AUDIO_SEND_STATUS]
              /\ [ch \in Channel |-> IF speakerName[c][ch] = u THEN NoOne
                                     ELSE speakerName[c][ch]] \in [Channel -> Client \cup {NoOne}]
    BY DEF TypeOK, AUDIO_SEND_STATUS
  <2>3. /\ audioStatus' \in [Client -> [Channel -> AUDIO_SEND_STATUS]]
        /\ speakerName' \in [Client -> [Channel -> Client \cup {NoOne}]]
        /\ userInfoList' \in [Client -> SUBSET Client]
    BY <1>8, <2>2 DEF RemoteUserQuit, TypeOK
  <2>. QED BY <1>8, <2>1, <2>3 DEF RemoteUserQuit, TypeOK, threadVars, serverVars
<1>9. CASE UpdateUserList(c)
  <2>1. /\ toClient' \in [Client -> Seq(ToClient)]
        /\ Head(toClient[c]).users \in SUBSET Client
    BY <1>9, HandledType, HeadType DEF UpdateUserList, Receives, ToClient, VoicePacket
  <2>. QED BY <1>9, <2>1 DEF UpdateUserList, TypeOK, talkVars, threadVars, serverVars
<1>10. CASE VoiceIgnored(c)
  <2>1. toClient' \in [Client -> Seq(ToClient)]
    BY <1>10, HandledType DEF VoiceIgnored, Receives
  <2>. QED BY <1>10, <2>1 DEF VoiceIgnored, TypeOK, talkVars, rosterVars, threadVars, serverVars
<1>11. CASE VoiceGranted(c)
  <2>1. toClient' \in [Client -> Seq(ToClient)]
    BY <1>11, HandledType DEF VoiceGranted, GrantsMe, Hears, Receives
  <2>2. ChannelOf(Head(toClient[c]).floor) \in Channel
    BY ChannelFloor
  <2>. QED BY <1>11, <2>1, <2>2 DEF VoiceGranted, TypeOK, AUDIO_SEND_STATUS, Net, rosterVars, serverVars
<1>12. CASE OpenMediaSender(c)
  BY <1>12 DEF OpenMediaSender, TypeOK, Net, rosterVars, queueVars, serverVars
<1>13. CASE VoiceEnable(c)
  <2>1. toClient' \in [Client -> Seq(ToClient)]
    BY <1>13, HandledType DEF VoiceEnable, Hears, Receives
  <2>2. ChannelOf(Head(toClient[c]).floor) \in Channel
    BY ChannelFloor
  <2>3. \A ch, u : StillOpen(c, ch, u) \in SUBSET Client
    BY DEF StillOpen, TypeOK
  <2>. QED BY <1>13, <2>1, <2>2, <2>3 DEF VoiceEnable, TypeOK, AUDIO_SEND_STATUS, threadVars, serverVars
<1>14. CASE VoiceDisable(c)
  <2>1. /\ toClient' \in [Client -> Seq(ToClient)]
        /\ Head(toClient[c]).user \in Client
    BY <1>14, HandledType, HeadType DEF VoiceDisable, Hears, Receives, ToClient, VoicePacket
  <2>2. ChannelOf(Head(toClient[c]).floor) \in Channel
    BY ChannelFloor
  <2>. QED BY <1>14, <2>1, <2>2 DEF VoiceDisable, TypeOK, AUDIO_SEND_STATUS, threadVars, serverVars
<1>15. CASE ServerDrop(c)
  BY <1>15, SessionEndsType DEF ServerDrop, TypeOK, Link, talkVars, rosterVars, threadVars
<1>16. CASE ServerKick(c)
  <2>1. /\ << Packet("RELOGIN") >> \in Seq(ToClient)
        /\ << About("REMOTEUSERQUIT", c) >> \in Seq(ToClient)
    BY DEF Packet, About, ToClient
  <2>2. toClient' \in [Client -> Seq(ToClient)]
    BY <1>16, <2>1, TellType DEF ServerKick
  <2>. QED BY <1>16, <2>2 DEF ServerKick, TypeOK, FloorsFreed, talkVars, rosterVars, threadVars
<1>17. CASE QuitOfStranger(c)
  BY <1>17, SessionEndsType DEF QuitOfStranger, TypeOK, Link, App
<1>. QED BY <1>1, <1>2, <1>3, <1>4, <1>5, <1>6, <1>7, <1>8, <1>9, <1>10, <1>11, <1>12,
            <1>13, <1>14, <1>15, <1>16, <1>17
         DEF NetStep, Outage, Connected, Reconnected, Restarted

LEMMA ServerTypes ==
  ASSUME TypeOK, NEW c \in Client, ServerStep(c)
  PROVE  TypeOK'
<1>0. ASSUME NEW cmd, Asked(c, cmd), Served(c)
      PROVE  /\ toServer' \in [Client -> Seq(ToServer)]
             /\ Head(toServer[c]) \in ToServer
  BY <1>0, HeadType DEF Asked, Served, TypeOK
<1>a. \A cmd : About(cmd, c) \in ToClient <=> cmd \in {"REMOTEUSERLOGIN", "REMOTEUSERQUIT"}
  BY DEF About, ToClient, VoicePacket
<1>1. CASE ServerLogin(c)
  <2>1. \A f : Replay(c, f) \in Seq(ToClient)
    <3> SUFFICES ASSUME NEW f, f \in Floors, holder[f] \notin {c, NoOne}
                 PROVE  << Voice(holder[f], f, "AUDIO_SEND_DISABLE") >> \in Seq(ToClient)
      BY DEF Replay
    <3>. QED BY DEF TypeOK, Voice, VoicePacket, VoiceData, ToClient
  <2>2. << Packet("LOGINSERVERED") >> \in Seq(ToClient)
    BY DEF Packet, ToClient
  <2>3. << Packet("LOGINSERVERED") >> \o Replay(c, Room) \o Replay(c, Group[c]) \in Seq(ToClient)
    BY <2>1, <2>2
  <2>4. /\ << About("REMOTEUSERQUIT", c), About("REMOTEUSERLOGIN", c) >> \in Seq(ToClient)
        /\ << About("REMOTEUSERLOGIN", c) >> \in Seq(ToClient)
    BY <1>a
  <2>5. toClient' \in [Client -> Seq(ToClient)]
    BY <1>1, <2>3, <2>4, TellType DEF ServerLogin
  <2>. QED BY <1>1, <1>0, <2>5 DEF ServerLogin, TypeOK, FloorsFreed, talkVars, rosterVars, threadVars
<1>2. CASE ServerRefuse(c)
  <2>1. << Packet("LOGINREFUSED") >> \in Seq(ToClient) /\ << >> \in Seq(ToClient)
    BY DEF Packet, ToClient
  <2>2. toClient' \in [Client -> Seq(ToClient)]
    BY <1>2, <2>1, TellType DEF ServerRefuse
  <2>. QED BY <1>2, <1>0, <2>2 DEF ServerRefuse, TypeOK, talkVars, rosterVars, threadVars, serverVars
<1>3. CASE ServerUserList(c)
  <2>1. << UserList(logged) >> \in Seq(ToClient) /\ << >> \in Seq(ToClient)
    BY DEF UserList, ToClient, TypeOK
  <2>2. toClient' \in [Client -> Seq(ToClient)]
    BY <1>3, <2>1, TellType DEF ServerUserList
  <2>. QED BY <1>3, <1>0, <2>2 DEF ServerUserList, TypeOK, talkVars, rosterVars, threadVars, serverVars
<1>4. CASE ServerQuit(c)
  <2>1. /\ << Packet("USERQUIT") >> \in Seq(ToClient)
        /\ << About("REMOTEUSERQUIT", c) >> \in Seq(ToClient)
        /\ << >> \in Seq(ToClient)
    BY <1>a DEF Packet, ToClient
  <2>2. toClient' \in [Client -> Seq(ToClient)]
    BY <1>4, <2>1, TellType DEF ServerQuit
  <2>. QED BY <1>4, <1>0, <2>2 DEF ServerQuit, TypeOK, FloorsFreed, talkVars, rosterVars, threadVars
<1>5. ASSUME NEW f \in Floors, NEW d \in VoiceData
      PROVE  << Voice(c, f, d) >> \in Seq(ToClient)
  BY DEF Voice, VoicePacket, ToClient
<1>6. ASSUME NEW d, AskedVoice(c, d), Served(c)
      PROVE  Head(toServer[c]).floor \in Floors
  BY <1>6, HeadType DEF AskedVoice, Asked, ToServer, VoicePacket
<1>7. CASE ServerGrant(c)
  <2>1. toClient' \in [Client -> Seq(ToClient)]
    BY <1>7, <1>5, <1>6, TellType DEF ServerGrant, VoiceData
  <2>. QED BY <1>7, <1>0, <2>1 DEF ServerGrant, AskedVoice, TypeOK, talkVars, rosterVars, threadVars
<1>8. CASE ServerRelease(c)
  <2>1. toClient' \in [Client -> Seq(ToClient)]
    BY <1>8, <1>5, <1>6, TellType, << >> \in Seq(ToClient) DEF ServerRelease, VoiceData
  <2>. QED BY <1>8, <1>0, <2>1 DEF ServerRelease, AskedVoice, TypeOK, talkVars, rosterVars, threadVars
<1>9. CASE ServerIgnore(c)
  BY <1>9, <1>0 DEF ServerIgnore, TypeOK, talkVars, rosterVars, threadVars, serverVars
<1>. QED BY <1>1, <1>2, <1>3, <1>4, <1>7, <1>8, <1>9 DEF ServerStep

LEMMA StutterTypes == TypeOK /\ UNCHANGED vars => TypeOK'
BY DEF TypeOK, vars, talkVars, rosterVars, threadVars, queueVars, serverVars

\* Every variable keeps its type whatever the network does.
THEOREM TypeInvariant == Spec => []TypeOK
<1>1. Init => TypeOK
  BY DEF Init, TypeOK, Link, App, Net, AUDIO_SEND_STATUS
<1>2. TypeOK /\ [Next]_vars => TypeOK'
  BY AppTypes, NetTypes, ServerTypes, StutterTypes DEF Next
<1>. QED BY <1>1, <1>2, PTL DEF Spec

LEMMA PromptTypes == PromptSpec => []TypeOK
<1>1. Init => TypeOK
  BY DEF Init, TypeOK, Link, App, Net, AUDIO_SEND_STATUS
<1>2. TypeOK /\ [PromptNext]_vars => TypeOK'
  BY AppTypes, NetTypes, ServerTypes, StutterTypes DEF PromptNext, PromptStep
<1>. QED BY <1>1, <1>2, PTL DEF PromptSpec

-----------------------------------------------------------------------------
(* What a step does to the queues.                                         *)

\* Reading the head of toClient[c] moves every other packet one place forward.
LEMMA Read ==
  ASSUME TypeOK, NEW c \in Client, toClient[c] # << >>, Handled(c)
  PROVE  /\ \A d \in Client \ {c} : toClient'[d] = toClient[d]
         /\ Len(toClient[c]) \in Nat \ {0} /\ toClient[c][1] = Head(toClient[c])
         /\ Len(toClient'[c]) = Len(toClient[c]) - 1
         /\ \A j \in 1 .. Len(toClient[c]) : j # 1 => j - 1 \in 1 .. Len(toClient'[c])
         /\ \A i \in 1 .. Len(toClient'[c]) :
              /\ i \in Nat \ {0} /\ i + 1 \in 1 .. Len(toClient[c])
              /\ toClient'[c][i] = toClient[c][i + 1]
              /\ \A cmd : Entry(toClient[c], i, cmd)' <=> Entry(toClient[c], i + 1, cmd)
              /\ News(c, i)' <=> News(c, i + 1)
              /\ Grant(c, i)' <=> Grant(c, i + 1)
              /\ \A u, f : Frees(c, i, u, f)' <=> Frees(c, i + 1, u, f)
              /\ \A u : Brings(c, i, u)' <=> Brings(c, i + 1, u)
              /\ \A u : Takes(c, i, u)' <=> Takes(c, i + 1, u)
<1>1. /\ toClient'[c] = Tail(toClient[c]) /\ toClient[c] \in Seq(ToClient)
      /\ \A d \in Client \ {c} : toClient'[d] = toClient[d]
  BY DEF TypeOK, Handled
<1>2. /\ Len(toClient[c]) \in Nat \ {0} /\ toClient[c][1] = Head(toClient[c])
      /\ Len(toClient'[c]) = Len(toClient[c]) - 1
      /\ \A i \in 1 .. Len(toClient'[c]) : toClient'[c][i] = toClient[c][i + 1]
  BY <1>1
<1>3. /\ \A j \in 1 .. Len(toClient[c]) : j # 1 => j - 1 \in 1 .. Len(toClient'[c])
      /\ \A i \in 1 .. Len(toClient'[c]) : i \in Nat \ {0} /\ i + 1 \in 1 .. Len(toClient[c])
  BY <1>2
<1>4. ASSUME NEW i \in 1 .. Len(toClient'[c])
      PROVE  /\ \A cmd : Entry(toClient[c], i, cmd)' <=> Entry(toClient[c], i + 1, cmd)
             /\ News(c, i)' <=> News(c, i + 1)
             /\ Grant(c, i)' <=> Grant(c, i + 1)
             /\ \A u, f : Frees(c, i, u, f)' <=> Frees(c, i + 1, u, f)
             /\ \A u : Brings(c, i, u)' <=> Brings(c, i + 1, u)
             /\ \A u : Takes(c, i, u)' <=> Takes(c, i + 1, u)
  BY <1>2, <1>3 DEF Entry, News, Grant, Frees, Brings, Takes
<1>. QED BY <1>1, <1>2, <1>3, <1>4

\* What is said to d after what it has not read yet.
LEMMA Append1 ==
  ASSUME TypeOK, NEW d \in Client, NEW s \in Seq(ToClient), toClient'[d] = toClient[d] \o s
  PROVE  /\ Len(toClient[d]) \in Nat /\ Len(s) \in Nat
         /\ Len(toClient'[d]) = Len(toClient[d]) + Len(s)
         /\ \A i \in 1 .. Len(toClient[d]) :
              /\ i \in 1 .. Len(toClient'[d])
              /\ toClient'[d][i] = toClient[d][i]
              /\ \A cmd : Entry(toClient[d], i, cmd)' <=> Entry(toClient[d], i, cmd)
              /\ News(d, i)' <=> News(d, i)
              /\ Grant(d, i)' <=> Grant(d, i)
              /\ \A u, f : Frees(d, i, u, f)' <=> Frees(d, i, u, f)
              /\ \A u : Brings(d, i, u)' <=> Brings(d, i, u)
              /\ \A u : Takes(d, i, u)' <=> Takes(d, i, u)
         /\ \A i \in 1 .. Len(s) : toClient'[d][Len(toClient[d]) + i] = s[i]
<1>1. toClient[d] \in Seq(ToClient)
  BY DEF TypeOK
<1>2. /\ Len(toClient[d]) \in Nat /\ Len(s) \in Nat
      /\ Len(toClient'[d]) = Len(toClient[d]) + Len(s)
      /\ \A i \in 1 .. Len(toClient[d]) : toClient'[d][i] = toClient[d][i]
      /\ \A i \in 1 .. Len(s) : toClient'[d][Len(toClient[d]) + i] = s[i]
  BY <1>1
<1>3. \A i \in 1 .. Len(toClient[d]) : i \in 1 .. Len(toClient'[d])
  BY <1>2
<1>. QED BY <1>2, <1>3 DEF Entry, News, Grant, Frees, Brings, Takes

\* Nothing is said to d.
LEMMA Untold ==
  ASSUME TypeOK, NEW d \in Client, toClient'[d] = toClient[d]
  PROVE  \E s \in Seq(ToClient) :
           s = << >> /\ Len(s) = 0 /\ (\A i \in 1 .. Len(s) : FALSE) /\ toClient'[d] = toClient[d] \o s
<1> DEFINE s == << >>
<1>1. toClient[d] \in Seq(ToClient) /\ s \in Seq(ToClient) /\ Len(s) = 0
  BY DEF TypeOK
<1>2. toClient[d] \o s = toClient[d]
  BY <1>1
<1>3. s = << >> /\ \A i \in 1 .. Len(s) : FALSE
  BY <1>1
<1> HIDE DEF s
<1>. QED BY <1>1, <1>2, <1>3

-----------------------------------------------------------------------------
(* With any network: what a client believes, and whom it knows.            *)

\* What is said of the queue to c is said of nothing else.
LEMMA QueueFacts ==
  ASSUME NEW c \in Client, toClient'[c] = toClient[c]
  PROVE  /\ \A cmd : Has(toClient[c], cmd)' <=> Has(toClient[c], cmd)
         /\ Over(c)' <=> Over(c)
         /\ \A i : News(c, i)' <=> News(c, i)
         /\ \A i, u, f : Frees(c, i, u, f)' <=> Frees(c, i, u, f)
         /\ \A i, u : Brings(c, i, u)' <=> Brings(c, i, u)
         /\ \A i, u : Takes(c, i, u)' <=> Takes(c, i, u)
<1>1. \A cmd, i : Entry(toClient[c], i, cmd)' <=> Entry(toClient[c], i, cmd)
  BY DEF Entry
<1>2. \A cmd : Has(toClient[c], cmd)' <=> Has(toClient[c], cmd)
  BY DEF Has
<1>. QED BY <1>1, <1>2 DEF Over, News, Frees, Brings, Takes

\* c's queue is not touched, nor is the server; its channels may become free, and
\* its list may be cleared if it is to be told everything again.
LEMMA QuietSound ==
  ASSUME NEW c \in Client, Sound(c), toClient'[c] = toClient[c], holder' = holder, logged' = logged,
         \/ link'[c] \in {"up", "busy"} /\ link[c] \in {"up", "busy"}
         \/ /\ toClient[c] = << >> /\ c \notin logged
            /\ link'[c] \in {"up", "busy"} => \A ch \in Channel : speakerName'[c][ch] = NoOne,
         link'[c] \notin {"up", "busy"} => toServer'[c] = << >>,
         \A ch \in Channel :
           /\ speakerName'[c][ch] \in {speakerName[c][ch], NoOne}
           /\ audioStatus'[c][ch] = "AUDIO_SEND_DISABLE" =>
                audioStatus[c][ch] = "AUDIO_SEND_DISABLE" /\ speakerName'[c][ch] = speakerName[c][ch],
         c \in logged => \/ ListToCome(c)'
                         \/ userInfoList'[c] = userInfoList[c] /\ ~ ListToCome(c)
  PROVE  Sound(c)'
<1>1. /\ \A cmd : Has(toClient[c], cmd)' <=> Has(toClient[c], cmd)
      /\ Over(c)' <=> Over(c)
      /\ \A i : News(c, i)' <=> News(c, i)
      /\ \A i, u, f : Frees(c, i, u, f)' <=> Frees(c, i, u, f)
      /\ \A i, u : Brings(c, i, u)' <=> Brings(c, i, u)
      /\ \A i, u : Takes(c, i, u)' <=> Takes(c, i, u)
  BY QueueFacts
<1>2. /\ InSession(c)' <=> InSession(c)
      /\ \A k, u, f : HoldsAfter(c, k, u, f)' <=> HoldsAfter(c, k, u, f)
      /\ \A ch : FloorOf(c, ch)' = FloorOf(c, ch)
  BY <1>1 DEF InSession, HoldsAfter, FloorOf
<1>3. Linked(c)'
  <2>1. CASE link'[c] \in {"up", "busy"} /\ link[c] \in {"up", "busy"}
    BY <1>1, <2>1 DEF Sound, Linked
  <2>2. CASE /\ toClient[c] = << >> /\ c \notin logged
             /\ link'[c] \in {"up", "busy"} => \A ch \in Channel : speakerName'[c][ch] = NoOne
    BY <1>1, <2>2 DEF Sound, Linked, News, Entry
  <2>. QED BY <2>1, <2>2
<1>4. Shown(c)'
  BY <1>2 DEF Sound, Shown
<1>5. Telling(c)'
  BY <1>1, <1>2 DEF Sound, Telling
<1>6. Consistent(c)'
  BY DEF Sound, Consistent
<1>7. Informed(c)'
  <2>1. userInfoList'[c] = userInfoList[c] => \A u : WillKnow(c, u)' <=> WillKnow(c, u)
    BY <1>1 DEF WillKnow
  <2>. QED BY <1>2, <2>1 DEF Sound, Informed, InSession
<1>. QED BY <1>3, <1>4, <1>5, <1>6, <1>7 DEF Sound

\* What a packet says, taken alone.
FreesIt(p, u, f) ==
  p \in {About("REMOTEUSERQUIT", u), Voice(u, f, "AUDIO_SEND_ENABLE")}
BringsIt(p, u) ==
  \/ p.cmd = "REMOTEUSERLOGIN" /\ p.user = u
  \/ p.cmd = "UPDATEUSERLIST" /\ u \in p.users
TakesIt(p, u) == p.cmd = "REMOTEUSERQUIT" /\ p.user = u

\* s is said to d, who is alone in doing nothing.
LEMMA ToldSound ==
  ASSUME TypeOK, NEW d \in Client, Sound(d), NEW s \in Seq(ToClient), toClient'[d] = toClient[d] \o s,
         link'[d] = link[d], audioStatus'[d] = audioStatus[d], speakerName'[d] = speakerName[d],
         userInfoList'[d] = userInfoList[d],
         \/ link[d] \in {"up", "busy"}
         \/ s = << >> /\ toServer'[d] = toServer[d] /\ d \notin logged',
         \A f \in Floors : holder'[f] = d => d \in logged',
         \/ d \in logged'
         \/ \E i \in 1 .. Len(s) : s[i].cmd \in Ends
         \/ d \notin logged /\ \A i \in 1 .. Len(s) : s[i].cmd # "SENDVOICE",
         d \in logged /\ d \in logged' => \A u \in Client \ {d}, f \in Floors : holder[f] = u =>
           holder'[f] = u \/ \E i \in 1 .. Len(s) : FreesIt(s[i], u, f),
         \A i \in 1 .. Len(s) : s[i].cmd = "SENDVOICE" /\ s[i].data = "AUDIO_SEND_DISABLE" =>
           s[i].user # d /\ holder'[s[i].floor] = s[i].user,
         d \in logged' => \/ ListToCome(d)'
                          \/ \E i \in 1 .. Len(s) : s[i].cmd \in Ends
                          \/ \A u \in logged' \ {d} :
                               \/ \E i \in 1 .. Len(s) : /\ BringsIt(s[i], u)
                                                         /\ \A j \in i + 1 .. Len(s) : ~ TakesIt(s[j], u)
                               \/ /\ d \in logged /\ u \in logged /\ ~ ListToCome(d)
                                  /\ \A i \in 1 .. Len(s) : ~ TakesIt(s[i], u)
  PROVE  Sound(d)'
<1>0. PICK n \in Nat : n = Len(toClient[d])
  BY Append1
<1>1. /\ Len(s) \in Nat /\ Len(toClient'[d]) = n + Len(s)
      /\ \A i \in 1 .. n :
           /\ i \in 1 .. Len(toClient'[d])
           /\ toClient'[d][i] = toClient[d][i]
           /\ \A cmd : Entry(toClient[d], i, cmd)' <=> Entry(toClient[d], i, cmd)
           /\ News(d, i)' <=> News(d, i)
           /\ \A u, f : Frees(d, i, u, f)' <=> Frees(d, i, u, f)
           /\ \A u : Brings(d, i, u)' <=> Brings(d, i, u)
           /\ \A u : Takes(d, i, u)' <=> Takes(d, i, u)
      /\ \A i \in 1 .. Len(s) : toClient'[d][n + i] = s[i]
  BY <1>0, Append1
<1>2. /\ \A i \in 1 .. Len(toClient'[d]) : i \in 1 .. n \/ \E j \in 1 .. Len(s) : i = n + j
      /\ \A j \in 1 .. Len(s) : n + j \in 1 .. Len(toClient'[d])
  <2>1. \A i \in 1 .. n + Len(s) : i \notin 1 .. n => i - n \in 1 .. Len(s) /\ i = n + (i - n)
    BY <1>1
  <2>. QED BY <1>1, <2>1
<1>3. \A j \in 1 .. Len(s) :
        /\ News(d, n + j)' <=> s[j].cmd = "SENDVOICE"
        /\ \A u, f : FreesIt(s[j], u, f) => Frees(d, n + j, u, f)'
        /\ \A u : Brings(d, n + j, u)' <=> BringsIt(s[j], u)
        /\ \A u : Takes(d, n + j, u)' <=> TakesIt(s[j], u)
  <2>1. SUFFICES ASSUME NEW j \in 1 .. Len(s)
                 PROVE  /\ News(d, n + j)' <=> s[j].cmd = "SENDVOICE"
                        /\ \A u, f : FreesIt(s[j], u, f) => Frees(d, n + j, u, f)'
                        /\ \A u : Brings(d, n + j, u)' <=> BringsIt(s[j], u)
                        /\ \A u : Takes(d, n + j, u)' <=> TakesIt(s[j], u)
    OBVIOUS
  <2>2. n + j \in 1 .. Len(toClient'[d]) /\ toClient'[d][n + j] = s[j]
    BY <1>1, <1>2
  <2>3. \A cmd : Entry(toClient[d], n + j, cmd)' <=> s[j].cmd = cmd
    BY <2>2 DEF Entry
  <2>4. \A u, f : /\ About("REMOTEUSERQUIT", u).cmd = "REMOTEUSERQUIT"
                  /\ About("REMOTEUSERQUIT", u).user = u
                  /\ Voice(u, f, "AUDIO_SEND_ENABLE").cmd = "SENDVOICE"
    BY DEF About, Voice
  <2>. QED BY <2>2, <2>3, <2>4 DEF News, Frees, Brings, Takes, FreesIt, BringsIt, TakesIt
<1>4. /\ \A cmd : Has(toClient[d], cmd) => Has(toClient[d], cmd)'
      /\ \A j \in 1 .. Len(s) : Has(toClient[d], s[j].cmd)'
  BY <1>0, <1>1, <1>2 DEF Has
<1>5. /\ Over(d) => Over(d)'
      /\ (\E i \in 1 .. Len(s) : s[i].cmd \in Ends) => Over(d)'
  BY <1>4 DEF Over
<1>6. Linked(d)'
  <2>1. link[d] \notin {"up", "busy"} => toServer'[d] = << >> /\ toClient'[d] = << >>
    BY DEF Sound, Linked
  <2>2. d \in logged' => link[d] \in {"up", "busy"}
    OBVIOUS
  <2>3. d \notin logged' /\ ~ Over(d)' /\ link[d] \in {"up", "busy"} =>
           /\ \A i \in 1 .. Len(toClient'[d]) : ~ News(d, i)'
           /\ \A ch \in Channel : speakerName[d][ch] = NoOne
    <3>1. SUFFICES ASSUME d \notin logged', ~ Over(d)', link[d] \in {"up", "busy"}
                   PROVE  /\ \A i \in 1 .. Len(toClient'[d]) : ~ News(d, i)'
                          /\ \A ch \in Channel : speakerName[d][ch] = NoOne
      OBVIOUS
    <3>2. d \notin logged /\ ~ Over(d) /\ \A i \in 1 .. Len(s) : s[i].cmd # "SENDVOICE"
      BY <1>5, <3>1
    <3>3. /\ \A i \in 1 .. n : ~ News(d, i)
          /\ \A ch \in Channel : speakerName[d][ch] = NoOne
      BY <1>0, <3>1, <3>2 DEF Sound, Linked
    <3>4. ASSUME NEW i \in 1 .. Len(toClient'[d])
          PROVE  ~ News(d, i)'
      <4>1. CASE i \in 1 .. n
        BY <1>1, <3>3, <4>1
      <4>2. ASSUME NEW j \in 1 .. Len(s), i = n + j
            PROVE  ~ News(d, i)'
        BY <1>3, <3>2, <4>2
      <4>. QED BY <1>2, <4>1, <4>2
    <3>. QED BY <3>3, <3>4
  <2>. QED BY <2>1, <2>2, <2>3 DEF Linked
<1>7. ASSUME d \in logged, d \in logged', NEW u \in Client, NEW f \in Floors, NEW k \in 0 .. n, HoldsAfter(d, k, u, f)
      PROVE  HoldsAfter(d, k, u, f)'
  <2>1. CASE holder[f] = u
    <3>1. holder'[f] = u \/ \E j \in 1 .. Len(s) : Frees(d, n + j, u, f)'
      BY <1>3, <1>7, <2>1 DEF HoldsAfter
    <3>2. \A j \in 1 .. Len(s) : n + j \in k + 1 .. Len(toClient'[d])
      BY <1>1
    <3>. QED BY <1>7, <3>1, <3>2 DEF HoldsAfter
  <2>2. CASE \E j \in k + 1 .. Len(toClient[d]) : Frees(d, j, u, f)
    <3>1. PICK j \in k + 1 .. n : Frees(d, j, u, f)
      BY <1>0, <2>2
    <3>2. j \in 1 .. n /\ j \in k + 1 .. Len(toClient'[d])
      BY <1>1
    <3>. QED BY <1>1, <1>7, <3>1, <3>2 DEF HoldsAfter
  <2>. QED BY <1>7, <2>1, <2>2 DEF HoldsAfter
<1>8. InSession(d)' => \/ InSession(d) /\ d \in logged /\ d \in logged'
                       \/ /\ \A i \in 1 .. n : ~ News(d, i)
                          /\ \A ch \in Channel : speakerName[d][ch] = NoOne
                          /\ d \in logged'
  BY <1>0, <1>5 DEF InSession, Sound, Linked
<1>9. Shown(d)'
  <2>1. SUFFICES ASSUME InSession(d)', NEW ch \in Channel, speakerName[d][ch] # NoOne
                 PROVE  FloorOf(d, ch) \in Floors /\ HoldsAfter(d, 0, speakerName[d][ch], FloorOf(d, ch))'
    BY DEF Shown, FloorOf
  <2>2. InSession(d) /\ d \in logged /\ d \in logged'
    BY <1>8, <2>1
  <2>3. FloorOf(d, ch) \in Floors /\ HoldsAfter(d, 0, speakerName[d][ch], FloorOf(d, ch))
    BY <2>1, <2>2 DEF Sound, Shown
  <2>4. speakerName[d][ch] \in Client /\ 0 \in 0 .. n
    BY <2>1 DEF TypeOK
  <2>. QED BY <1>7, <2>2, <2>3, <2>4
<1>10. Telling(d)'
  <2>1. SUFFICES ASSUME InSession(d)', NEW k \in 1 .. Len(toClient'[d]), News(d, k)',
                        NEW m, m = toClient'[d][k], m.data = "AUDIO_SEND_DISABLE"
                 PROVE  HoldsAfter(d, k, m.user, m.floor)'
    BY DEF Telling
  <2>2. CASE k \in 1 .. n
    <3>1. InSession(d) /\ d \in logged /\ d \in logged' /\ News(d, k) /\ m = toClient[d][k]
      BY <1>1, <1>8, <2>1, <2>2
    <3>2. HoldsAfter(d, k, m.user, m.floor)
      BY <1>0, <2>1, <2>2, <3>1 DEF Sound, Telling
    <3>3. m.user \in Client /\ m.floor \in Floors
      <4>1. m \in ToClient
        BY <1>0, <2>2, <3>1 DEF TypeOK
      <4>2. m.cmd = "SENDVOICE"
        BY <3>1 DEF News, Entry
      <4>. QED BY <4>1, <4>2 DEF ToClient, VoicePacket
    <3>4. k \in 0 .. n
      BY <2>2
    <3>. QED BY <1>7, <3>1, <3>2, <3>3, <3>4
  <2>3. ASSUME NEW j \in 1 .. Len(s), k = n + j
        PROVE  HoldsAfter(d, k, m.user, m.floor)'
    <3>1. m.cmd = "SENDVOICE" /\ m = s[j]
      BY <1>1, <1>3, <2>1, <2>3
    <3>2. m.user # d /\ holder'[m.floor] = m.user
      BY <2>1, <3>1
    <3>. QED BY <3>2 DEF HoldsAfter
  <2>. QED BY <1>2, <2>2, <2>3
<1>11. Consistent(d)'
  BY DEF Sound, Consistent
<1>12. Informed(d)'
  <2>1. SUFFICES ASSUME InSession(d)', ~ ListToCome(d)', NEW u \in logged' \ {d}
                 PROVE  WillKnow(d, u)'
    BY DEF Informed
  <2>0. \A i \in 1 .. Len(s) : s[i].cmd \notin Ends
    BY <1>5, <2>1 DEF InSession
  <2>2. CASE \E i \in 1 .. Len(s) : BringsIt(s[i], u) /\ \A j \in i + 1 .. Len(s) : ~ TakesIt(s[j], u)
    <3>1. PICK i \in 1 .. Len(s) : BringsIt(s[i], u) /\ \A j \in i + 1 .. Len(s) : ~ TakesIt(s[j], u)
      BY <2>2
    <3>2. n + i \in 1 .. Len(toClient'[d]) /\ Brings(d, n + i, u)'
      BY <1>2, <1>3, <3>1
    <3>3. ASSUME NEW j \in (n + i) + 1 .. Len(toClient'[d])
          PROVE  ~ Takes(d, j, u)'
      <4>1. j - n \in 1 .. Len(s) /\ j - n \in i + 1 .. Len(s) /\ j = n + (j - n)
        BY <1>1, <3>3
      <4>. QED BY <1>3, <3>1, <4>1
    <3>. QED BY <3>2, <3>3 DEF WillKnow
  <2>3. CASE /\ d \in logged /\ u \in logged /\ ~ ListToCome(d)
             /\ \A i \in 1 .. Len(s) : ~ TakesIt(s[i], u)
    <3>1. WillKnow(d, u)
      BY <1>5, <2>1, <2>3 DEF Sound, Informed, InSession
    <3>2. \A j \in 1 .. Len(toClient'[d]) : Takes(d, j, u)' => j \in 1 .. n /\ Takes(d, j, u)
      BY <1>1, <1>2, <1>3, <2>3
    <3>3. CASE u \in userInfoList[d] /\ \A i \in 1 .. Len(toClient[d]) : ~ Takes(d, i, u)
      BY <1>0, <3>2, <3>3 DEF WillKnow
    <3>4. CASE \E i \in 1 .. Len(toClient[d]) : /\ Brings(d, i, u)
                                       /\ \A j \in i + 1 .. Len(toClient[d]) : ~ Takes(d, j, u)
      <4>1. PICK i \in 1 .. n : Brings(d, i, u) /\ \A j \in i + 1 .. n : ~ Takes(d, j, u)
        BY <1>0, <3>4
      <4>2. i \in 1 .. Len(toClient'[d]) /\ Brings(d, i, u)'
        BY <1>1, <4>1
      <4>3. \A j \in i + 1 .. Len(toClient'[d]) : ~ Takes(d, j, u)'
        <5>1. \A j \in i + 1 .. Len(toClient'[d]) : j \in 1 .. Len(toClient'[d]) /\ (j \in 1 .. n => j \in i + 1 .. n)
          OBVIOUS
        <5>. QED BY <3>2, <4>1, <5>1
      <4>. QED BY <4>2, <4>3 DEF WillKnow
    <3>. QED BY <3>1, <3>3, <3>4 DEF WillKnow
  <2>. QED BY <2>0, <2>1, <2>2, <2>3 DEF InSession
<1>. QED BY <1>6, <1>9, <1>10, <1>11, <1>12 DEF Sound

\* c reads a packet and goes on.
LEMMA ReadSound ==
  ASSUME TypeOK, NEW c \in Client, Sound(c), toClient[c] # << >>, Handled(c),
         Head(toClient[c]).cmd \notin Ends,
         link[c] \in {"up", "busy"}, link'[c] = link[c], logged' = logged, holder' = holder,
         \A cmd : Has(toServer[c], cmd) => Has(toServer'[c], cmd),
         Head(toClient[c]).cmd = "LOGINSERVERED" => Has(toServer'[c], "GETUSERLIST"),
         \A ch \in Channel :
           \/ speakerName'[c][ch] = NoOne
           \/ /\ speakerName'[c][ch] = speakerName[c][ch]
              /\ speakerName[c][ch] # c => ~ Frees(c, 1, speakerName[c][ch], FloorOf(c, ch))
           \/ /\ News(c, 1) /\ Head(toClient[c]).data = "AUDIO_SEND_DISABLE"
              /\ speakerName'[c][ch] = Head(toClient[c]).user
              /\ FloorOf(c, ch) = Head(toClient[c]).floor,
         \A ch \in Channel : audioStatus'[c][ch] = "AUDIO_SEND_DISABLE" => speakerName'[c][ch] # NoOne,
         \A u \in Client : ~ Takes(c, 1, u) /\ (u \in userInfoList[c] \/ Brings(c, 1, u)) => u \in userInfoList'[c]
  PROVE  Sound(c)'
<1>1. /\ Len(toClient[c]) \in Nat \ {0} /\ toClient[c][1] = Head(toClient[c])
      /\ Len(toClient'[c]) = Len(toClient[c]) - 1
      /\ \A j \in 1 .. Len(toClient[c]) : j # 1 => j - 1 \in 1 .. Len(toClient'[c])
      /\ \A i \in 1 .. Len(toClient'[c]) :
           /\ i \in Nat \ {0} /\ i + 1 \in 1 .. Len(toClient[c])
           /\ toClient'[c][i] = toClient[c][i + 1]
           /\ \A cmd : Entry(toClient[c], i, cmd)' <=> Entry(toClient[c], i + 1, cmd)
           /\ News(c, i)' <=> News(c, i + 1)
           /\ \A u, f : Frees(c, i, u, f)' <=> Frees(c, i + 1, u, f)
           /\ \A u : Brings(c, i, u)' <=> Brings(c, i + 1, u)
           /\ \A u : Takes(c, i, u)' <=> Takes(c, i + 1, u)
  BY Read
<1> DEFINE n == Len(toClient'[c])
<1>2. n \in Nat /\ Len(toClient[c]) = n + 1
  BY <1>1
<1> HIDE DEF n
<1>3. \A cmd : Has(toClient[c], cmd) /\ Head(toClient[c]).cmd # cmd => Has(toClient[c], cmd)'
  <2>1. SUFFICES ASSUME NEW cmd, NEW i \in 1 .. Len(toClient[c]), toClient[c][i].cmd = cmd,
                        Head(toClient[c]).cmd # cmd
                 PROVE  Has(toClient[c], cmd)'
    BY DEF Has
  <2>2. i # 1
    BY <1>1, <2>1
  <2>3. i - 1 \in 1 .. Len(toClient'[c]) /\ (i - 1) + 1 = i
    BY <1>1, <2>2
  <2>4. toClient'[c][i - 1].cmd = cmd
    BY <1>1, <2>1, <2>3
  <2>. QED BY <2>3, <2>4 DEF Has
<1>4. Over(c) => Over(c)'
  BY <1>3 DEF Over
<1>5. ASSUME NEW u, NEW f, NEW k \in 0 .. n, HoldsAfter(c, k + 1, u, f)
      PROVE  HoldsAfter(c, k, u, f)'
  <2>1. CASE holder[f] = u
    BY <1>5, <2>1 DEF HoldsAfter
  <2>2. CASE \E j \in (k + 1) + 1 .. Len(toClient[c]) : Frees(c, j, u, f)
    <3>1. PICK j \in (k + 1) + 1 .. Len(toClient[c]) : Frees(c, j, u, f)
      BY <2>2
    <3>2. j - 1 \in k + 1 .. n /\ (j - 1) + 1 = j /\ j - 1 \in 1 .. n
      BY <1>2, <3>1
    <3>3. Frees(c, j - 1, u, f)'
      BY <1>1, <3>1, <3>2 DEF n
    <3>. QED BY <1>5, <3>2, <3>3 DEF HoldsAfter, n
  <2>. QED BY <1>5, <2>1, <2>2 DEF HoldsAfter
<1>6. InSession(c)' => InSession(c)
  BY <1>4 DEF InSession
<1>7. Linked(c)'
  <2>1. c \notin logged /\ ~ Over(c)' => /\ \A i \in 1 .. Len(toClient[c]) : ~ News(c, i)
                                       /\ \A ch \in Channel : speakerName[c][ch] = NoOne
    BY <1>4 DEF Sound, Linked
  <2>2. 1 \in 1 .. Len(toClient[c])
    BY <1>1
  <2>3. c \notin logged /\ ~ Over(c)' => /\ \A i \in 1 .. Len(toClient'[c]) : ~ News(c, i)'
                                       /\ \A ch \in Channel : speakerName'[c][ch] = NoOne
    BY <1>1, <2>1, <2>2
  <2>4. /\ c \in logged => link[c] \in {"up", "busy"}
        /\ \A f \in Floors : holder[f] = c => c \in logged
    BY DEF Sound, Linked
  <2>. QED BY <2>3, <2>4 DEF Linked
<1>8. Shown(c)'
  <2>1. SUFFICES ASSUME InSession(c)', NEW ch \in Channel, NEW u, u = speakerName'[c][ch], u # NoOne,
                        NEW f, f = FloorOf(c, ch)
                 PROVE  f \in Floors /\ HoldsAfter(c, 0, u, f)'
    BY DEF Shown, FloorOf
  <2>2. f \in Floors /\ HoldsAfter(c, 1, u, f)
    <3>1. CASE u = speakerName[c][ch] /\ (u # c => ~ Frees(c, 1, u, f))
      <4>1. f \in Floors /\ HoldsAfter(c, 0, u, f)
        BY <1>6, <2>1, <3>1 DEF Sound, Shown
      <4>2. \A j \in 0 + 1 .. Len(toClient[c]) : j # 1 => j \in 1 + 1 .. Len(toClient[c])
        BY <1>2
      <4>. QED BY <3>1, <4>1, <4>2 DEF HoldsAfter
    <3>2. CASE News(c, 1) /\ Head(toClient[c]).data = "AUDIO_SEND_DISABLE" /\ u = Head(toClient[c]).user /\ f = Head(toClient[c]).floor
      <4>1. HoldsAfter(c, 1, u, f)
        BY <1>1, <1>6, <2>1, <3>2 DEF Sound, Telling
      <4>2. Head(toClient[c]) \in ToClient /\ Head(toClient[c]).cmd = "SENDVOICE"
        BY <1>1, <3>2, HeadType DEF News, Entry
      <4>. QED BY <3>2, <4>1, <4>2 DEF ToClient, VoicePacket
    <3>. QED BY <2>1, <3>1, <3>2
  <2>3. 0 \in 0 .. n /\ 0 + 1 = 1
    BY <1>2
  <2>. QED BY <1>5, <2>2, <2>3
<1>9. Telling(c)'
  <2>1. SUFFICES ASSUME InSession(c)', NEW k \in 1 .. n, News(c, k)',
                        NEW m, m = toClient'[c][k], m.data = "AUDIO_SEND_DISABLE"
                 PROVE  HoldsAfter(c, k, m.user, m.floor)'
    BY DEF Telling, n
  <2>2. k + 1 \in 1 .. Len(toClient[c]) /\ News(c, k + 1) /\ m = toClient[c][k + 1]
    BY <1>1, <2>1 DEF n
  <2>3. HoldsAfter(c, k + 1, m.user, m.floor)
    BY <1>6, <2>1, <2>2 DEF Sound, Telling
  <2>. QED BY <1>5, <2>3
<1>10. Consistent(c)'
  BY DEF Consistent
<1>11. Informed(c)'
  <2>1. SUFFICES ASSUME InSession(c)', ~ ListToCome(c)', NEW u \in logged \ {c}
                 PROVE  WillKnow(c, u)'
    BY DEF Informed
  <2>2. ~ ListToCome(c)
    BY <1>3, <2>1 DEF ListToCome
  <2>3. WillKnow(c, u) /\ u \in Client
    BY <1>6, <2>1, <2>2 DEF Sound, Informed, TypeOK
  <2>4. CASE \E i \in 1 .. Len(toClient[c]) : /\ i # 1 /\ Brings(c, i, u)
                                    /\ \A j \in i + 1 .. Len(toClient[c]) : ~ Takes(c, j, u)
    <3>1. PICK i \in 1 .. n + 1 : /\ i # 1 /\ Brings(c, i, u)
                                  /\ \A j \in i + 1 .. n + 1 : ~ Takes(c, j, u)
      BY <1>2, <2>4
    <3>2. i - 1 \in 1 .. n /\ (i - 1) + 1 = i /\ \A j \in (i - 1) + 1 .. n : j \in 1 .. n /\ j + 1 \in i + 1 .. n + 1
      BY <1>2, <3>1
    <3>. QED BY <1>1, <3>1, <3>2 DEF WillKnow, n
  <2>5. CASE u \in userInfoList'[c] /\ \A i \in 1 .. Len(toClient[c]) : i # 1 => ~ Takes(c, i, u)
    <3>1. \A i \in 1 .. n : i + 1 # 1 /\ i + 1 \in 1 .. n + 1
      BY <1>2
    <3>. QED BY <1>1, <1>2, <2>5, <3>1 DEF WillKnow, n
  <2>6. CASE u \in userInfoList[c] /\ \A i \in 1 .. Len(toClient[c]) : ~ Takes(c, i, u)
    <3>1. 1 \in 1 .. Len(toClient[c])
      BY <1>1
    <3>. QED BY <2>3, <2>5, <2>6, <3>1
  <2>7. CASE Brings(c, 1, u) /\ \A j \in 1 + 1 .. Len(toClient[c]) : ~ Takes(c, j, u)
    <3>1. ~ Takes(c, 1, u)
      BY <2>7 DEF Brings, Takes, Entry
    <3>2. \A j \in 1 .. Len(toClient[c]) : j # 1 => j \in 1 + 1 .. Len(toClient[c])
      BY <1>2
    <3>. QED BY <2>3, <2>5, <2>7, <3>1, <3>2
  <2>. QED BY <2>3, <2>4, <2>6, <2>7 DEF WillKnow
<1>. QED BY <1>7, <1>8, <1>9, <1>10, <1>11 DEF Sound

\* Nothing that AnyInv says of d changes.
Unmoved(d) ==
  /\ link'[d] = link[d] /\ audioStatus'[d] = audioStatus[d] /\ speakerName'[d] = speakerName[d]
  /\ userInfoList'[d] = userInfoList[d] /\ toServer'[d] = toServer[d]

LEMMA UnmovedSound ==
  ASSUME NEW d \in Client, Sound(d), Unmoved(d), toClient'[d] = toClient[d],
         holder' = holder, logged' = logged
  PROVE  Sound(d)'
<1>1. ListToCome(d)' <=> ListToCome(d)
  BY QueueFacts DEF ListToCome, Unmoved, Has
<1>2. \/ link[d] \in {"up", "busy"}
      \/ toServer[d] = << >> /\ toClient[d] = << >> /\ d \notin logged /\ link[d] \notin {"up", "busy"}
  BY DEF Sound, Linked
<1>3. \A ch \in Channel :
        /\ speakerName'[d][ch] \in {speakerName[d][ch], NoOne}
        /\ audioStatus'[d][ch] = "AUDIO_SEND_DISABLE" =>
             audioStatus[d][ch] = "AUDIO_SEND_DISABLE" /\ speakerName'[d][ch] = speakerName[d][ch]
  BY DEF Unmoved
<1>4. /\ link'[d] \notin {"up", "busy"} => toServer'[d] = << >>
      /\ \/ link'[d] \in {"up", "busy"} /\ link[d] \in {"up", "busy"}
         \/ toClient[d] = << >> /\ d \notin logged /\ link'[d] \notin {"up", "busy"}
      /\ ListToCome(d)' \/ (userInfoList'[d] = userInfoList[d] /\ ~ ListToCome(d))
  BY <1>1, <1>2 DEF Unmoved
<1>. QED BY <1>3, <1>4, QuietSound

\* What is sent, and what the server takes.
LEMMA SentHas ==
  ASSUME TypeOK, NEW c \in Client, NEW m \in ToServer, toServer' = Sent(c, m)
  PROVE  /\ \A d \in Client \ {c} : toServer'[d] = toServer[d]
         /\ \A cmd : Has(toServer[c], cmd) => Has(toServer'[c], cmd)
         /\ link[c] = "up" => Has(toServer'[c], m.cmd)
         /\ link[c] # "up" => toServer'[c] = toServer[c]
<1>1. toServer[c] \in Seq(ToServer)
  BY DEF TypeOK
<1>2. CASE link[c] = "up"
  <2>1. /\ toServer'[c] = Append(toServer[c], m)
        /\ \A d \in Client \ {c} : toServer'[d] = toServer[d]
    BY <1>2 DEF Sent, TypeOK
  <2>2. /\ Len(toServer'[c]) = Len(toServer[c]) + 1 /\ Len(toServer[c]) \in Nat
        /\ toServer'[c][Len(toServer[c]) + 1] = m
        /\ \A i \in 1 .. Len(toServer[c]) : i \in 1 .. Len(toServer'[c]) /\ toServer'[c][i] = toServer[c][i]
    BY <1>1, <2>1
  <2>. QED BY <1>2, <2>1, <2>2 DEF Has
<1>3. CASE link[c] # "up"
  BY <1>3 DEF Sent
<1>. QED BY <1>2, <1>3

LEMMA VoiceHas ==
  ASSUME TypeOK, NEW c \in Client, NEW ch \in Channel, NEW data \in VoiceData, toServer' = SentVoice(c, ch, data)
  PROVE  /\ \A d \in Client \ {c} : toServer'[d] = toServer[d]
         /\ \A cmd : Has(toServer[c], cmd) => Has(toServer'[c], cmd)
         /\ link[c] # "up" => toServer'[c] = toServer[c]
<1>1. CASE ch = "group" /\ Group[c] = NoGroup
  BY <1>1 DEF SentVoice
<1>2. CASE ~ (ch = "group" /\ Group[c] = NoGroup)
  <2>1. FloorOf(c, ch) \in Floors
    BY <1>2, ChannelFloor DEF Channel
  <2>2. Voice(c, FloorOf(c, ch), data) \in ToServer
    BY <2>1 DEF Voice, ToServer, VoicePacket
  <2>. QED BY <1>2, <2>2, SentHas DEF SentVoice
<1>. QED BY <1>1, <1>2

LEMMA ServedHas ==
  ASSUME TypeOK, NEW c \in Client, NEW cmd, Asked(c, cmd), Served(c)
  PROVE  /\ link[c] \in {"up", "busy"}
         /\ \A d \in Client \ {c} : toServer'[d] = toServer[d]
         /\ \A x : Has(toServer[c], x) => x = cmd \/ Has(toServer'[c], x)
<1>1. /\ toServer[c] \in Seq(ToServer) /\ toServer[c] # << >> /\ Head(toServer[c]).cmd = cmd
      /\ toServer'[c] = Tail(toServer[c])
      /\ \A d \in Client \ {c} : toServer'[d] = toServer[d]
      /\ link[c] \in {"up", "busy"}
  BY DEF Asked, Served, TypeOK
<1>2. /\ toServer[c][1].cmd = cmd /\ Len(toServer[c]) \in Nat
      /\ \A i \in 1 .. Len(toServer[c]) : i # 1 =>
           i - 1 \in 1 .. Len(toServer'[c]) /\ toServer'[c][i - 1] = toServer[c][i]
  BY <1>1
<1>. QED BY <1>1, <1>2 DEF Has

-----------------------------------------------------------------------------
(* The application's thread.                                               *)

LEMMA AppSound ==
  ASSUME TypeOK, AnyInv, NEW c \in Client, AppStep(c) \/ Wake(c)
  PROVE  AnyInv'
<1>1. /\ Sound(c) /\ toClient' = toClient /\ holder' = holder /\ logged' = logged
      /\ \A d \in Client \ {c} : Sound(d)
  BY DEF AnyInv, AppStep, Wake, Login, StartSendAudio, StopSendAudio, StopCheck, StopWrite, StopClose,
         Quit, queueVars, serverVars
<1>2. /\ link[c] \in {"up", "busy"} \/ (toServer[c] = << >> /\ toClient[c] = << >> /\ c \notin logged)
      /\ \A ch \in Channel : {speakerName[c][ch]} \subseteq Client \cup {NoOne}
  BY <1>1 DEF Sound, Linked, TypeOK
<1>3. ASSUME Login(c)
      PROVE  Sound(c)' /\ \A d \in Client \ {c} : Unmoved(d)
  <2>1. /\ link'[c] = "connecting" /\ link[c] = "none" /\ toServer' = toServer
        /\ \A ch \in Channel : speakerName'[c][ch] = NoOne /\ audioStatus'[c][ch] = "AUDIO_SEND_ENABLE"
        /\ \A d \in Client \ {c} : Unmoved(d)
    BY <1>3 DEF Login, queueVars, TypeOK, Unmoved
  <2>. QED BY <1>1, <1>2, <2>1, QuietSound
<1>4. ASSUME link' = link, userInfoList' = userInfoList, speakerName' = speakerName,
             \A ch \in Channel : audioStatus'[c][ch] \in {audioStatus[c][ch], "AUDIO_SEND_ENABLE"},
             \A d \in Client \ {c} : audioStatus'[d] = audioStatus[d] /\ toServer'[d] = toServer[d],
             \A cmd : Has(toServer[c], cmd) => Has(toServer'[c], cmd),
             link[c] # "up" => toServer'[c] = toServer[c]
      PROVE  Sound(c)' /\ \A d \in Client \ {c} : Unmoved(d)
  <2>1. ListToCome(c) => ListToCome(c)'
    BY <1>1, <1>4 DEF ListToCome
  <2>2. /\ link'[c] \notin {"up", "busy"} => toServer'[c] = << >>
        /\ \/ link'[c] \in {"up", "busy"} /\ link[c] \in {"up", "busy"}
           \/ toClient[c] = << >> /\ c \notin logged /\ link'[c] \notin {"up", "busy"}
        /\ ListToCome(c)' \/ (userInfoList'[c] = userInfoList[c] /\ ~ ListToCome(c))
    BY <1>2, <1>4, <2>1
  <2>3. \A ch \in Channel :
           /\ speakerName'[c][ch] \in {speakerName[c][ch], NoOne}
           /\ audioStatus'[c][ch] = "AUDIO_SEND_DISABLE" =>
                audioStatus[c][ch] = "AUDIO_SEND_DISABLE" /\ speakerName'[c][ch] = speakerName[c][ch]
    BY <1>4
  <2>4. Sound(c)'
    BY <1>1, <2>2, <2>3, QuietSound
  <2>. QED BY <1>4, <2>4 DEF Unmoved
<1>5. ASSUME NEW ch \in Channel, StartSendAudio(c, ch)
      PROVE  Sound(c)' /\ \A d \in Client \ {c} : Unmoved(d)
  <2>1. /\ link' = link /\ userInfoList' = userInfoList /\ speakerName' = speakerName /\ audioStatus' = audioStatus
        /\ toServer' = toServer \/ toServer' = SentVoice(c, ch, "AUDIO_SEND_DISABLE")
    BY <1>5 DEF StartSendAudio, rosterVars
  <2>2. /\ \A d \in Client \ {c} : toServer'[d] = toServer[d]
        /\ \A cmd : Has(toServer[c], cmd) => Has(toServer'[c], cmd)
        /\ link[c] # "up" => toServer'[c] = toServer[c]
    BY <2>1, VoiceHas DEF VoiceData
  <2>. QED BY <1>4, <2>1, <2>2
<1>6. ASSUME NEW q \in BOOLEAN, StopSendAudio(c, q)
      PROVE  Sound(c)' /\ \A d \in Client \ {c} : Unmoved(d)
  <2>1. /\ link' = link /\ userInfoList' = userInfoList /\ speakerName' = speakerName /\ audioStatus' = audioStatus
        /\ toServer' = SentVoice(c, speakChannel[c], "AUDIO_SEND_ENABLE")
        /\ speakChannel[c] \in Channel
    BY <1>6 DEF StopSendAudio, talkVars, rosterVars, TypeOK
  <2>2. /\ \A d \in Client \ {c} : toServer'[d] = toServer[d]
        /\ \A cmd : Has(toServer[c], cmd) => Has(toServer'[c], cmd)
        /\ link[c] # "up" => toServer'[c] = toServer[c]
    BY <2>1, VoiceHas DEF VoiceData
  <2>. QED BY <1>4, <2>1, <2>2
<1>7. ASSUME StopCheck(c) \/ StopClose(c) \/ Wake(c)
      PROVE  Sound(c)' /\ \A d \in Client \ {c} : Unmoved(d)
  <2>1. /\ link' = link /\ userInfoList' = userInfoList /\ speakerName' = speakerName /\ audioStatus' = audioStatus
        /\ toServer' = toServer
    BY <1>7 DEF StopCheck, StopClose, Wake, talkVars, rosterVars, queueVars
  <2>. QED BY <1>4, <2>1
<1>8. ASSUME NEW ch \in Channel, StopWrite(c, ch)
      PROVE  Sound(c)' /\ \A d \in Client \ {c} : Unmoved(d)
  <2>1. /\ link' = link /\ userInfoList' = userInfoList /\ speakerName' = speakerName /\ toServer' = toServer
        /\ \A o \in Channel : audioStatus'[c][o] \in {audioStatus[c][o], "AUDIO_SEND_ENABLE"}
        /\ \A d \in Client \ {c} : audioStatus'[d] = audioStatus[d]
    BY <1>8 DEF StopWrite, rosterVars, queueVars, TypeOK
  <2>. QED BY <1>4, <2>1
<1>9. ASSUME Quit(c)
      PROVE  Sound(c)' /\ \A d \in Client \ {c} : Unmoved(d)
  <2>1. /\ link' = link /\ speakerName' = speakerName /\ audioStatus' = audioStatus
        /\ toServer' = Sent(c, Packet("QUITSERVER"))
        /\ \A d \in Client \ {c} : userInfoList'[d] = userInfoList[d]
    BY <1>9 DEF Quit, TypeOK
  <2>2. Packet("QUITSERVER") \in ToServer /\ Packet("QUITSERVER").cmd = "QUITSERVER"
    BY DEF Packet, ToServer
  <2>3. /\ \A d \in Client \ {c} : toServer'[d] = toServer[d]
        /\ link[c] = "up" => Has(toServer'[c], "QUITSERVER")
        /\ link[c] # "up" => toServer'[c] = toServer[c]
    BY <2>1, <2>2, SentHas
  <2>4. c \in logged => ListToCome(c)'
    BY <1>2, <2>1, <2>3 DEF ListToCome, Sound, Linked, AnyInv
  <2>5. /\ link'[c] \notin {"up", "busy"} => toServer'[c] = << >>
        /\ \/ link'[c] \in {"up", "busy"} /\ link[c] \in {"up", "busy"}
           \/ toClient[c] = << >> /\ c \notin logged /\ link'[c] \notin {"up", "busy"}
    BY <1>2, <2>1, <2>3
  <2>6. Sound(c)'
    BY <1>1, <2>1, <2>4, <2>5, QuietSound
  <2>. QED BY <2>1, <2>3, <2>6 DEF Unmoved
<1>10. Sound(c)' /\ \A d \in Client \ {c} : Unmoved(d)
  BY <1>3, <1>5, <1>6, <1>7, <1>8, <1>9 DEF AppStep
<1>11. \A d \in Client \ {c} : Sound(d)'
  BY <1>1, <1>10, UnmovedSound
<1>. QED BY <1>10, <1>11 DEF AnyInv

-----------------------------------------------------------------------------
(* A session begins and ends.                                              *)

\* LoginServer resets what c believes, and everything is still to be told.
LEMMA ConnectedSound ==
  ASSUME TypeOK, AnyInv, NEW c \in Client, LoginServer(c)
  PROVE  AnyInv'
<1>1. /\ Sound(c) /\ toClient' = toClient /\ holder' = holder /\ logged' = logged
      /\ userInfoList' = userInfoList /\ link'[c] = "up"
      /\ toServer'[c] = Append(toServer[c], Packet("LOGINSERVER"))
      /\ \A ch \in Channel : speakerName'[c][ch] = NoOne /\ audioStatus'[c][ch] = "AUDIO_SEND_ENABLE"
      /\ \A d \in Client \ {c} : Sound(d) /\ Unmoved(d)
  BY DEF LoginServer, rosterVars, serverVars, TypeOK, AnyInv, Unmoved
<1>2. Has(toServer'[c], "LOGINSERVER")
  <2>1. toServer[c] \in Seq(ToServer) /\ Packet("LOGINSERVER") \in ToServer
        /\ Packet("LOGINSERVER").cmd = "LOGINSERVER"
    BY DEF TypeOK, Packet, ToServer
  <2>2. Len(toServer'[c]) \in Nat \ {0} /\ toServer'[c][Len(toServer'[c])].cmd = "LOGINSERVER"
    BY <1>1, <2>1
  <2>. QED BY <2>2 DEF Has
<1>3. ListToCome(c)'
  BY <1>2 DEF ListToCome
<1>4. \/ link[c] \in {"up", "busy"}
      \/ toClient[c] = << >> /\ c \notin logged
  BY <1>1 DEF Sound, Linked
<1>5. Sound(c)'
  BY <1>1, <1>3, <1>4, QuietSound
<1>6. \A d \in Client \ {c} : Sound(d)'
  BY <1>1, UnmovedSound
<1>. QED BY <1>5, <1>6 DEF AnyInv

LEMMA BusySound ==
  ASSUME TypeOK, AnyInv, NEW c \in Client, Busy(c)
  PROVE  AnyInv'
<1>1. /\ Sound(c) /\ toClient' = toClient /\ holder' = holder /\ logged' = logged
      /\ toServer' = toServer /\ userInfoList' = userInfoList /\ audioStatus' = audioStatus
      /\ speakerName' = speakerName /\ link'[c] = "busy" /\ link[c] = "up"
      /\ \A d \in Client \ {c} : Sound(d) /\ Unmoved(d)
  BY DEF Busy, talkVars, rosterVars, queueVars, serverVars, TypeOK, AnyInv, Unmoved
<1>2. ListToCome(c)'
  BY <1>1 DEF ListToCome
<1>3. Sound(c)'
  BY <1>1, <1>2, QuietSound
<1>4. \A d \in Client \ {c} : Sound(d)'
  BY <1>1, UnmovedSound
<1>. QED BY <1>3, <1>4 DEF AnyInv

\* What the others are told of c.
LEMMA OthersSound ==
  ASSUME TypeOK, NEW c \in Client, NEW d \in Client \ {c}, Sound(d), Unmoved(d),
         NEW s \in Seq(ToClient),
         toClient'[d] = IF d \in logged THEN toClient[d] \o s ELSE toClient[d],
         \A u : u # c => (u \in logged' <=> u \in logged),
         \A f \in Floors : holder'[f] = d => holder[f] = d,
         d \in logged => \A u \in Client \ {d}, f \in Floors : holder[f] = u =>
           holder'[f] = u \/ \E i \in 1 .. Len(s) : FreesIt(s[i], u, f),
         \A i \in 1 .. Len(s) : /\ s[i].cmd = "SENDVOICE" /\ s[i].data = "AUDIO_SEND_DISABLE" =>
                                     s[i].user = c /\ holder'[s[i].floor] = c
                                /\ s[i].cmd = "REMOTEUSERQUIT" => s[i].user = c,
         c \in logged' =>
           \/ \E i \in 1 .. Len(s) : BringsIt(s[i], c) /\ \A j \in i + 1 .. Len(s) : ~ TakesIt(s[j], c)
           \/ c \in logged /\ \A i \in 1 .. Len(s) : ~ TakesIt(s[i], c)
  PROVE  Sound(d)'
<1>0. \A i \in 1 .. Len(s) : \A u : TakesIt(s[i], u) => u = c
  <2>1. \A i \in 1 .. Len(s) : s[i].cmd = "REMOTEUSERQUIT" => s[i].user = c
    OBVIOUS
  <2>. QED BY <2>1 DEF TakesIt
<1>1. /\ link'[d] = link[d] /\ audioStatus'[d] = audioStatus[d] /\ speakerName'[d] = speakerName[d]
      /\ userInfoList'[d] = userInfoList[d] /\ toServer'[d] = toServer[d]
      /\ \A f \in Floors : holder'[f] = d => d \in logged'
      /\ link[d] \in {"up", "busy"} \/ d \notin logged
  BY DEF Unmoved, Sound, Linked
<1>2. CASE d \in logged
  <2>1. toClient'[d] = toClient[d] \o s /\ link[d] \in {"up", "busy"} /\ d \in logged'
    BY <1>1, <1>2
  <2>2. \A i \in 1 .. Len(s) : s[i].cmd = "SENDVOICE" /\ s[i].data = "AUDIO_SEND_DISABLE" =>
          s[i].user # d /\ holder'[s[i].floor] = s[i].user
    OBVIOUS
  <2>3. \/ ListToCome(d)'
        \/ \A u \in logged' \ {d} :
             \/ \E i \in 1 .. Len(s) : BringsIt(s[i], u) /\ \A j \in i + 1 .. Len(s) : ~ TakesIt(s[j], u)
             \/ /\ d \in logged /\ u \in logged /\ ~ ListToCome(d)
                /\ \A i \in 1 .. Len(s) : ~ TakesIt(s[i], u)
    <3>1. CASE ListToCome(d)
      <4>1. Len(toClient[d]) \in Nat /\ Len(s) \in Nat /\ Len(toClient'[d]) = Len(toClient[d]) + Len(s)
            /\ \A i \in 1 .. Len(toClient[d]) : i \in 1 .. Len(toClient'[d]) /\ toClient'[d][i] = toClient[d][i]
        BY <2>1, Append1
      <4>2. Has(toClient[d], "LOGINSERVERED") => Has(toClient'[d], "LOGINSERVERED")
        BY <4>1 DEF Has
      <4>. QED BY <1>1, <3>1, <4>2 DEF ListToCome
    <3>2. CASE ~ ListToCome(d)
      <4>1. SUFFICES ASSUME NEW u \in logged' \ {d}
                     PROVE  \/ \E i \in 1 .. Len(s) : BringsIt(s[i], u) /\ \A j \in i + 1 .. Len(s) : ~ TakesIt(s[j], u)
                            \/ u \in logged /\ \A i \in 1 .. Len(s) : ~ TakesIt(s[i], u)
        BY <1>2, <3>2
      <4>2. CASE u = c
        BY <4>1, <4>2
      <4>3. CASE u # c
        <5>1. u \in logged
          BY <4>1, <4>3
        <5>2. \A i \in 1 .. Len(s) : ~ TakesIt(s[i], u)
          BY <4>3, <1>0
        <5>. QED BY <5>1, <5>2
      <4>. QED BY <4>2, <4>3
    <3>. QED BY <3>1, <3>2
  <2>. QED BY <1>1, <1>2, <2>1, <2>2, <2>3, ToldSound
<1>3. CASE d \notin logged
  <2>0. toClient'[d] = toClient[d]
    BY <1>3
  <2>1. PICK t \in Seq(ToClient) :
          t = << >> /\ Len(t) = 0 /\ (\A i \in 1 .. Len(t) : FALSE) /\ toClient'[d] = toClient[d] \o t
    BY <2>0, Untold
  <2>2. d \notin logged' /\ (link[d] \in {"up", "busy"} \/ (t = << >> /\ toServer'[d] = toServer[d] /\ d \notin logged'))
    BY <1>1, <1>3, <2>1
  <2>. QED BY <1>1, <1>3, <2>1, <2>2, ToldSound
<1>. QED BY <1>2, <1>3

\* The news that c is gone.
LEMMA GoneNews ==
  ASSUME NEW c \in Client
  PROVE  \E s \in Seq(ToClient) :
           /\ s = << About("REMOTEUSERQUIT", c) >> /\ Len(s) = 1 /\ 1 \in 1 .. Len(s)
           /\ \A i \in 1 .. Len(s) : s[i] = About("REMOTEUSERQUIT", c) /\ s[i].cmd = "REMOTEUSERQUIT" /\ s[i].user = c
<1> DEFINE m == About("REMOTEUSERQUIT", c)
<1>1. m \in ToClient /\ m.cmd = "REMOTEUSERQUIT" /\ m.user = c
  BY DEF About, ToClient
<1> HIDE DEF m
<1>2. << m >> \in Seq(ToClient) /\ Len(<< m >>) = 1 /\ << m >>[1] = m
  BY <1>1
<1>3. 1 \in 1 .. Len(<< m >>) /\ \A i \in 1 .. Len(<< m >>) : << m >>[i] = m
  BY <1>2
<1>4. \E s \in Seq(ToClient) : s = << m >> /\ Len(s) = 1 /\ 1 \in 1 .. Len(s) /\ \A i \in 1 .. Len(s) : s[i] = m
  BY <1>2, <1>3
<1>. QED BY <1>1, <1>4 DEF m

\* d learns that c is gone.
LEMMA GoneToOthers ==
  ASSUME TypeOK, NEW c \in Client, NEW d \in Client \ {c}, Sound(d), Unmoved(d), c \in logged,
         logged' = logged \ {c}, holder' = FloorsFreed(c), NEW s \in Seq(ToClient), 1 \in 1 .. Len(s),
         \A i \in 1 .. Len(s) : s[i] = About("REMOTEUSERQUIT", c) /\ s[i].cmd = "REMOTEUSERQUIT" /\ s[i].user = c,
         toClient'[d] = IF d \in logged THEN toClient[d] \o s ELSE toClient[d]
  PROVE  Sound(d)'
<1>1. \A f \in Floors : holder'[f] = IF holder[f] = c THEN NoOne ELSE holder[f]
  BY DEF FloorsFreed
<1>2. \A u \in Client \ {d}, f \in Floors : holder[f] = u =>
        holder'[f] = u \/ \E i \in 1 .. Len(s) : FreesIt(s[i], u, f)
  BY <1>1 DEF FreesIt
<1>3. /\ \A f \in Floors : holder'[f] = d => holder[f] = d
      /\ c \notin logged' /\ \A u : u # c => (u \in logged' <=> u \in logged)
  BY <1>1, IntercomAssumption
<1>4. \A i \in 1 .. Len(s) : /\ s[i].cmd = "SENDVOICE" /\ s[i].data = "AUDIO_SEND_DISABLE" =>
                                   s[i].user = c /\ holder'[s[i].floor] = c
                            /\ s[i].cmd = "REMOTEUSERQUIT" => s[i].user = c
  OBVIOUS
<1>. QED BY <1>2, <1>3, <1>4, OthersSound

LEMMA SessionEndsOthers ==
  ASSUME TypeOK, AnyInv, NEW c \in Client, SessionEnds(c),
         \A d \in Client \ {c} : /\ link'[d] = link[d] /\ audioStatus'[d] = audioStatus[d]
                                 /\ speakerName'[d] = speakerName[d] /\ userInfoList'[d] = userInfoList[d]
  PROVE  \A d \in Client \ {c} : Sound(d)'
<1>1. SUFFICES ASSUME NEW d \in Client \ {c}
               PROVE  Sound(d)'
  OBVIOUS
<1>2. /\ Sound(d) /\ Sound(c) /\ Unmoved(d) /\ logged' = logged \ {c} /\ holder' = FloorsFreed(c)
      /\ toClient'[d] = IF c \in logged /\ d \in logged THEN toClient[d] \o << About("REMOTEUSERQUIT", c) >>
                        ELSE toClient[d]
  <2>1. toClient[d] \in Seq(ToClient) /\ About("REMOTEUSERQUIT", c) \in ToClient
    BY DEF TypeOK, About, ToClient
  <2>2. Append(toClient[d], About("REMOTEUSERQUIT", c)) = toClient[d] \o << About("REMOTEUSERQUIT", c) >>
    BY <2>1
  <2>3. toClient'[d] = IF {c, d} \subseteq logged THEN Append(toClient[d], About("REMOTEUSERQUIT", c)) ELSE toClient[d]
    BY DEF SessionEnds
  <2>. QED BY <2>2, <2>3 DEF SessionEnds, AnyInv, Unmoved, TypeOK
<1>4. CASE c \in logged
  <2>1. PICK s \in Seq(ToClient) :
           /\ s = << About("REMOTEUSERQUIT", c) >> /\ Len(s) = 1 /\ 1 \in 1 .. Len(s)
           /\ \A i \in 1 .. Len(s) : s[i] = About("REMOTEUSERQUIT", c) /\ s[i].cmd = "REMOTEUSERQUIT" /\ s[i].user = c
    BY GoneNews
  <2>2. toClient'[d] = IF d \in logged THEN toClient[d] \o s ELSE toClient[d]
    BY <1>2, <1>4, <2>1
  <2>. QED BY <1>2, <1>4, <2>1, <2>2, GoneToOthers
<1>5. CASE c \notin logged
  <2>1. toClient'[d] = toClient[d] /\ logged' = logged /\ holder' = holder
    BY <1>2, <1>5 DEF Sound, Linked, FloorsFreed, TypeOK
  <2>. QED BY <1>2, <2>1, UnmovedSound
<1>. QED BY <1>4, <1>5

LEMMA SessionEndsSound ==
  ASSUME TypeOK, AnyInv, NEW c \in Client, SessionEnds(c), link'[c] \notin {"up", "busy"},
         audioStatus' = audioStatus, speakerName' = speakerName, userInfoList' = userInfoList,
         \A d \in Client \ {c} : link'[d] = link[d]
  PROVE  AnyInv'
<1>1. \A d \in Client \ {c} : Sound(d)'
  BY SessionEndsOthers
<1>2. /\ toServer'[c] = << >> /\ toClient'[c] = << >> /\ c \notin logged'
      /\ \A f \in Floors : holder'[f] # c
  BY IntercomAssumption DEF SessionEnds, FloorsFreed, TypeOK
<1>3. Consistent(c)'
  BY DEF AnyInv, Sound, Consistent
<1>4. Sound(c)'
  BY <1>2, <1>3 DEF Sound, Linked, Shown, Telling, Informed, InSession
<1>. QED BY <1>1, <1>4 DEF AnyInv

LEMMA EndsSound ==
  ASSUME TypeOK, AnyInv, NEW c \in Client,
         Disconnected(c) \/ LoginRefusedOrUserQuit(c) \/ Relogin(c) \/ QuitOfStranger(c) \/ ServerDrop(c)
  PROVE  AnyInv'
<1>1. /\ SessionEnds(c) /\ audioStatus' = audioStatus /\ speakerName' = speakerName
      /\ userInfoList' = userInfoList
      /\ link' = [link EXCEPT ![c] = "none"] \/ link' = [link EXCEPT ![c] = "lost"]
  BY DEF Disconnected, LoginRefusedOrUserQuit, Relogin, QuitOfStranger, ServerDrop, Teardown,
         talkVars, rosterVars
<1>2. link'[c] \notin {"up", "busy"} /\ \A d \in Client \ {c} : link'[d] = link[d]
  BY <1>1 DEF TypeOK
<1>. QED BY <1>1, <1>2, SessionEndsSound

-----------------------------------------------------------------------------
(* The client reads.                                                       *)

LEMMA HandlerSound ==
  ASSUME TypeOK, AnyInv, NEW c \in Client, NetStep(c),
         ~ Connected(c), ~ LoginRefusedOrUserQuit(c), ~ OpenMediaSender(c)
  PROVE  AnyInv'
<1> DEFINE m == Head(toClient[c])
<1>1. /\ Sound(c) /\ link' = link /\ logged' = logged /\ holder' = holder
      /\ link[c] = "up" /\ toClient[c] # << >> /\ Handled(c)
      /\ m.cmd \notin Ends
      /\ toServer' = toServer \/ LoginServered(c)
      /\ \A d \in Client \ {c} : /\ toClient'[d] = toClient[d] /\ audioStatus'[d] = audioStatus[d]
                                 /\ speakerName'[d] = speakerName[d] /\ userInfoList'[d] = userInfoList[d]
  BY DEF AnyInv, NetStep, LoginServered, RemoteUserLogin, RemoteUserQuit, UpdateUserList, VoiceIgnored,
         VoiceGranted, GrantsMe, VoiceEnable, VoiceDisable, Hears, Receives, Handled, Ends, TypeOK,
         serverVars, talkVars, rosterVars
<1>2. /\ \A d \in Client \ {c} : toServer'[d] = toServer[d]
      /\ \A cmd : Has(toServer[c], cmd) => Has(toServer'[c], cmd)
      /\ m.cmd = "LOGINSERVERED" => Has(toServer'[c], "GETUSERLIST")
  <2>1. Packet("GETUSERLIST") \in ToServer /\ Packet("GETUSERLIST").cmd = "GETUSERLIST"
    BY DEF Packet, ToServer
  <2>2. CASE LoginServered(c)
    BY <1>1, <2>1, <2>2, SentHas DEF LoginServered
  <2>3. CASE ~ LoginServered(c)
    BY <1>1, <2>3 DEF NetStep, RemoteUserLogin, RemoteUserQuit, UpdateUserList, VoiceIgnored,
         VoiceGranted, GrantsMe, VoiceEnable, VoiceDisable, Hears, Receives
  <2>. QED BY <2>2, <2>3
<1>3. /\ toClient[c][1] = m /\ m \in ToClient /\ 1 \in 1 .. Len(toClient[c])
      /\ \A cmd : Entry(toClient[c], 1, cmd) <=> m.cmd = cmd
  BY <1>1, HeadType DEF TypeOK, Entry
<1> HIDE DEF m
<1>4. ASSUME m.cmd # "SENDVOICE", m.cmd # "REMOTEUSERQUIT"
      PROVE  \A u, f : ~ Frees(c, 1, u, f) /\ ~ Takes(c, 1, u)
  BY <1>3, <1>4 DEF Frees, News, Takes
<1> DEFINE P == /\ \A ch \in Channel :
                     \/ speakerName'[c][ch] = NoOne
                     \/ /\ speakerName'[c][ch] = speakerName[c][ch]
                        /\ speakerName[c][ch] # c => ~ Frees(c, 1, speakerName[c][ch], FloorOf(c, ch))
                     \/ /\ News(c, 1) /\ m.data = "AUDIO_SEND_DISABLE"
                        /\ speakerName'[c][ch] = m.user /\ FloorOf(c, ch) = m.floor
                /\ \A ch \in Channel : audioStatus'[c][ch] = "AUDIO_SEND_DISABLE" => speakerName'[c][ch] # NoOne
                /\ \A u \in Client : ~ Takes(c, 1, u) /\ (u \in userInfoList[c] \/ Brings(c, 1, u))
                                      => u \in userInfoList'[c]
<1>5. Consistent(c)
  BY <1>1 DEF Sound
<1>6. ASSUME LoginServered(c) \/ RemoteUserLogin(c) \/ UpdateUserList(c)
      PROVE  P
  <2>1. /\ audioStatus' = audioStatus /\ speakerName' = speakerName
        /\ m.cmd \in {"LOGINSERVERED", "REMOTEUSERLOGIN", "UPDATEUSERLIST"}
    BY <1>6 DEF LoginServered, RemoteUserLogin, UpdateUserList, talkVars, Receives, m
  <2>2. \A u \in Client : u \in userInfoList[c] \/ Brings(c, 1, u) => u \in userInfoList'[c]
    BY <1>3, <1>6 DEF LoginServered, RemoteUserLogin, UpdateUserList, rosterVars, Receives, m, Brings, TypeOK
  <2>. QED BY <1>4, <1>5, <2>1, <2>2 DEF Consistent
<1>7. ASSUME RemoteUserQuit(c)
      PROVE  P
  <2>1. /\ m.cmd = "REMOTEUSERQUIT"
        /\ \A ch \in Channel : speakerName'[c][ch] = IF speakerName[c][ch] = m.user THEN NoOne ELSE speakerName[c][ch]
        /\ \A ch \in Channel : audioStatus'[c][ch] = IF speakerName[c][ch] = m.user THEN "AUDIO_SEND_ENABLE" ELSE audioStatus[c][ch]
        /\ userInfoList'[c] = userInfoList[c] \ {m.user}
    BY <1>7 DEF RemoteUserQuit, Receives, m, TypeOK
  <2>2. \A u, f : (Frees(c, 1, u, f) => u = m.user) /\ (Takes(c, 1, u) <=> u = m.user) /\ ~ Brings(c, 1, u)
    BY <1>3, <2>1 DEF Frees, News, Takes, Brings
  <2>. QED BY <1>5, <2>1, <2>2 DEF Consistent
<1>8. ASSUME VoiceIgnored(c) \/ VoiceGranted(c) \/ VoiceEnable(c) \/ VoiceDisable(c)
      PROVE  P
  <2>1. m.cmd = "SENDVOICE" /\ News(c, 1) /\ userInfoList' = userInfoList
    BY <1>3, <1>8 DEF VoiceIgnored, VoiceGranted, GrantsMe, VoiceEnable, VoiceDisable, Hears, Receives, m, News, rosterVars
  <2>2. /\ \A u, f : Frees(c, 1, u, f) => u = m.user /\ f = m.floor /\ m.data = "AUDIO_SEND_ENABLE"
        /\ \A u : ~ Takes(c, 1, u) /\ ~ Brings(c, 1, u)
    BY <1>3, <2>1 DEF Frees, Takes, Brings, Voice
  <2>3. /\ \A ch \in Channel : FloorOf(c, ch) \in {Room, Group[c]} /\ ChannelOf(FloorOf(c, ch)) = ch
        /\ m.floor \in {Room, Group[c]} => FloorOf(c, ChannelOf(m.floor)) = m.floor
    BY ChannelFloor DEF FloorOf
  <2>4. m.data \in VoiceData /\ m.user \in Client
    BY <1>3, <2>1 DEF ToClient, VoicePacket
  <2>5. CASE VoiceIgnored(c)
    <3>1. /\ speakerName' = speakerName /\ audioStatus' = audioStatus
          /\ m.data = "AUDIO_SEND_ENABLE" => m.floor \notin {Room, Group[c]}
      BY <2>4, <2>5, <1>3 DEF VoiceIgnored, talkVars, Hears, m, VoiceData
    <3>. QED BY <1>5, <2>1, <2>2, <2>3, <3>1 DEF Consistent
  <2>6. CASE VoiceGranted(c)
    <3>1. /\ speakerName' = speakerName /\ m.user = c
          /\ \A ch \in Channel : audioStatus'[c][ch] \in {audioStatus[c][ch], "AUDIO_SEND_SENDING"}
      BY <2>6 DEF VoiceGranted, GrantsMe, m, TypeOK
    <3>. QED BY <1>5, <2>1, <2>2, <3>1 DEF Consistent
  <2>7. CASE VoiceEnable(c)
    <3>1. /\ m.floor \in {Room, Group[c]}
          /\ \A ch \in Channel : speakerName'[c][ch] = IF ch = ChannelOf(m.floor) THEN NoOne ELSE speakerName[c][ch]
          /\ \A ch \in Channel : audioStatus'[c][ch] = IF ch = ChannelOf(m.floor) THEN "AUDIO_SEND_ENABLE" ELSE audioStatus[c][ch]
      BY <2>7 DEF VoiceEnable, Hears, m, TypeOK
    <3>. QED BY <1>5, <2>1, <2>2, <2>3, <3>1 DEF Consistent
  <2>8. CASE VoiceDisable(c)
    <3>1. /\ m.floor \in {Room, Group[c]} /\ m.data = "AUDIO_SEND_DISABLE"
          /\ \A ch \in Channel : speakerName'[c][ch] = IF ch = ChannelOf(m.floor) THEN m.user ELSE speakerName[c][ch]
          /\ \A ch \in Channel : audioStatus'[c][ch] = IF ch = ChannelOf(m.floor) THEN "AUDIO_SEND_DISABLE" ELSE audioStatus[c][ch]
      BY <2>8 DEF VoiceDisable, Hears, m, TypeOK
    <3>2. m.user # NoOne
      BY <2>4, IntercomAssumption
    <3>3. \A u, f : ~ Frees(c, 1, u, f)
      BY <2>2, <3>1
    <3>. QED BY <1>5, <2>1, <2>2, <2>3, <3>1, <3>2, <3>3 DEF Consistent
  <2>. QED BY <1>8, <2>5, <2>6, <2>7, <2>8
<1>9. P
  BY <1>6, <1>7, <1>8 DEF NetStep
<1>10. Sound(c)'
  <2>1. link[c] \in {"up", "busy"} /\ link'[c] = link[c]
    BY <1>1
  <2>. QED BY <1>1, <1>2, <1>9, <2>1, ReadSound DEF m
<1>11. \A d \in Client \ {c} : Sound(d)'
  <2>1. \A d \in Client \ {c} : Sound(d) /\ Unmoved(d)
    BY <1>1, <1>2 DEF AnyInv, Unmoved
  <2>. QED BY <1>1, <2>1, UnmovedSound
<1>. QED BY <1>10, <1>11 DEF AnyInv

LEMMA OpenSound ==
  ASSUME TypeOK, AnyInv, NEW c \in Client, OpenMediaSender(c)
  PROVE  AnyInv'
<1>1. /\ toClient' = toClient /\ holder' = holder /\ logged' = logged
      /\ \A d \in Client : Sound(d) /\ Unmoved(d)
  BY DEF OpenMediaSender, rosterVars, queueVars, serverVars, AnyInv, Unmoved
<1>. QED BY <1>1, UnmovedSound DEF AnyInv

-----------------------------------------------------------------------------
(* The server answers.                                                     *)

\* A step of the server touches the queues and its own state.
ServerFrame ==
  /\ link' = link /\ audioStatus' = audioStatus /\ speakerName' = speakerName
  /\ userInfoList' = userInfoList

\* A packet without effect, an answer that only c hears.
LEMMA IgnoreSound ==
  ASSUME TypeOK, AnyInv, NEW c \in Client, ServerIgnore(c)
  PROVE  AnyInv'
<1>1. /\ ServerFrame /\ toClient' = toClient /\ holder' = holder /\ logged' = logged
      /\ Asked(c, "SENDVOICE") /\ Served(c) /\ \A d \in Client : Sound(d)
  BY DEF ServerIgnore, ServerFrame, talkVars, rosterVars, serverVars, AnyInv
<1>2. /\ link[c] \in {"up", "busy"} /\ \A d \in Client \ {c} : Unmoved(d)
      /\ \A x : Has(toServer[c], x) => x = "SENDVOICE" \/ Has(toServer'[c], x)
  BY <1>1, ServedHas DEF Unmoved, ServerFrame
<1>3. ListToCome(c) => ListToCome(c)'
  BY <1>1, <1>2 DEF ListToCome, ServerFrame
<1>4. Sound(c)'
  <2>1. /\ \A ch \in Channel :
             /\ speakerName'[c][ch] \in {speakerName[c][ch], NoOne}
             /\ audioStatus'[c][ch] = "AUDIO_SEND_DISABLE" =>
                  audioStatus[c][ch] = "AUDIO_SEND_DISABLE" /\ speakerName'[c][ch] = speakerName[c][ch]
        /\ ListToCome(c)' \/ (userInfoList'[c] = userInfoList[c] /\ ~ ListToCome(c))
        /\ link'[c] \in {"up", "busy"}
    BY <1>1, <1>2, <1>3 DEF ServerFrame
  <2>. QED BY <1>1, <1>2, <2>1, QuietSound
<1>5. \A d \in Client \ {c} : Sound(d)'
  BY <1>1, <1>2, UnmovedSound
<1>. QED BY <1>4, <1>5 DEF AnyInv

\* A queue of one packet.
LEMMA Single ==
  ASSUME NEW m \in ToClient
  PROVE  \E s \in Seq(ToClient) : s = << m >> /\ Len(s) = 1 /\ 1 \in 1 .. Len(s) /\ \A i \in 1 .. Len(s) : s[i] = m
<1>1. << m >> \in Seq(ToClient) /\ Len(<< m >>) = 1 /\ << m >>[1] = m
  OBVIOUS
<1>2. 1 \in 1 .. Len(<< m >>) /\ \A i \in 1 .. Len(<< m >>) : << m >>[i] = m
  BY <1>1
<1>. QED BY <1>1, <1>2

\* What c itself is told is one packet.
LEMMA AnswerSound ==
  ASSUME TypeOK, NEW c \in Client, Sound(c), NEW m \in ToClient, ServerFrame,
         link[c] \in {"up", "busy"}, toClient'[c] = toClient[c] \o << m >>,
         \A f \in Floors : holder'[f] = c => c \in logged',
         c \in logged' \/ m.cmd \in Ends \/ (c \notin logged /\ m.cmd # "SENDVOICE"),
         c \in logged /\ c \in logged' => \A u \in Client \ {c}, f \in Floors : holder[f] = u => holder'[f] = u,
         ~ (m.cmd = "SENDVOICE" /\ m.data = "AUDIO_SEND_DISABLE"),
         m.cmd # "REMOTEUSERQUIT",
         c \in logged' => \/ c \in logged /\ logged' = logged /\ (ListToCome(c) => ListToCome(c)')
                          \/ m.cmd = "UPDATEUSERLIST" /\ m.users = logged'
                          \/ m.cmd \in Ends
  PROVE  Sound(c)'
<1>1. PICK s \in Seq(ToClient) : s = << m >> /\ Len(s) = 1 /\ 1 \in 1 .. Len(s) /\ \A i \in 1 .. Len(s) : s[i] = m
  BY Single
<1>2. /\ toClient'[c] = toClient[c] \o s /\ link'[c] = link[c] /\ audioStatus'[c] = audioStatus[c]
      /\ speakerName'[c] = speakerName[c] /\ userInfoList'[c] = userInfoList[c]
      /\ m.cmd \in Ends => \E i \in 1 .. Len(s) : s[i].cmd \in Ends
  BY <1>1 DEF ServerFrame
<1>3. \/ c \in logged'
      \/ \E i \in 1 .. Len(s) : s[i].cmd \in Ends
      \/ c \notin logged /\ \A i \in 1 .. Len(s) : s[i].cmd # "SENDVOICE"
  BY <1>1, <1>2
<1>4. /\ \A i \in 1 .. Len(s) : s[i].cmd = "SENDVOICE" /\ s[i].data = "AUDIO_SEND_DISABLE" =>
           s[i].user # c /\ holder'[s[i].floor] = s[i].user
      /\ \A i \in 1 .. Len(s) : \A u : ~ TakesIt(s[i], u)
  BY <1>1 DEF TakesIt
<1>5. c \in logged' => \/ ListToCome(c)'
                       \/ \E i \in 1 .. Len(s) : s[i].cmd \in Ends
                       \/ \A u \in logged' \ {c} :
                            \/ \E i \in 1 .. Len(s) : /\ BringsIt(s[i], u)
                                                      /\ \A j \in i + 1 .. Len(s) : ~ TakesIt(s[j], u)
                            \/ /\ c \in logged /\ u \in logged /\ ~ ListToCome(c)
                               /\ \A i \in 1 .. Len(s) : ~ TakesIt(s[i], u)
  <2>1. CASE c \in logged /\ logged' = logged /\ (ListToCome(c) => ListToCome(c)')
    BY <1>4, <2>1
  <2>2. CASE m.cmd = "UPDATEUSERLIST" /\ m.users = logged'
    <3>1. \A u \in logged' : BringsIt(s[1], u)
      BY <1>1, <2>2 DEF BringsIt
    <3>2. \A j \in 1 + 1 .. Len(s) : FALSE
      BY <1>1
    <3>. QED BY <1>1, <3>1, <3>2
  <2>. QED BY <1>2, <2>1, <2>2
<1>6. /\ \/ link[c] \in {"up", "busy"}
         \/ s = << >> /\ toServer'[c] = toServer[c] /\ c \notin logged'
      /\ c \in logged /\ c \in logged' => \A u \in Client \ {c}, f \in Floors : holder[f] = u =>
           holder'[f] = u \/ \E i \in 1 .. Len(s) : FreesIt(s[i], u, f)
  OBVIOUS
<1>. QED BY <1>2, <1>3, <1>4, <1>5, <1>6, ToldSound

\* Nothing is said to those who are not concerned.
LEMMA SilenceSound ==
  ASSUME TypeOK, NEW c \in Client, NEW d \in Client \ {c}, Sound(d), ServerFrame, toServer'[d] = toServer[d],
         toClient'[d] = IF d \in logged THEN toClient[d] \o << >> ELSE toClient[d],
         logged' = logged, holder' = holder
  PROVE  Sound(d)'
<1>1. toClient[d] \o << >> = toClient[d]
  BY DEF TypeOK
<1>. QED BY <1>1, UnmovedSound DEF Unmoved, ServerFrame

LEMMA RefuseSound ==
  ASSUME TypeOK, AnyInv, NEW c \in Client, ServerRefuse(c)
  PROVE  AnyInv'
<1> DEFINE m == Packet("LOGINREFUSED")
<1>1. /\ ServerFrame /\ holder' = holder /\ logged' = logged /\ Tell(c, << m >>, << >>)
      /\ Asked(c, "LOGINSERVER") /\ Served(c) /\ \A d \in Client : Sound(d)
  BY DEF ServerRefuse, ServerFrame, talkVars, rosterVars, serverVars, AnyInv
<1>2. link[c] \in {"up", "busy"} /\ \A d \in Client \ {c} : toServer'[d] = toServer[d]
  BY <1>1, ServedHas
<1>3. m \in ToClient /\ m.cmd = "LOGINREFUSED" /\ m.cmd \in Ends
  BY DEF Packet, ToClient, Ends
<1>4. /\ toClient'[c] = toClient[c] \o << m >>
      /\ \A d \in Client \ {c} : toClient'[d] = IF d \in logged THEN toClient[d] \o << >> ELSE toClient[d]
      /\ \A f \in Floors : holder'[f] = c => c \in logged'
  BY <1>1 DEF Tell, Sound, Linked
<1> HIDE DEF m
<1>5. Sound(c)'
  BY <1>1, <1>2, <1>3, <1>4, AnswerSound
<1>6. \A d \in Client \ {c} : Sound(d)'
  BY <1>1, <1>2, <1>4, SilenceSound
<1>. QED BY <1>5, <1>6 DEF AnyInv

LEMMA UserListSound ==
  ASSUME TypeOK, AnyInv, NEW c \in Client, ServerUserList(c)
  PROVE  AnyInv'
<1> DEFINE m == UserList(logged)
<1>1. /\ ServerFrame /\ holder' = holder /\ logged' = logged /\ Tell(c, << m >>, << >>)
      /\ Asked(c, "GETUSERLIST") /\ Served(c) /\ \A d \in Client : Sound(d)
  BY DEF ServerUserList, ServerFrame, talkVars, rosterVars, serverVars, AnyInv
<1>2. link[c] \in {"up", "busy"} /\ \A d \in Client \ {c} : toServer'[d] = toServer[d]
  BY <1>1, ServedHas
<1>3. m \in ToClient /\ m.cmd = "UPDATEUSERLIST" /\ m.users = logged'
  BY <1>1 DEF UserList, ToClient, TypeOK
<1>4. /\ toClient'[c] = toClient[c] \o << m >>
      /\ \A d \in Client \ {c} : toClient'[d] = IF d \in logged THEN toClient[d] \o << >> ELSE toClient[d]
      /\ \A f \in Floors : holder'[f] = c => c \in logged'
  BY <1>1 DEF Tell, Sound, Linked
<1> HIDE DEF m
<1>5. Sound(c)'
  BY <1>1, <1>2, <1>3, <1>4, AnswerSound
<1>6. \A d \in Client \ {c} : Sound(d)'
  BY <1>1, <1>2, <1>4, SilenceSound
<1>. QED BY <1>5, <1>6 DEF AnyInv

\* The others learn that c has no session any more.
LEMMA LeftSound ==
  ASSUME TypeOK, AnyInv, NEW c \in Client, NEW d \in Client \ {c}, ServerFrame, toServer'[d] = toServer[d],
         logged' = logged \ {c}, holder' = FloorsFreed(c), c \in logged,
         NEW own, Tell(c, own, << About("REMOTEUSERQUIT", c) >>)
  PROVE  Sound(d)'
<1>1. Sound(d) /\ Unmoved(d)
  BY DEF AnyInv, Unmoved, ServerFrame
<1>2. PICK s \in Seq(ToClient) :
           /\ s = << About("REMOTEUSERQUIT", c) >> /\ Len(s) = 1 /\ 1 \in 1 .. Len(s)
           /\ \A i \in 1 .. Len(s) : s[i] = About("REMOTEUSERQUIT", c) /\ s[i].cmd = "REMOTEUSERQUIT" /\ s[i].user = c
  BY GoneNews
<1>3. toClient'[d] = IF d \in logged THEN toClient[d] \o s ELSE toClient[d]
  BY <1>2 DEF Tell
<1>4. 1 \in 1 .. Len(s) /\ \A i \in 1 .. Len(s) :
        s[i] = About("REMOTEUSERQUIT", c) /\ s[i].cmd = "REMOTEUSERQUIT" /\ s[i].user = c
  BY <1>2
<1>. QED BY <1>1, <1>3, <1>4, GoneToOthers

LEMMA QuitSound ==
  ASSUME TypeOK, AnyInv, NEW c \in Client, ServerQuit(c)
  PROVE  AnyInv'
<1> DEFINE m == Packet("USERQUIT")
<1>1. /\ ServerFrame /\ holder' = FloorsFreed(c) /\ logged' = logged \ {c}
      /\ Asked(c, "QUITSERVER") /\ Served(c) /\ \A d \in Client : Sound(d)
  BY DEF ServerQuit, ServerFrame, talkVars, rosterVars, AnyInv
<1>2. link[c] \in {"up", "busy"} /\ \A d \in Client \ {c} : toServer'[d] = toServer[d]
  BY <1>1, ServedHas
<1>3. m \in ToClient /\ m.cmd = "USERQUIT" /\ m.cmd \in Ends
  BY DEF Packet, ToClient, Ends
<1>4. /\ toClient'[c] = toClient[c] \o << m >>
      /\ \A f \in Floors : holder'[f] # c
  BY <1>1, IntercomAssumption DEF ServerQuit, Tell, FloorsFreed
<1> HIDE DEF m
<1>5. Sound(c)'
  BY <1>1, <1>2, <1>3, <1>4, AnswerSound
<1>6. CASE c \in logged
  <2>1. Tell(c, << m >>, << About("REMOTEUSERQUIT", c) >>)
    BY <1>6 DEF ServerQuit, m
  <2>. QED BY <1>1, <1>2, <1>5, <1>6, <2>1, LeftSound DEF AnyInv
<1>7. CASE c \notin logged
  <2>1. /\ \A d \in Client \ {c} : toClient'[d] = IF d \in logged THEN toClient[d] \o << >> ELSE toClient[d]
        /\ logged' = logged /\ holder' = holder
    BY <1>1, <1>7 DEF ServerQuit, Tell, FloorsFreed, Sound, Linked, TypeOK
  <2>. QED BY <1>1, <1>2, <1>5, <2>1, SilenceSound DEF AnyInv
<1>. QED BY <1>6, <1>7

LEMMA KickSound ==
  ASSUME TypeOK, AnyInv, NEW c \in Client, ServerKick(c)
  PROVE  AnyInv'
<1> DEFINE m == Packet("RELOGIN")
<1>1. /\ ServerFrame /\ holder' = FloorsFreed(c) /\ logged' = logged \ {c} /\ c \in logged
      /\ toServer' = toServer /\ link[c] \in {"up", "busy"} /\ \A d \in Client : Sound(d)
      /\ Tell(c, << m >>, << About("REMOTEUSERQUIT", c) >>)
  BY DEF ServerKick, ServerFrame, talkVars, rosterVars, AnyInv
<1>2. m \in ToClient /\ m.cmd = "RELOGIN" /\ m.cmd \in Ends
  BY DEF Packet, ToClient, Ends
<1>3. /\ toClient'[c] = toClient[c] \o << m >>
      /\ \A f \in Floors : holder'[f] # c
  BY <1>1, IntercomAssumption DEF Tell, FloorsFreed
<1> HIDE DEF m
<1>4. Sound(c)'
  BY <1>1, <1>2, <1>3, AnswerSound
<1>. QED BY <1>1, <1>3, <1>4, LeftSound DEF AnyInv

\* What c still expects it expects after an answer to something else.
LEMMA ComingKept ==
  ASSUME TypeOK, NEW c \in Client, NEW s \in Seq(ToClient), link'[c] = link[c],
         toClient'[c] = toClient[c] \o s, Asked(c, "SENDVOICE"), Served(c), ListToCome(c)
  PROVE  ListToCome(c)'
<1>1. \A x : Has(toServer[c], x) => x = "SENDVOICE" \/ Has(toServer'[c], x)
  BY ServedHas
<1>2. /\ Len(toClient[c]) \in Nat
      /\ \A i \in 1 .. Len(toClient[c]) : i \in 1 .. Len(toClient'[c]) /\ toClient'[c][i] = toClient[c][i]
  BY Append1
<1>3. Has(toClient[c], "LOGINSERVERED") => Has(toClient'[c], "LOGINSERVERED")
  BY <1>2 DEF Has
<1>. QED BY <1>1, <1>3 DEF ListToCome

\* c is given f, or gives it back, and the others hear of it.
LEMMA VoiceToOthers ==
  ASSUME TypeOK, NEW c \in Client, NEW d \in Client \ {c}, Sound(d), ServerFrame, toServer'[d] = toServer[d],
         NEW f \in Floors, NEW m \in ToClient, logged' = logged, c \in logged,
         toClient'[d] = IF d \in logged THEN toClient[d] \o << m >> ELSE toClient[d],
         \/ m = Voice(c, f, "AUDIO_SEND_DISABLE") /\ holder[f] = NoOne /\ holder' = [holder EXCEPT ![f] = c]
         \/ m = Voice(c, f, "AUDIO_SEND_ENABLE") /\ holder[f] = c /\ holder' = [holder EXCEPT ![f] = NoOne]
  PROVE  Sound(d)'
<1>1. PICK s \in Seq(ToClient) : s = << m >> /\ Len(s) = 1 /\ 1 \in 1 .. Len(s) /\ \A i \in 1 .. Len(s) : s[i] = m
  BY Single
<1>2. toClient'[d] = IF d \in logged THEN toClient[d] \o s ELSE toClient[d]
  BY <1>1
<1>3. /\ Unmoved(d) /\ \A u : u # c => (u \in logged' <=> u \in logged)
      /\ \A i \in 1 .. Len(s) : ~ TakesIt(s[i], c)
      /\ m.cmd = "SENDVOICE" /\ m.user = c /\ m.floor = f
  BY <1>1 DEF Unmoved, ServerFrame, TakesIt, Voice
<1>4. /\ \A g \in Floors : holder'[g] = IF g = f THEN holder'[f] ELSE holder[g]
      /\ holder'[f] \in {c, NoOne} /\ NoOne \notin Client
      /\ holder[f] = c => m = Voice(c, f, "AUDIO_SEND_ENABLE")
      /\ m.data = "AUDIO_SEND_DISABLE" => holder'[f] = c
      /\ holder[f] \in {c, NoOne}
  BY IntercomAssumption DEF TypeOK, Voice
<1>5. \A g \in Floors : holder'[g] = d => holder[g] = d
  BY <1>4
<1>6. d \in logged => \A u \in Client \ {d}, g \in Floors : holder[g] = u =>
        holder'[g] = u \/ \E i \in 1 .. Len(s) : FreesIt(s[i], u, g)
  BY <1>1, <1>4 DEF FreesIt
<1>7. \A i \in 1 .. Len(s) : /\ s[i].cmd = "SENDVOICE" /\ s[i].data = "AUDIO_SEND_DISABLE" =>
                                  s[i].user = c /\ holder'[s[i].floor] = c
                             /\ s[i].cmd = "REMOTEUSERQUIT" => s[i].user = c
  BY <1>1, <1>3, <1>4
<1>. QED BY <1>2, <1>3, <1>5, <1>6, <1>7, OthersSound

LEMMA GrantSound ==
  ASSUME TypeOK, AnyInv, NEW c \in Client, ServerGrant(c)
  PROVE  AnyInv'
<1> DEFINE f == Head(toServer[c]).floor
           m == Voice(c, f, "AUDIO_SEND_ENABLE")
           o == Voice(c, f, "AUDIO_SEND_DISABLE")
<1>1. /\ ServerFrame /\ logged' = logged /\ Asked(c, "SENDVOICE") /\ Served(c) /\ c \in logged
      /\ holder[f] = NoOne /\ holder' = [holder EXCEPT ![f] = c] /\ Tell(c, << m >>, << o >>)
      /\ \A d \in Client : Sound(d)
  BY DEF ServerGrant, AskedVoice, ServerFrame, talkVars, rosterVars, AnyInv
<1>2. link[c] \in {"up", "busy"} /\ \A d \in Client \ {c} : toServer'[d] = toServer[d]
  BY <1>1, ServedHas
<1>3. f \in Floors
  BY <1>1, HeadType DEF Asked, ToServer, VoicePacket
<1> HIDE DEF f
<1>4. /\ m \in ToClient /\ m.cmd = "SENDVOICE" /\ m.data = "AUDIO_SEND_ENABLE" /\ o \in ToClient
  BY <1>3 DEF Voice, ToClient, VoicePacket, VoiceData
<1>5. /\ toClient'[c] = toClient[c] \o << m >>
      /\ \A d \in Client \ {c} : toClient'[d] = IF d \in logged THEN toClient[d] \o << o >> ELSE toClient[d]
  BY <1>1 DEF Tell
<1>6. \A d \in Client \ {c} : Sound(d)'
  <2>1. /\ ServerFrame /\ logged' = logged /\ c \in logged /\ \A d \in Client : Sound(d)
        /\ \/ o = Voice(c, f, "AUDIO_SEND_DISABLE") /\ holder[f] = NoOne /\ holder' = [holder EXCEPT ![f] = c]
           \/ o = Voice(c, f, "AUDIO_SEND_ENABLE") /\ holder[f] = c /\ holder' = [holder EXCEPT ![f] = NoOne]
    BY <1>1
  <2> HIDE DEF o
  <2>. QED BY <1>2, <1>3, <1>4, <1>5, <2>1, VoiceToOthers
<1> HIDE DEF m
<1>7. /\ \A g \in Floors : holder'[g] = c => c \in logged'
      /\ \A u \in Client \ {c}, g \in Floors : holder[g] = u => holder'[g] = u
      /\ ~ (m.cmd = "SENDVOICE" /\ m.data = "AUDIO_SEND_DISABLE") /\ m.cmd # "REMOTEUSERQUIT"
  BY <1>1, <1>4, IntercomAssumption DEF TypeOK
<1>8. ListToCome(c) => ListToCome(c)'
  <2>1. PICK s \in Seq(ToClient) : s = << m >>
    BY <1>4, Single
  <2>2. link'[c] = link[c] /\ toClient'[c] = toClient[c] \o s
    BY <1>1, <1>5, <2>1 DEF ServerFrame
  <2>. QED BY <1>1, <2>2, ComingKept
<1>9. Sound(c)'
  BY <1>1, <1>2, <1>4, <1>5, <1>7, <1>8, AnswerSound
<1>. QED BY <1>6, <1>9 DEF AnyInv

LEMMA ReleaseSound ==
  ASSUME TypeOK, AnyInv, NEW c \in Client, ServerRelease(c)
  PROVE  AnyInv'
<1> DEFINE f == Head(toServer[c]).floor
           o == Voice(c, f, "AUDIO_SEND_ENABLE")
<1>1. /\ ServerFrame /\ logged' = logged /\ Asked(c, "SENDVOICE") /\ Served(c) /\ c \in logged
      /\ holder[f] = c /\ holder' = [holder EXCEPT ![f] = NoOne] /\ Tell(c, << >>, << o >>)
      /\ \A d \in Client : Sound(d)
  BY DEF ServerRelease, AskedVoice, ServerFrame, talkVars, rosterVars, AnyInv
<1>2. link[c] \in {"up", "busy"} /\ \A d \in Client \ {c} : toServer'[d] = toServer[d]
  BY <1>1, ServedHas
<1>3. f \in Floors
  BY <1>1, HeadType DEF Asked, ToServer, VoicePacket
<1> HIDE DEF f
<1>4. o \in ToClient
  BY <1>3 DEF Voice, ToClient, VoicePacket, VoiceData
<1>5. /\ toClient'[c] = toClient[c] \o << >>
      /\ \A d \in Client \ {c} : toClient'[d] = IF d \in logged THEN toClient[d] \o << o >> ELSE toClient[d]
  BY <1>1 DEF Tell
<1>6. \A d \in Client \ {c} : Sound(d)'
  <2>1. /\ ServerFrame /\ logged' = logged /\ c \in logged /\ \A d \in Client : Sound(d)
        /\ \/ o = Voice(c, f, "AUDIO_SEND_DISABLE") /\ holder[f] = NoOne /\ holder' = [holder EXCEPT ![f] = c]
           \/ o = Voice(c, f, "AUDIO_SEND_ENABLE") /\ holder[f] = c /\ holder' = [holder EXCEPT ![f] = NoOne]
    BY <1>1
  <2> HIDE DEF o
  <2>. QED BY <1>2, <1>3, <1>4, <1>5, <2>1, VoiceToOthers
<1>7. toClient'[c] = toClient[c]
  BY <1>5 DEF TypeOK
<1>8. PICK s \in Seq(ToClient) :
        s = << >> /\ Len(s) = 0 /\ (\A i \in 1 .. Len(s) : FALSE) /\ toClient'[c] = toClient[c] \o s
  BY <1>7, Untold
<1>9. /\ link'[c] = link[c] /\ audioStatus'[c] = audioStatus[c] /\ speakerName'[c] = speakerName[c]
      /\ userInfoList'[c] = userInfoList[c] /\ link[c] \in {"up", "busy"} /\ c \in logged'
      /\ \A u \in Client \ {c}, g \in Floors : holder[g] = u => holder'[g] = u
  BY <1>1, <1>2 DEF ServerFrame, TypeOK
<1>10. ListToCome(c) => ListToCome(c)'
  BY <1>1, <1>8, <1>9, ComingKept
<1>11. c \in logged' => \/ ListToCome(c)'
                        \/ \E i \in 1 .. Len(s) : s[i].cmd \in Ends
                        \/ \A u \in logged' \ {c} :
                             \/ \E i \in 1 .. Len(s) : /\ BringsIt(s[i], u)
                                                       /\ \A j \in i + 1 .. Len(s) : ~ TakesIt(s[j], u)
                             \/ /\ c \in logged /\ u \in logged /\ ~ ListToCome(c)
                                /\ \A i \in 1 .. Len(s) : ~ TakesIt(s[i], u)
  BY <1>1, <1>8, <1>10
<1>12. /\ \A g \in Floors : holder'[g] = c => c \in logged'
       /\ c \in logged /\ c \in logged' => \A u \in Client \ {c}, g \in Floors : holder[g] = u =>
            holder'[g] = u \/ \E i \in 1 .. Len(s) : FreesIt(s[i], u, g)
       /\ \A i \in 1 .. Len(s) : s[i].cmd = "SENDVOICE" /\ s[i].data = "AUDIO_SEND_DISABLE" =>
            s[i].user # c /\ holder'[s[i].floor] = s[i].user
       /\ Sound(c) /\ toClient'[c] = toClient[c] \o s
  BY <1>1, <1>8, <1>9
<1>13. Sound(c)'
  BY <1>9, <1>11, <1>12, ToldSound
<1>. QED BY <1>6, <1>13 DEF AnyInv

\* What a user who logs in is told.
LEMMA ReplayNews ==
  ASSUME TypeOK, NEW c \in Client
  PROVE  \E s \in Seq(ToClient) :
           /\ s = << Packet("LOGINSERVERED") >> \o Replay(c, Room) \o Replay(c, Group[c])
           /\ 1 \in 1 .. Len(s) /\ s[1].cmd = "LOGINSERVERED"
           /\ \A i \in 1 .. Len(s) :
                \/ s[i].cmd = "LOGINSERVERED"
                \/ /\ s[i].cmd = "SENDVOICE" /\ s[i].floor \in Floors
                   /\ s[i].user # c /\ holder[s[i].floor] = s[i].user
                   /\ s[i].data = "AUDIO_SEND_DISABLE"
<1> DEFINE p == Packet("LOGINSERVERED")
           P(m) == \/ m.cmd = "LOGINSERVERED"
                   \/ /\ m.cmd = "SENDVOICE" /\ m.floor \in Floors
                      /\ m.user # c /\ holder[m.floor] = m.user
                      /\ m.data = "AUDIO_SEND_DISABLE"
           S == {m \in ToClient : P(m)}
           q == << p >> \o Replay(c, Room) \o Replay(c, Group[c])
<1>1. p \in S /\ p.cmd = "LOGINSERVERED"
  BY DEF Packet, ToClient
<1>2. \A f : Replay(c, f) = << >> \/ \E x \in S : Replay(c, f) = << x >>
  <2>1. SUFFICES ASSUME NEW f, f \in Floors, holder[f] \notin {c, NoOne}
                 PROVE  Voice(holder[f], f, "AUDIO_SEND_DISABLE") \in S
    BY DEF Replay
  <2>2. holder[f] \in Client \ {c}
    BY <2>1 DEF TypeOK
  <2>3. Voice(holder[f], f, "AUDIO_SEND_DISABLE") \in ToClient
    BY <2>1, <2>2 DEF Voice, ToClient, VoicePacket, VoiceData
  <2>4. P(Voice(holder[f], f, "AUDIO_SEND_DISABLE"))
    BY <2>1, <2>2 DEF Voice
  <2>. QED BY <2>3, <2>4
<1>3. S \subseteq ToClient /\ \A x \in S : P(x)
  OBVIOUS
<1> HIDE DEF S, p
<1>4. Replay(c, Room) \in Seq(S) /\ Replay(c, Group[c]) \in Seq(S) /\ << p >> \in Seq(S)
  <2>1. << >> \in Seq(S) /\ \A x \in S : << x >> \in Seq(S)
    OBVIOUS
  <2>. QED BY <1>1, <1>2, <2>1
<1>5. q \in Seq(S) /\ Len(q) \in Nat \ {0} /\ q[1] = p
  BY <1>4
<1>6. q = << Packet("LOGINSERVERED") >> \o Replay(c, Room) \o Replay(c, Group[c])
  BY DEF p
<1> HIDE DEF q
<1>7. (\A i \in 1 .. Len(q) : q[i] \in S) /\ 1 \in 1 .. Len(q) /\ q \in Seq(ToClient)
  BY <1>3, <1>5
<1>. QED BY <1>1, <1>3, <1>5, <1>6, <1>7

\* What the others are told when c logs in.
LEMMA ArrivalNews ==
  ASSUME NEW c \in Client
  PROVE  \E s \in Seq(ToClient) :
           /\ s = IF c \in logged THEN << About("REMOTEUSERQUIT", c), About("REMOTEUSERLOGIN", c) >>
                  ELSE << About("REMOTEUSERLOGIN", c) >>
           /\ Len(s) \in 1 .. Len(s) /\ s[Len(s)] = About("REMOTEUSERLOGIN", c)
           /\ c \in logged => \E i \in 1 .. Len(s) : s[i] = About("REMOTEUSERQUIT", c)
           /\ \A i \in 1 .. Len(s) : s[i] \in {About("REMOTEUSERQUIT", c), About("REMOTEUSERLOGIN", c)}
<1> DEFINE a == About("REMOTEUSERQUIT", c)
           b == About("REMOTEUSERLOGIN", c)
<1>1. a \in ToClient /\ b \in ToClient
  BY DEF About, ToClient
<1> HIDE DEF a, b
<1>2. CASE c \in logged
  <2> DEFINE s == << a, b >>
  <2>1. s \in Seq(ToClient) /\ Len(s) = 2 /\ s[1] = a /\ s[2] = b
    BY <1>1
  <2>2. s = IF c \in logged THEN << a, b >> ELSE << b >>
    BY <1>2
  <2> HIDE DEF s
  <2>3. 1 \in 1 .. Len(s) /\ 2 \in 1 .. Len(s) /\ \A i \in 1 .. Len(s) : i = 1 \/ i = 2
    BY <2>1
  <2>. QED BY <1>2, <2>1, <2>2, <2>3 DEF a, b
<1>3. CASE c \notin logged
  <2> DEFINE s == << b >>
  <2>1. s \in Seq(ToClient) /\ Len(s) = 1 /\ s[1] = b
    BY <1>1
  <2>2. s = IF c \in logged THEN << a, b >> ELSE << b >>
    BY <1>3
  <2> HIDE DEF s
  <2>3. 1 \in 1 .. Len(s) /\ \A i \in 1 .. Len(s) : i = 1
    BY <2>1
  <2>. QED BY <1>3, <2>1, <2>2, <2>3 DEF a, b
<1>. QED BY <1>2, <1>3

LEMMA LoginSound ==
  ASSUME TypeOK, AnyInv, NEW c \in Client, ServerLogin(c)
  PROVE  AnyInv'
<1> DEFINE q == About("REMOTEUSERQUIT", c)
           a == About("REMOTEUSERLOGIN", c)
<1>1. /\ ServerFrame /\ holder' = FloorsFreed(c) /\ logged' = logged \cup {c}
      /\ Asked(c, "LOGINSERVER") /\ Served(c) /\ \A d \in Client : Sound(d)
  BY DEF ServerLogin, ServerFrame, talkVars, rosterVars, AnyInv
<1>2. link[c] \in {"up", "busy"} /\ \A d \in Client \ {c} : toServer'[d] = toServer[d]
  BY <1>1, ServedHas
<1>3. /\ \A f \in Floors : holder'[f] = IF holder[f] = c THEN NoOne ELSE holder[f]
      /\ NoOne \notin Client
  BY <1>1, IntercomAssumption DEF FloorsFreed
<1>4. Sound(c)'
  <2>1. PICK s \in Seq(ToClient) :
           /\ s = << Packet("LOGINSERVERED") >> \o Replay(c, Room) \o Replay(c, Group[c])
           /\ 1 \in 1 .. Len(s) /\ s[1].cmd = "LOGINSERVERED"
           /\ \A i \in 1 .. Len(s) :
                \/ s[i].cmd = "LOGINSERVERED"
                \/ /\ s[i].cmd = "SENDVOICE" /\ s[i].floor \in Floors
                   /\ s[i].user # c /\ holder[s[i].floor] = s[i].user
    BY ReplayNews
  <2>2. toClient'[c] = toClient[c] \o s
    BY <2>1 DEF ServerLogin, Tell
  <2>3. /\ link'[c] = link[c] /\ audioStatus'[c] = audioStatus[c] /\ speakerName'[c] = speakerName[c]
        /\ userInfoList'[c] = userInfoList[c] /\ c \in logged'
    BY <1>1 DEF ServerFrame
  <2>4. Has(toClient'[c], "LOGINSERVERED")
    <3>1. /\ Len(toClient[c]) \in Nat /\ Len(s) \in Nat /\ Len(toClient'[c]) = Len(toClient[c]) + Len(s)
          /\ toClient'[c][Len(toClient[c]) + 1] = s[1]
      BY <2>1, <2>2, Append1
    <3>2. 1 \in 1 .. Len(s) /\ s[1].cmd = "LOGINSERVERED"
      BY <2>1
    <3>3. /\ Len(toClient[c]) + 1 \in 1 .. Len(toClient'[c])
          /\ toClient'[c][Len(toClient[c]) + 1].cmd = "LOGINSERVERED"
      BY <3>1, <3>2
    <3>. QED BY <3>3 DEF Has
  <2>5. ListToCome(c)'
    BY <2>4 DEF ListToCome
  <2>6. \A u \in Client \ {c}, f \in Floors : holder[f] = u =>
          holder'[f] = u \/ \E i \in 1 .. Len(s) : FreesIt(s[i], u, f)
    BY <1>3
  <2>7. \A i \in 1 .. Len(s) : s[i].cmd = "SENDVOICE" /\ s[i].data = "AUDIO_SEND_DISABLE" =>
          s[i].user # c /\ holder'[s[i].floor] = s[i].user
    BY <1>3, <2>1
  <2>8. Sound(c) /\ \A f \in Floors : holder'[f] = c => c \in logged'
    BY <1>1
  <2>. QED BY <1>2, <2>2, <2>3, <2>5, <2>6, <2>7, <2>8, ToldSound
<1>5. ASSUME NEW d \in Client \ {c}
      PROVE  Sound(d)'
  <2>1. PICK s \in Seq(ToClient) :
           /\ s = IF c \in logged THEN << q, a >> ELSE << a >>
           /\ Len(s) \in 1 .. Len(s) /\ s[Len(s)] = a
           /\ c \in logged => \E i \in 1 .. Len(s) : s[i] = q
           /\ \A i \in 1 .. Len(s) : s[i] \in {q, a}
    BY ArrivalNews
  <2>2. toClient'[d] = IF d \in logged THEN toClient[d] \o s ELSE toClient[d]
    BY <2>1 DEF ServerLogin, Tell
  <2>3. /\ Sound(d) /\ Unmoved(d) /\ \A u : u # c => (u \in logged' <=> u \in logged)
        /\ \A f \in Floors : holder'[f] = d => holder[f] = d
    BY <1>1, <1>2, <1>3 DEF Unmoved, ServerFrame
  <2>4. /\ \A f : FreesIt(q, c, f)
        /\ BringsIt(a, c) /\ q.cmd = "REMOTEUSERQUIT" /\ q.user = c /\ a.cmd = "REMOTEUSERLOGIN"
    BY DEF FreesIt, BringsIt, About
  <2>5. d \in logged => \A u \in Client \ {d}, f \in Floors : holder[f] = u =>
          holder'[f] = u \/ \E i \in 1 .. Len(s) : FreesIt(s[i], u, f)
    <3>1. \A f \in Floors : holder[f] = c => c \in logged
      BY <1>1 DEF Sound, Linked
    <3>. QED BY <1>3, <2>1, <2>4, <3>1
  <2> HIDE DEF q, a
  <2>6. \A i \in 1 .. Len(s) : /\ s[i].cmd = "SENDVOICE" /\ s[i].data = "AUDIO_SEND_DISABLE" =>
                                    s[i].user = c /\ holder'[s[i].floor] = c
                               /\ s[i].cmd = "REMOTEUSERQUIT" => s[i].user = c
    BY <2>1, <2>4
  <2>7. \E i \in 1 .. Len(s) : BringsIt(s[i], c) /\ \A j \in i + 1 .. Len(s) : ~ TakesIt(s[j], c)
    <3>1. Len(s) \in Nat /\ \A j \in Len(s) + 1 .. Len(s) : FALSE
      OBVIOUS
    <3>. QED BY <2>1, <2>4, <3>1
  <2>. QED BY <2>2, <2>3, <2>5, <2>6, <2>7, OthersSound
<1>. QED BY <1>4, <1>5 DEF AnyInv

-----------------------------------------------------------------------------
(* Every step.                                                             *)

LEMMA InitSound == Init => AnyInv
<1>1. SUFFICES ASSUME Init, NEW c \in Client
               PROVE  Sound(c)
  BY DEF AnyInv
<1>2. /\ c \notin logged /\ link[c] = "none" /\ toServer[c] = << >> /\ toClient[c] = << >>
      /\ \A ch \in Channel : audioStatus[c][ch] = "AUDIO_SEND_ENABLE"
      /\ \A f \in Floors : holder[f] # c
  BY <1>1, IntercomAssumption DEF Init
<1>. QED BY <1>2 DEF Sound, Linked, Shown, Telling, Consistent, Informed, InSession

LEMMA StutterSound == TypeOK /\ AnyInv /\ UNCHANGED vars => AnyInv'
<1>1. SUFFICES ASSUME TypeOK, AnyInv, UNCHANGED vars, NEW d \in Client
               PROVE  Sound(d)'
  BY DEF AnyInv
<1>2. Sound(d) /\ Unmoved(d) /\ toClient' = toClient /\ holder' = holder /\ logged' = logged
  BY <1>1 DEF AnyInv, Unmoved, vars, talkVars, rosterVars, queueVars, serverVars
<1>. QED BY <1>2, UnmovedSound

LEMMA StepSound ==
  ASSUME TypeOK, AnyInv, [Next]_vars
  PROVE  AnyInv'
<1>1. ASSUME NEW c \in Client, AppStep(c) \/ Wake(c)
      PROVE  AnyInv'
  BY <1>1, AppSound
<1>2. ASSUME NEW c \in Client, NetStep(c)
      PROVE  AnyInv'
  BY <1>2, ConnectedSound, EndsSound, OpenSound, HandlerSound DEF Connected
<1>3. ASSUME NEW c \in Client, ServerStep(c)
      PROVE  AnyInv'
  BY <1>3, LoginSound, RefuseSound, UserListSound, QuitSound, GrantSound, ReleaseSound, IgnoreSound
  DEF ServerStep
<1>4. ASSUME NEW c \in Client, Outage(c)
      PROVE  AnyInv'
  BY <1>4, ConnectedSound, BusySound, EndsSound, KickSound DEF Outage, Reconnected, Restarted
<1>. QED BY <1>1, <1>2, <1>3, <1>4, StutterSound DEF Next

\* Whatever the network does, what a client shows and whom it lists is true, or
\* is about to be corrected by a packet that is on its way.
THEOREM AnyInvariant == Spec => []AnyInv
<1>1. Init => AnyInv
  BY InitSound
<1>2. TypeOK /\ AnyInv /\ [Next]_vars => AnyInv'
  BY StepSound
<1>. QED BY <1>1, <1>2, TypeInvariant, PTL DEF Spec

\* Whatever sessions are lost and renewed, a client that sees a channel as taken
\* is right about who holds it, once it has read what was sent to it.
THEOREM NobodyIsLockedOut == Spec => []NotLockedOut
<1>1. TypeOK /\ AnyInv => NotLockedOut
  <2>1. SUFFICES ASSUME TypeOK, AnyInv, NEW c \in Client, NEW ch \in Channel, Drained(c),
                        audioStatus[c][ch] = "AUDIO_SEND_DISABLE"
                 PROVE  /\ speakerName[c][ch] # c
                        /\ FloorOf(c, ch) \in Floors
                        /\ holder[FloorOf(c, ch)] = speakerName[c][ch]
    BY DEF NotLockedOut
  <2>2. /\ Sound(c) /\ c \in logged /\ toClient[c] = << >> /\ Len(toClient[c]) = 0
    BY <2>1 DEF AnyInv, Drained
  <2>3. InSession(c)
    BY <2>2 DEF InSession, Over, Has
  <2>4. speakerName[c][ch] # NoOne
    BY <2>1, <2>2 DEF Sound, Consistent
  <2>5. FloorOf(c, ch) \in Floors /\ HoldsAfter(c, 0, speakerName[c][ch], FloorOf(c, ch))
    BY <2>2, <2>3, <2>4 DEF Sound, Shown
  <2>6. \A j \in 0 + 1 .. Len(toClient[c]) : FALSE
    BY <2>2
  <2>. QED BY <2>5, <2>6 DEF HoldsAfter
<1>. QED BY <1>1, AnyInvariant, TypeInvariant, PTL

\* Whatever sessions are lost and renewed, nobody who has a session is missing in
\* the list of a client that waits for nothing.
THEOREM EverybodyIsKnown == Spec => []KnowsEverybody
<1>1. AnyInv => KnowsEverybody
  <2>1. SUFFICES ASSUME AnyInv, NEW c \in Client, Drained(c), toServer[c] = << >>,
                        NEW u \in logged \ {c}
                 PROVE  u \in userInfoList[c]
    BY DEF KnowsEverybody
  <2>2. /\ Sound(c) /\ c \in logged /\ link[c] = "up"
        /\ Len(toClient[c]) = 0 /\ Len(toServer[c]) = 0
    BY <2>1 DEF AnyInv, Drained
  <2>3. InSession(c) /\ ~ ListToCome(c)
    BY <2>2 DEF InSession, Over, ListToCome, Has
  <2>4. WillKnow(c, u)
    BY <2>1, <2>2, <2>3 DEF Sound, Informed
  <2>. QED BY <2>2, <2>4 DEF WillKnow
<1>. QED BY <1>1, AnyInvariant, PTL

\* A prompt network takes no other steps.
LEMMA PromptAny == PromptSpec => []AnyInv
<1>1. Init => AnyInv
  BY InitSound
<1>2. [PromptNext]_vars => [Next]_vars
  BY DEF PromptNext, PromptStep, Next
<1>3. TypeOK /\ AnyInv /\ [PromptNext]_vars => AnyInv'
  BY <1>2, StepSound
<1>. QED BY <1>1, <1>3, PromptTypes, PTL DEF PromptSpec

=============================================================================
