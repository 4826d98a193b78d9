------------------------ MODULE IntercomFloorProofs ------------------------
(***************************************************************************)
(* With a network that answers in time: the inductive invariants IInv,     *)
(* HeldInv, ListedInv and PlayedInv of IntercomInv.tla, what follows from  *)
(* them, and that Intercom implements Floor, proved for every instance.    *)
(***************************************************************************)
EXTENDS IntercomProofs

-----------------------------------------------------------------------------
(* What a step does to the queues.                                         *)

\* Nothing that the invariant says of d changes.
Same(d) ==
  /\ link'[d] = link[d] /\ audioStatus'[d] = audioStatus[d]
  /\ speakerName'[d] = speakerName[d] /\ speakChannel'[d] = speakChannel[d]
  /\ openLocalUser'[d] = openLocalUser[d] /\ app'[d] = app[d] /\ net'[d] = net[d]
  /\ toServer'[d] = toServer[d] /\ toClient'[d] = toClient[d]

LEMMA Frame ==
  ASSUME NEW d \in Client, Good(d), Same(d), holder' = holder, d \in logged' <=> d \in logged
  PROVE  Good(d)'
<1>1. \A i : /\ \A cmd : Entry(toServer[d], i, cmd)' <=> Entry(toServer[d], i, cmd)
             /\ \A cmd : Entry(toClient[d], i, cmd)' <=> Entry(toClient[d], i, cmd)
             /\ Request(d, i)' <=> Request(d, i)
             /\ News(d, i)' <=> News(d, i)
             /\ Grant(d, i)' <=> Grant(d, i)
             /\ \A u, f : Frees(d, i, u, f)' <=> Frees(d, i, u, f)
  BY DEF Same, Entry, Request, News, Grant, Frees
<1>2. /\ Talking(d)' <=> Talking(d)
      /\ \A ch : Sending(d, ch)' <=> Sending(d, ch)
      /\ \A ch : FloorOf(d, ch)' = FloorOf(d, ch)
  BY DEF Same, Talking, Sending, FloorOf
<1>3. HasFloor(d)' <=> HasFloor(d)
  BY <1>1, <1>2 DEF HasFloor, Same
<1>4. Session(d)'
  BY <1>1 DEF Good, Session, Same
<1>5. Requests(d)'
  BY <1>1, <1>2, <1>3 DEF Good, Requests, Same
<1>6. Owns(d)'
  BY <1>2, <1>3 DEF Good, Owns, Same
<1>7. Grants(d)'
  BY <1>1, <1>2 DEF Good, Grants, Same
<1>8. Local(d)'
  BY <1>2 DEF Good, Local, Same
<1>9. Undisturbed(d)'
  BY <1>1, <1>2 DEF Good, Undisturbed, Same
<1>10. Beliefs(d)'
  BY <1>1, <1>2 DEF Good, Beliefs, Believed, Same
<1>11. Announced(d)'
  BY <1>1 DEF Good, Announced, Same
<1>12. Consistent(d)'
  BY DEF Good, Consistent, Same
<1>. QED BY <1>4, <1>5, <1>6, <1>7, <1>8, <1>9, <1>10, <1>11, <1>12 DEF Good

-----------------------------------------------------------------------------
(* Steps that concern one client only.                                     *)

\* An idle application has nothing outstanding.
LEMMA IdleFacts ==
  ASSUME TypeOK, NEW c \in Client, Good(c), app[c] # "wait"
  PROVE  /\ \A i \in 1 .. Len(toServer[c]) : ~ Request(c, i)
         /\ \A i \in 1 .. Len(toClient[c]) : ~ Grant(c, i)
         /\ net[c] = "idle"
BY DEF Good, Requests, Grants, Local, TypeOK, Net

\* A step of the application's thread that writes to no queue keeps all that
\* is said of the queue to c, if it leaves the statuses alone.
LEMMA QuietFacts ==
  ASSUME NEW c \in Client, toClient'[c] = toClient[c], toServer'[c] = toServer[c]
  PROVE  \A i : /\ \A cmd : Entry(toServer[c], i, cmd)' <=> Entry(toServer[c], i, cmd)
                /\ \A cmd : Entry(toClient[c], i, cmd)' <=> Entry(toClient[c], i, cmd)
                /\ Request(c, i)' <=> Request(c, i)
                /\ News(c, i)' <=> News(c, i)
                /\ Grant(c, i)' <=> Grant(c, i)
                /\ \A u, f : Frees(c, i, u, f)' <=> Frees(c, i, u, f)
BY DEF Entry, Request, News, Grant, Frees

LEMMA AnnouncedStays ==
  ASSUME NEW c \in Client, Announced(c), toClient' = toClient, logged' = logged, holder' = holder
  PROVE  Announced(c)'
<1>1. /\ \A i : News(c, i)' <=> News(c, i)
      /\ \A i : Grant(c, i)' <=> Grant(c, i)
      /\ \A i, u, f : Frees(c, i, u, f)' <=> Frees(c, i, u, f)
  BY DEF News, Grant, Frees, Entry
<1>2. SUFFICES ASSUME NEW k \in 1 .. Len(toClient[c]), News(c, k)',
                      toClient[c][k].data = "AUDIO_SEND_DISABLE",
                      NEW u, u = toClient[c][k].user, NEW f, f = toClient[c][k].floor
               PROVE  /\ u # c
                      /\ c \in logged => holder[f] = u
                           \/ \E j \in k + 1 .. Len(toClient[c]) : Frees(c, j, u, f)'
                      /\ \A i \in k + 1 .. Len(toClient[c]) : Grant(c, i)' /\ toClient[c][i].floor = f
                           => \E j \in k + 1 .. i - 1 : Frees(c, j, u, f)'
  BY DEF Announced
<1>3. /\ u # c
      /\ c \in logged => holder[f] = u
           \/ \E j \in k + 1 .. Len(toClient[c]) : Frees(c, j, u, f)
      /\ \A i \in k + 1 .. Len(toClient[c]) : Grant(c, i) /\ toClient[c][i].floor = f
           => \E j \in k + 1 .. i - 1 : Frees(c, j, u, f)
  BY <1>1, <1>2 DEF Announced
<1>. QED BY <1>1, <1>3

LEMMA LoginGood ==
  ASSUME TypeOK, NEW c \in Client, Good(c), Login(c)
  PROVE  Good(c)'
<1>1. /\ link[c] = "none" /\ toServer[c] = << >> /\ toClient[c] = << >> /\ c \notin logged
  BY DEF Login, Good, Session
<1>2. /\ toServer' = toServer /\ toClient' = toClient /\ app' = app /\ net' = net
      /\ logged' = logged /\ holder' = holder
      /\ link'[c] = "connecting" /\ openLocalUser'[c] = FALSE
      /\ speakerName'[c] = [ch \in Channel |-> NoOne]
      /\ audioStatus'[c] = [ch \in Channel |-> "AUDIO_SEND_ENABLE"]
      /\ app[c] = "idle" /\ net[c] = "idle"
  BY IdleFacts DEF Login, TypeOK, threadVars, queueVars, serverVars
<1>3. /\ Len(toServer'[c]) = 0 /\ Len(toClient'[c]) = 0
  BY <1>1, <1>2
<1>4. /\ ~ HasFloor(c)' /\ \A ch \in Channel : ~ Sending(c, ch)'
  BY <1>2, <1>3 DEF HasFloor, Talking, Sending, Stopping
<1>5. Session(c)'
  BY <1>1, <1>2, <1>3 DEF Good, Session
<1>6. Requests(c)' /\ Grants(c)' /\ Announced(c)' /\ Beliefs(c)'
  BY <1>1, <1>2, <1>3 DEF Requests, Grants, Announced, Beliefs
<1>7. Owns(c)' /\ Undisturbed(c)'
  BY <1>4 DEF Owns, Undisturbed
<1>8. Local(c)'
  BY <1>2, <1>4 DEF Local, Talking, Stopping
<1>9. Consistent(c)'
  BY <1>2 DEF Consistent
<1>. QED BY <1>5, <1>6, <1>7, <1>8, <1>9 DEF Good

\* The queue to the server after Sent or SentVoice.
LEMMA SendFacts ==
  ASSUME TypeOK, NEW c \in Client, NEW m \in ToServer, toServer' = Sent(c, m)
  PROVE  /\ \A d \in Client \ {c} : toServer'[d] = toServer[d]
         /\ Len(toServer[c]) \in Nat
         /\ \A i \in 1 .. Len(toServer[c]) : toServer'[c][i] = toServer[c][i]
         /\ \/ toServer'[c] = toServer[c]
            \/ /\ link[c] = "up"
               /\ Len(toServer'[c]) = Len(toServer[c]) + 1
               /\ toServer'[c][Len(toServer[c]) + 1] = m
BY DEF TypeOK, Sent

LEMMA SendVoiceFacts ==
  ASSUME TypeOK, NEW c \in Client, NEW ch \in Channel, NEW data \in VoiceData,
         toServer' = SentVoice(c, ch, data)
  PROVE  /\ \A d \in Client \ {c} : toServer'[d] = toServer[d]
         /\ Len(toServer[c]) \in Nat
         /\ \A i \in 1 .. Len(toServer[c]) : toServer'[c][i] = toServer[c][i]
         /\ \/ toServer'[c] = toServer[c]
            \/ /\ link[c] = "up"
               /\ Len(toServer'[c]) = Len(toServer[c]) + 1
               /\ toServer'[c][Len(toServer[c]) + 1] = Voice(c, FloorOf(c, ch), data)
<1>1. CASE ch = "group" /\ Group[c] = NoGroup
  BY <1>1 DEF SentVoice, TypeOK
<1>2. CASE ~ (ch = "group" /\ Group[c] = NoGroup)
  <2>1. FloorOf(c, ch) \in Floors
    BY <1>2, ChannelFloor DEF Channel
  <2>2. Voice(c, FloorOf(c, ch), data) \in ToServer
    BY <2>1 DEF Voice, ToServer, VoicePacket
  <2>. QED BY <1>2, <2>2, SendFacts DEF SentVoice
<1>. QED BY <1>1, <1>2

LEMMA StartGood ==
  ASSUME TypeOK, NEW c \in Client, NEW ch \in Channel, Good(c), StartSendAudio(c, ch)
  PROVE  Good(c)'
<1>1. /\ app[c] = "idle" /\ app'[c] = "wait" /\ net' = net /\ net[c] = "idle"
      /\ link' = link /\ link[c] # "none" /\ audioStatus' = audioStatus
      /\ speakerName' = speakerName /\ openLocalUser' = openLocalUser
      /\ toClient' = toClient /\ logged' = logged /\ holder' = holder
  BY IdleFacts DEF StartSendAudio, TypeOK, serverVars
<1>2. /\ \A i \in 1 .. Len(toServer[c]) : ~ Request(c, i)
      /\ \A i \in 1 .. Len(toClient[c]) : ~ Grant(c, i)
  BY <1>1, IdleFacts
<1>3. \A i : /\ \A cmd : Entry(toClient[c], i, cmd)' <=> Entry(toClient[c], i, cmd)
             /\ News(c, i)' <=> News(c, i)
             /\ Grant(c, i)' <=> Grant(c, i)
             /\ \A u, f : Frees(c, i, u, f)' <=> Frees(c, i, u, f)
  BY <1>1 DEF Entry, News, Grant, Frees
<1>4. /\ Talking(c)' <=> Talking(c)
      /\ \A o : Sending(c, o)' <=> Sending(c, o)
      /\ \A o : FloorOf(c, o)' = FloorOf(c, o)
  BY <1>1 DEF Talking, Sending, FloorOf, Stopping
<1>5. HasFloor(c)' <=> HasFloor(c)
  BY <1>1, <1>2, <1>3, <1>4 DEF HasFloor, Stopping
<1>6. Announced(c)' /\ Consistent(c)' /\ Beliefs(c)' /\ Undisturbed(c)'
  <2>1. Announced(c)'
    BY <1>1, AnnouncedStays DEF Good
  <2>2. Beliefs(c)'
    BY <1>1, <1>3, <1>4 DEF Good, Beliefs, Believed
  <2>. QED BY <1>1, <1>3, <1>4, <2>1, <2>2 DEF Good, Consistent, Undisturbed, Stopping
<1>7. Grants(c)'
  BY <1>1, <1>2, <1>3 DEF Grants
<1>8. CASE MayStart(c, ch)
  <2>1. /\ toServer' = SentVoice(c, ch, "AUDIO_SEND_DISABLE") /\ speakChannel'[c] = ch
    BY <1>8 DEF StartSendAudio, TypeOK
  <2>2. ~ HasFloor(c) /\ \A o \in Channel : ~ Sending(c, o)
    BY <1>1, <1>2, <1>8 DEF MayStart, HasFloor, Sending, Good, Local, TypeOK
  <2>3. /\ Len(toServer[c]) \in Nat
        /\ \A i \in 1 .. Len(toServer[c]) : toServer'[c][i] = toServer[c][i]
        /\ \/ toServer'[c] = toServer[c]
           \/ /\ link[c] = "up"
              /\ Len(toServer'[c]) = Len(toServer[c]) + 1
              /\ toServer'[c][Len(toServer[c]) + 1] = Voice(c, FloorOf(c, ch), "AUDIO_SEND_DISABLE")
    BY <2>1, SendVoiceFacts DEF VoiceData
  <2>4. Session(c)'
    BY <1>1, <1>3, <2>3 DEF Good, Session, Entry, Voice
  <2>5. Requests(c)'
    <3>1. SUFFICES ASSUME NEW i \in 1 .. Len(toServer'[c]), Request(c, i)'
                   PROVE  /\ toServer'[c][i].floor = FloorOf(c, speakChannel'[c])
                          /\ i = Len(toServer'[c])
      BY <1>1, <1>5, <2>2, <2>3 DEF Requests, FloorOf
    <3>2. CASE i \in 1 .. Len(toServer[c])
      BY <3>1, <3>2, <1>2, <2>3 DEF Request, Entry
    <3>3. CASE i \notin 1 .. Len(toServer[c])
      BY <3>1, <3>3, <2>1, <2>3 DEF Voice
    <3>. QED BY <3>2, <3>3
  <2>6. Owns(c)' /\ Local(c)'
    BY <1>1, <1>4, <1>5, <2>2 DEF Owns, Local, HasFloor, Stopping
  <2>. QED BY <1>6, <1>7, <2>4, <2>5, <2>6 DEF Good
<1>9. CASE ~ MayStart(c, ch)
  <2>1. toServer' = toServer /\ speakChannel' = speakChannel
    BY <1>9 DEF StartSendAudio
  <2>2. Session(c)' /\ Requests(c)' /\ Owns(c)'
    BY <1>1, <1>2, <1>3, <1>4, <1>5, <2>1, QuietFacts DEF Good, Session, Requests, Owns
  <2>3. Local(c)'
    BY <1>1, <1>4, <2>1 DEF Good, Local, Stopping
  <2>. QED BY <1>6, <1>7, <2>2, <2>3 DEF Good
<1>. QED BY <1>8, <1>9

LEMMA StopGood ==
  ASSUME TypeOK, NEW c \in Client, NEW q \in BOOLEAN, Good(c), StopSendAudio(c, q)
  PROVE  Good(c)'
<1>1. /\ app[c] = "idle" /\ app'[c] = "check" /\ net' = net /\ net[c] = "idle"
      /\ link' = link /\ audioStatus' = audioStatus /\ speakChannel' = speakChannel
      /\ speakerName' = speakerName /\ openLocalUser' = openLocalUser
      /\ toClient' = toClient /\ logged' = logged /\ holder' = holder
  BY IdleFacts DEF StopSendAudio, TypeOK, talkVars, serverVars
<1>2. /\ \A i \in 1 .. Len(toServer[c]) : ~ Request(c, i)
      /\ \A i \in 1 .. Len(toClient[c]) : ~ Grant(c, i)
  BY <1>1, IdleFacts
<1>3. \A i : /\ \A cmd : Entry(toClient[c], i, cmd)' <=> Entry(toClient[c], i, cmd)
             /\ News(c, i)' <=> News(c, i)
             /\ Grant(c, i)' <=> Grant(c, i)
             /\ \A u, f : Frees(c, i, u, f)' <=> Frees(c, i, u, f)
  BY <1>1 DEF Entry, News, Grant, Frees
<1>4. /\ \A o : Sending(c, o)' <=> Sending(c, o)
      /\ \A o : FloorOf(c, o)' = FloorOf(c, o)
  BY <1>1 DEF Sending, FloorOf
<1>5. ~ HasFloor(c)'
  BY <1>1, <1>2, <1>3 DEF HasFloor, Talking, Stopping
<1>6. /\ Len(toServer[c]) \in Nat
      /\ \A i \in 1 .. Len(toServer[c]) : toServer'[c][i] = toServer[c][i]
      /\ \/ toServer'[c] = toServer[c]
         \/ /\ link[c] = "up"
            /\ Len(toServer'[c]) = Len(toServer[c]) + 1
            /\ toServer'[c][Len(toServer[c]) + 1]
                 = Voice(c, FloorOf(c, speakChannel[c]), "AUDIO_SEND_ENABLE")
  BY SendVoiceFacts DEF StopSendAudio, VoiceData, TypeOK
<1>7. Announced(c)' /\ Consistent(c)' /\ Beliefs(c)' /\ Undisturbed(c)'
  <2>1. Announced(c)'
    BY <1>1, AnnouncedStays DEF Good
  <2>2. Beliefs(c)'
    BY <1>1, <1>3, <1>4 DEF Good, Beliefs, Believed
  <2>. QED BY <1>1, <1>3, <1>4, <2>1, <2>2 DEF Good, Consistent, Undisturbed, Stopping
<1>8. Session(c)'
  <2>1. \A i \in 1 .. Len(toServer'[c]) : Entry(toServer[c], i, "LOGINSERVER")' =>
          i \in 1 .. Len(toServer[c]) /\ Entry(toServer[c], i, "LOGINSERVER")
    BY <1>6 DEF Entry, Voice
  <2>2. link[c] # "up" => toServer'[c] = toServer[c]
    BY <1>6
  <2>. QED BY <1>1, <1>3, <2>1, <2>2 DEF Good, Session
<1>9. Requests(c)'
  <2>1. SUFFICES ASSUME NEW i \in 1 .. Len(toServer'[c]), Request(c, i)'
                 PROVE  FALSE
    BY DEF Requests
  <2>2. CASE i \in 1 .. Len(toServer[c])
    BY <2>1, <2>2, <1>2, <1>6 DEF Request, Entry
  <2>3. CASE i \notin 1 .. Len(toServer[c])
    BY <2>1, <2>3, <1>6 DEF Request, Entry, Voice
  <2>. QED BY <2>2, <2>3
<1>10. Grants(c)'
  BY <1>1, <1>2, <1>3 DEF Grants
<1>11. Owns(c)' /\ Local(c)'
  BY <1>1, <1>4, <1>5 DEF Good, Owns, Local, Talking, Stopping
<1>. QED BY <1>7, <1>8, <1>9, <1>10, <1>11 DEF Good

\* The steps of stopSendAudio that follow: nothing is sent, and c has no floor.
LEMMA StopStepGood ==
  ASSUME TypeOK, NEW c \in Client, Good(c),
         \/ StopCheck(c) \/ StopClose(c)
         \/ \E ch \in Channel : StopWrite(c, ch)
  PROVE  Good(c)'
<1>1. /\ app[c] \in Stopping /\ net' = net /\ net[c] = "idle"
      /\ link' = link /\ speakChannel' = speakChannel /\ speakerName' = speakerName
      /\ toServer' = toServer /\ toClient' = toClient /\ logged' = logged /\ holder' = holder
  BY IdleFacts DEF StopCheck, StopWrite, StopClose, Stopping, talkVars, queueVars, serverVars
<1>2. /\ \A i \in 1 .. Len(toServer[c]) : ~ Request(c, i)
      /\ \A i \in 1 .. Len(toClient[c]) : ~ Grant(c, i)
  BY <1>1, IdleFacts DEF Stopping
<1>3. \A i : /\ \A cmd : Entry(toServer[c], i, cmd)' <=> Entry(toServer[c], i, cmd)
             /\ \A cmd : Entry(toClient[c], i, cmd)' <=> Entry(toClient[c], i, cmd)
             /\ Request(c, i)' <=> Request(c, i)
             /\ News(c, i)' <=> News(c, i)
             /\ Grant(c, i)' <=> Grant(c, i)
             /\ \A u, f : Frees(c, i, u, f)' <=> Frees(c, i, u, f)
  BY <1>1, QuietFacts
<1>4. \A o : FloorOf(c, o)' = FloorOf(c, o)
  BY DEF FloorOf
<1>5. Session(c)' /\ Requests(c)' /\ Grants(c)' /\ Announced(c)' /\ Beliefs(c)'
  BY <1>1, <1>2, <1>3, <1>4 DEF Good, Session, Requests, Grants, Announced, Beliefs, Believed
<1>6. /\ ~ HasFloor(c)' /\ Local(c)'
      /\ \A ch \in Channel : Sending(c, ch)' => Sending(c, ch) /\ app'[c] \in Stopping
      /\ Consistent(c)'
  <2>1. CASE StopCheck(c)
    <3>1. /\ audioStatus' = audioStatus /\ openLocalUser' = openLocalUser
          /\ app[c] = "check"
          /\ app'[c] = IF Sending(c, "room") THEN "stop_room"
                       ELSE IF Sending(c, "group") THEN "stop_group" ELSE "close"
      BY <2>1 DEF StopCheck, TypeOK, talkVars, Sending
    <3>2. \A o : Sending(c, o)' <=> Sending(c, o)
      BY <3>1 DEF Sending
    <3>. QED BY <1>1, <1>2, <1>3, <3>1, <3>2
             DEF Good, Local, HasFloor, Talking, Stopping, Channel, Consistent
  <2>2. ASSUME NEW ch \in Channel, StopWrite(c, ch)
        PROVE  /\ ~ HasFloor(c)' /\ Local(c)'
               /\ \A o \in Channel : Sending(c, o)' => Sending(c, o) /\ app'[c] \in Stopping
               /\ Consistent(c)'
    <3>1. /\ openLocalUser' = openLocalUser /\ app'[c] = "close"
          /\ app[c] = IF ch = "room" THEN "stop_room" ELSE "stop_group"
          /\ audioStatus'[c] = [audioStatus[c] EXCEPT ![ch] = "AUDIO_SEND_ENABLE"]
      BY <2>2 DEF StopWrite, TypeOK
    <3>2. \A o \in Channel : ~ Sending(c, o)'
      BY <3>1, <2>2 DEF Good, Local, Sending, Channel, TypeOK
    <3>3. Consistent(c)'
      BY <1>1, <3>1, <2>2 DEF Good, Consistent, TypeOK
    <3>. QED BY <1>1, <1>2, <1>3, <3>1, <3>2, <3>3
             DEF Local, HasFloor, Talking, Stopping
  <2>3. CASE StopClose(c)
    <3>1. /\ audioStatus' = audioStatus /\ openLocalUser'[c] = FALSE
          /\ app[c] = "close" /\ app'[c] \in {"wait", "quit"}
      BY <2>3 DEF StopClose, TypeOK
    <3>2. \A o \in Channel : ~ Sending(c, o)'
      BY <3>1 DEF Good, Local, Sending
    <3>. QED BY <1>1, <1>2, <1>3, <3>1, <3>2
             DEF Good, Local, HasFloor, Talking, Stopping, Consistent
  <2>. QED BY <2>1, <2>2, <2>3
<1>7. Owns(c)' /\ Undisturbed(c)'
  BY <1>6 DEF Owns, Undisturbed
<1>. QED BY <1>5, <1>6, <1>7 DEF Good

LEMMA QuitGood ==
  ASSUME TypeOK, NEW c \in Client, Good(c), Quit(c)
  PROVE  Good(c)'
<1>1. /\ app[c] = "quit" /\ app'[c] = "idle" /\ net' = net /\ net[c] = "idle"
      /\ link' = link /\ audioStatus' = audioStatus /\ speakChannel' = speakChannel
      /\ speakerName' = speakerName /\ openLocalUser'[c] = FALSE
      /\ toClient' = toClient /\ logged' = logged /\ holder' = holder
  BY DEF Quit, TypeOK, serverVars
<1>2. /\ \A i \in 1 .. Len(toServer[c]) : ~ Request(c, i)
      /\ \A i \in 1 .. Len(toClient[c]) : ~ Grant(c, i)
      /\ \A o \in Channel : ~ Sending(c, o)
  BY <1>1, IdleFacts DEF Good, Local
<1>3. \A i : /\ \A cmd : Entry(toClient[c], i, cmd)' <=> Entry(toClient[c], i, cmd)
             /\ News(c, i)' <=> News(c, i)
             /\ Grant(c, i)' <=> Grant(c, i)
             /\ \A u, f : Frees(c, i, u, f)' <=> Frees(c, i, u, f)
  BY <1>1 DEF Entry, News, Grant, Frees
<1>4. /\ \A o : Sending(c, o)' <=> Sending(c, o)
      /\ \A o : FloorOf(c, o)' = FloorOf(c, o)
  BY <1>1 DEF Sending, FloorOf
<1>5. ~ HasFloor(c)'
  BY <1>1, <1>2, <1>3, <1>4 DEF HasFloor, Talking
<1>6. /\ Len(toServer[c]) \in Nat
      /\ \A i \in 1 .. Len(toServer[c]) : toServer'[c][i] = toServer[c][i]
      /\ \/ toServer'[c] = toServer[c]
         \/ /\ link[c] = "up"
            /\ Len(toServer'[c]) = Len(toServer[c]) + 1
            /\ toServer'[c][Len(toServer[c]) + 1] = Packet("QUITSERVER")
  BY SendFacts DEF Quit, Packet, ToServer
<1>7. Announced(c)' /\ Consistent(c)' /\ Beliefs(c)' /\ Undisturbed(c)'
  BY <1>1, <1>2, <1>3, <1>4 DEF Good, Announced, Consistent, Beliefs, Believed, Undisturbed
<1>8. Session(c)'
  BY <1>1, <1>3, <1>6 DEF Good, Session, Entry, Packet
<1>9. Requests(c)'
  <2>1. SUFFICES ASSUME NEW i \in 1 .. Len(toServer'[c]), Request(c, i)'
                 PROVE  FALSE
    BY DEF Requests
  <2>2. CASE i \in 1 .. Len(toServer[c])
    BY <2>1, <2>2, <1>2, <1>6 DEF Request, Entry
  <2>3. CASE i \notin 1 .. Len(toServer[c])
    BY <2>1, <2>3, <1>6 DEF Request, Entry, Packet
  <2>. QED BY <2>2, <2>3
<1>10. Grants(c)'
  BY <1>1, <1>2, <1>3 DEF Grants
<1>11. Owns(c)' /\ Local(c)'
  BY <1>1, <1>2, <1>4, <1>5 DEF Owns, Local, Talking, Stopping
<1>. QED BY <1>7, <1>8, <1>9, <1>10, <1>11 DEF Good

\* startIntercomAudio and stopIntercomAudio return: the answer has come.
LEMMA WakeGood ==
  ASSUME TypeOK, NEW c \in Client, Good(c), Answered(c), Wake(c)
  PROVE  Good(c)'
<1>1. /\ app[c] = "wait" /\ app'[c] = "idle" /\ net' = net /\ net[c] = "idle"
      /\ link' = link /\ audioStatus' = audioStatus /\ speakChannel' = speakChannel
      /\ speakerName' = speakerName /\ openLocalUser' = openLocalUser
      /\ toServer' = toServer /\ toClient' = toClient /\ logged' = logged /\ holder' = holder
  BY DEF Wake, Answered, TypeOK, talkVars, queueVars, serverVars
<1>2. /\ \A i \in 1 .. Len(toServer[c]) : ~ Request(c, i)
      /\ \A i \in 1 .. Len(toClient[c]) : ~ Grant(c, i)
  <2>1. toServer[c] \in Seq(ToServer) /\ toClient[c] \in Seq(ToClient)
    BY DEF TypeOK
  <2>. QED BY <2>1 DEF Answered, Voices, Request, Grant, News, Entry
<1>3. \A i : /\ \A cmd : Entry(toServer[c], i, cmd)' <=> Entry(toServer[c], i, cmd)
             /\ \A cmd : Entry(toClient[c], i, cmd)' <=> Entry(toClient[c], i, cmd)
             /\ Request(c, i)' <=> Request(c, i)
             /\ News(c, i)' <=> News(c, i)
             /\ Grant(c, i)' <=> Grant(c, i)
             /\ \A u, f : Frees(c, i, u, f)' <=> Frees(c, i, u, f)
  BY <1>1, QuietFacts
<1>4. /\ Talking(c)' <=> Talking(c)
      /\ \A o : Sending(c, o)' <=> Sending(c, o)
      /\ \A o : FloorOf(c, o)' = FloorOf(c, o)
  BY <1>1 DEF Talking, Sending, FloorOf, Stopping
<1>5. HasFloor(c)' <=> HasFloor(c)
  BY <1>1, <1>3, <1>4 DEF HasFloor, Stopping
<1>6. Session(c)' /\ Requests(c)' /\ Owns(c)' /\ Grants(c)'
  BY <1>1, <1>2, <1>3, <1>4, <1>5 DEF Good, Session, Requests, Owns, Grants
<1>7. Local(c)' /\ Undisturbed(c)' /\ Consistent(c)'
  BY <1>1, <1>3, <1>4 DEF Good, Local, Undisturbed, Consistent, Stopping
<1>8. Beliefs(c)'
  BY <1>1, <1>3, <1>4 DEF Good, Beliefs, Believed
<1>9. Announced(c)'
  BY <1>1, AnnouncedStays DEF Good
<1>. QED BY <1>6, <1>7, <1>8, <1>9 DEF Good

-----------------------------------------------------------------------------
(* The network thread handles a packet.                                    *)

\* What c is about to be told of a speaker stays justified when it reads a packet.
LEMMA AnnouncedKept ==
  ASSUME TypeOK, NEW c \in Client, Good(c), toClient[c] # << >>, Handled(c),
         holder' = holder, logged' = logged
  PROVE  Announced(c)'
<1>0. \A i \in 1 .. Len(toClient'[c]) :
        /\ i + 1 \in 1 .. Len(toClient[c]) /\ toClient'[c][i] = toClient[c][i + 1]
        /\ News(c, i)' <=> News(c, i + 1)
        /\ Grant(c, i)' <=> Grant(c, i + 1)
        /\ \A u, f : Frees(c, i, u, f)' <=> Frees(c, i + 1, u, f)
  BY Read
<1>1. SUFFICES ASSUME NEW k \in 1 .. Len(toClient'[c]), News(c, k)',
                      toClient'[c][k].data = "AUDIO_SEND_DISABLE",
                      NEW u, u = toClient'[c][k].user, NEW f, f = toClient'[c][k].floor
               PROVE  /\ u # c
                      /\ c \in logged => holder[f] = u
                           \/ \E j \in k + 1 .. Len(toClient'[c]) : Frees(c, j, u, f)'
                      /\ \A i \in k + 1 .. Len(toClient'[c]) :
                           Grant(c, i)' /\ toClient'[c][i].floor = f
                             => \E j \in k + 1 .. i - 1 : Frees(c, j, u, f)'
  BY DEF Announced
<1>2. /\ k + 1 \in 1 .. Len(toClient[c]) /\ News(c, k + 1)
      /\ toClient[c][k + 1].data = "AUDIO_SEND_DISABLE"
      /\ u = toClient[c][k + 1].user /\ f = toClient[c][k + 1].floor
  BY <1>0, <1>1
<1>3. /\ u # c
      /\ c \in logged => holder[f] = u
           \/ \E j \in k + 2 .. Len(toClient[c]) : Frees(c, j, u, f)
      /\ \A i \in k + 2 .. Len(toClient[c]) :
           Grant(c, i) /\ toClient[c][i].floor = f => \E j \in k + 2 .. i - 1 : Frees(c, j, u, f)
  BY <1>2 DEF Good, Announced
<1>4. Len(toClient[c]) \in Nat /\ Len(toClient'[c]) = Len(toClient[c]) - 1
  BY Read
<1>5. \A j \in k + 2 .. Len(toClient[c]) : Frees(c, j, u, f) =>
        j - 1 \in k + 1 .. Len(toClient'[c]) /\ Frees(c, j - 1, u, f)'
  BY <1>0, <1>4
<1>6. ASSUME NEW i \in k + 1 .. Len(toClient'[c]), Grant(c, i)', toClient'[c][i].floor = f
      PROVE  \E j \in k + 1 .. i - 1 : Frees(c, j, u, f)'
  <2>1. i + 1 \in k + 2 .. Len(toClient[c]) /\ Grant(c, i + 1) /\ toClient[c][i + 1].floor = f
    BY <1>0, <1>4, <1>6
  <2>2. PICK j \in k + 2 .. i : Frees(c, j, u, f)
    BY <1>3, <2>1
  <2>3. j - 1 \in k + 1 .. i - 1 /\ Frees(c, j - 1, u, f)'
    BY <2>2, <1>5, <1>4
  <2>. QED BY <2>3
<1>. QED BY <1>3, <1>5, <1>6

\* What every handler but that of a grant keeps: it reads one packet, sends at
\* most GETUSERLIST, and takes SENDING away only while stopSendAudio runs.
LEMMA HandlerGood ==
  ASSUME TypeOK, NEW c \in Client, Good(c),
         link[c] = "up" /\ net[c] = "idle" /\ toClient[c] # << >> /\ Handled(c),
         ~ Grant(c, 1),
         link' = link /\ speakChannel' = speakChannel /\ app' = app /\ net' = net,
         openLocalUser' = openLocalUser /\ logged' = logged /\ holder' = holder,
         toServer' = toServer \/ toServer' = Sent(c, Packet("GETUSERLIST")),
         \A ch \in Channel : Sending(c, ch)' => Sending(c, ch),
         \A ch \in Channel : Sending(c, ch) /\ app[c] \notin Stopping => Sending(c, ch)'
  PROVE  /\ Session(c)' /\ Requests(c)' /\ Owns(c)'
         /\ Grants(c)' /\ Local(c)' /\ Announced(c)'
<1>1. /\ Len(toServer[c]) \in Nat
      /\ \A i \in 1 .. Len(toServer[c]) : toServer'[c][i] = toServer[c][i]
      /\ \/ Len(toServer'[c]) = Len(toServer[c])
         \/ /\ Len(toServer'[c]) = Len(toServer[c]) + 1
            /\ toServer'[c][Len(toServer[c]) + 1] = Packet("GETUSERLIST")
  <2>1. Packet("GETUSERLIST") \in ToServer
    BY DEF Packet, ToServer
  <2>2. CASE toServer' = toServer
    BY <2>2 DEF TypeOK
  <2>3. CASE toServer' = Sent(c, Packet("GETUSERLIST"))
    BY <2>1, <2>3, SendFacts
  <2>. QED BY <2>2, <2>3
<1>2. /\ \A i \in 1 .. Len(toServer'[c]) : Request(c, i)' =>
           i \in 1 .. Len(toServer[c]) /\ Request(c, i)
      /\ \A i \in 1 .. Len(toServer'[c]) : Entry(toServer[c], i, "LOGINSERVER")' =>
           i \in 1 .. Len(toServer[c]) /\ Entry(toServer[c], i, "LOGINSERVER")
      /\ \A i \in 1 .. Len(toServer'[c]) : i \in 1 .. Len(toServer[c]) \/ toServer'[c][i].cmd = "GETUSERLIST"
  BY <1>1 DEF Request, Entry, Packet
<1>3. \A i \in 1 .. Len(toClient'[c]) :
        /\ i + 1 \in 1 .. Len(toClient[c]) /\ toClient'[c][i] = toClient[c][i + 1]
        /\ \A cmd : Entry(toClient[c], i, cmd)' <=> Entry(toClient[c], i + 1, cmd)
        /\ News(c, i)' <=> News(c, i + 1)
        /\ Grant(c, i)' <=> Grant(c, i + 1)
        /\ \A u, f : Frees(c, i, u, f)' <=> Frees(c, i + 1, u, f)
  BY Read
<1>4. \A j \in 1 .. Len(toClient[c]) : j # 1 => j - 1 \in 1 .. Len(toClient'[c])
  BY Read
<1>5. \A ch : FloorOf(c, ch)' = FloorOf(c, ch)
  BY DEF FloorOf
<1>6. Talking(c)' <=> Talking(c)
  BY DEF Talking
<1>7. HasFloor(c)' => HasFloor(c)
  BY <1>3, <1>6 DEF HasFloor
<1>8. Session(c)'
  BY <1>2, <1>3, <1>4 DEF Good, Session, Entry
<1>9. Requests(c)'
  <2>1. SUFFICES ASSUME NEW i \in 1 .. Len(toServer'[c]), Request(c, i)'
                 PROVE  /\ toServer'[c][i].floor = FloorOf(c, speakChannel[c])
                        /\ \A j \in i + 1 .. Len(toServer'[c]) : toServer'[c][j].cmd = "GETUSERLIST"
                        /\ app[c] = "wait" /\ ~ HasFloor(c)'
    BY <1>5 DEF Requests
  <2>2. i \in 1 .. Len(toServer[c]) /\ Request(c, i)
    BY <1>2, <2>1
  <2>3. /\ toServer[c][i].floor = FloorOf(c, speakChannel[c])
        /\ \A j \in i + 1 .. Len(toServer[c]) : toServer[c][j].cmd = "GETUSERLIST"
        /\ app[c] = "wait" /\ ~ HasFloor(c)
    BY <2>2 DEF Good, Requests
  <2>4. ASSUME NEW j \in i + 1 .. Len(toServer'[c])
        PROVE  toServer'[c][j].cmd = "GETUSERLIST"
    <3>1. j \in 1 .. Len(toServer'[c]) /\ (j \in 1 .. Len(toServer[c]) => j \in i + 1 .. Len(toServer[c]))
      BY <1>1, <2>2
    <3>2. CASE j \in 1 .. Len(toServer[c])
      BY <1>1, <2>3, <3>1, <3>2
    <3>3. CASE j \notin 1 .. Len(toServer[c])
      BY <1>2, <3>1, <3>3
    <3>. QED BY <3>2, <3>3
  <2>. QED BY <1>1, <1>7, <2>2, <2>3, <2>4
<1>10. Owns(c)'
  BY <1>1, <1>2, <1>5, <1>7 DEF Good, Owns
<1>11. Grants(c)'
  <2>1. SUFFICES ASSUME NEW i \in 1 .. Len(toClient'[c]), Grant(c, i)'
                 PROVE  /\ toClient'[c][i] = Voice(c, FloorOf(c, speakChannel[c]), "AUDIO_SEND_ENABLE")
                        /\ app[c] = "wait" /\ ~ openLocalUser[c]
                        /\ \A ch \in Channel : ~ Sending(c, ch)
                        /\ \A j \in i + 1 .. Len(toClient'[c]) :
                             News(c, j)' => toClient'[c][j].floor # FloorOf(c, speakChannel[c])
    BY <1>5 DEF Grants
  <2>2. i + 1 \in 1 .. Len(toClient[c]) /\ Grant(c, i + 1)
    BY <2>1, <1>3
  <2>3. \A j \in i + 1 .. Len(toClient'[c]) : j \in 1 .. Len(toClient'[c]) /\ j + 1 \in (i + 1) + 1 .. Len(toClient[c])
    BY Read
  <2>4. /\ toClient[c][i + 1] = Voice(c, FloorOf(c, speakChannel[c]), "AUDIO_SEND_ENABLE")
        /\ app[c] = "wait" /\ ~ openLocalUser[c]
        /\ \A ch \in Channel : ~ Sending(c, ch)
        /\ \A j \in (i + 1) + 1 .. Len(toClient[c]) :
             News(c, j) => toClient[c][j].floor # FloorOf(c, speakChannel[c])
    BY <2>2 DEF Good, Grants
  <2>. QED BY <2>1, <2>3, <2>4, <1>3
<1>12. Local(c)'
  <2>1. speakChannel[c] \in Channel /\ (Talking(c) => app[c] \notin Stopping)
    BY DEF TypeOK, Talking
  <2>. QED BY <1>6, <2>1 DEF Good, Local
<1>13. Announced(c)'
  BY AnnouncedKept
<1>. QED BY <1>8, <1>9, <1>10, <1>11, <1>12, <1>13

\* What c believes stays justified when it reads a packet about something else.
LEMMA BeliefKept ==
  ASSUME TypeOK, NEW c \in Client, toClient[c] # << >>, Handled(c), holder' = holder,
         NEW ch \in Channel, NEW u, Believed(c, ch, u), ~ Frees(c, 1, u, FloorOf(c, ch))
  PROVE  Believed(c, ch, u)'
<1> DEFINE f == FloorOf(c, ch)
<1>1. /\ f' = f
      /\ u # c /\ f \in Floors
      /\ holder[f] = u \/ \E j \in 1 .. Len(toClient[c]) : Frees(c, j, u, f)
      /\ \A i \in 1 .. Len(toClient[c]) : Grant(c, i) /\ toClient[c][i].floor = f
           => \E j \in 1 .. i - 1 : Frees(c, j, u, f)
  BY DEF Believed, FloorOf
<1>2. \A j \in 1 .. Len(toClient[c]) : Frees(c, j, u, f) =>
        j - 1 \in 1 .. Len(toClient'[c]) /\ Frees(c, j - 1, u, f)'
  <2>1. SUFFICES ASSUME NEW j \in 1 .. Len(toClient[c]), Frees(c, j, u, f)
                 PROVE  j - 1 \in 1 .. Len(toClient'[c]) /\ Frees(c, j - 1, u, f)'
    OBVIOUS
  <2>2. j - 1 \in 1 .. Len(toClient'[c])
    BY <2>1, Read
  <2>3. Frees(c, j - 1, u, f)' <=> Frees(c, (j - 1) + 1, u, f)
    BY <2>2, <1>1, Read
  <2>4. (j - 1) + 1 = j
    BY Read
  <2>. QED BY <2>1, <2>2, <2>3, <2>4
<1>3. ASSUME NEW i \in 1 .. Len(toClient'[c]), Grant(c, i)', toClient'[c][i].floor = f
      PROVE  \E j \in 1 .. i - 1 : Frees(c, j, u, f)'
  <2>1. i + 1 \in 1 .. Len(toClient[c]) /\ Grant(c, i + 1) /\ toClient[c][i + 1].floor = f
    BY <1>3, Read
  <2>2. PICK j \in 1 .. i : Frees(c, j, u, f)
    BY <2>1, <1>1
  <2>3. j - 1 \in 1 .. i - 1 /\ Frees(c, j - 1, u, f)'
    BY <2>1, <2>2, <1>2, Read
  <2>. QED BY <2>3
<1>. QED BY <1>1, <1>2, <1>3 DEF Believed

\* A client that sends still hears of nobody else after reading a packet.
LEMMA UndisturbedKept ==
  ASSUME TypeOK, NEW c \in Client, Good(c), toClient[c] # << >>, Handled(c), app' = app,
         \A ch \in Channel : Sending(c, ch)' =>
           Sending(c, ch) /\ speakerName'[c][ch] \in {NoOne, speakerName[c][ch]}
  PROVE  Undisturbed(c)'
<1>1. \A ch : FloorOf(c, ch)' = FloorOf(c, ch)
  BY DEF FloorOf
<1>. QED BY <1>1, Read DEF Good, Undisturbed

LEMMA RosterGood ==
  ASSUME TypeOK, NEW c \in Client, Good(c),
         LoginServered(c) \/ RemoteUserLogin(c) \/ UpdateUserList(c)
  PROVE  Good(c)'
<1>1. /\ link[c] = "up" /\ net[c] = "idle" /\ toClient[c] # << >> /\ Handled(c)
      /\ link' = link /\ speakChannel' = speakChannel /\ app' = app /\ net' = net
      /\ openLocalUser' = openLocalUser /\ logged' = logged /\ holder' = holder
      /\ audioStatus' = audioStatus /\ speakerName' = speakerName
      /\ toServer' = toServer \/ toServer' = Sent(c, Packet("GETUSERLIST"))
      /\ toClient[c][1].cmd \notin {"SENDVOICE", "REMOTEUSERQUIT"}
  BY Read DEF LoginServered, RemoteUserLogin, UpdateUserList, Receives, talkVars, threadVars, serverVars
<1>2. ~ Grant(c, 1) /\ \A u, f : ~ Frees(c, 1, u, f)
  BY <1>1 DEF Grant, News, Frees, Entry
<1>3. \A ch : Sending(c, ch)' <=> Sending(c, ch)
  BY <1>1 DEF Sending
<1>4. /\ Session(c)' /\ Requests(c)' /\ Owns(c)'
      /\ Grants(c)' /\ Local(c)' /\ Announced(c)'
  BY <1>1, <1>2, <1>3, HandlerGood
<1>5. Beliefs(c)'
  BY <1>1, <1>2, BeliefKept DEF Good, Beliefs
<1>6. Undisturbed(c)' /\ Consistent(c)'
  BY <1>1, <1>3, UndisturbedKept DEF Good, Consistent
<1>. QED BY <1>4, <1>5, <1>6 DEF Good

LEMMA RemoteUserQuitGood ==
  ASSUME TypeOK, NEW c \in Client, Good(c), RemoteUserQuit(c)
  PROVE  Good(c)'
<1> DEFINE v == Head(toClient[c]).user
<1>1. /\ link[c] = "up" /\ net[c] = "idle" /\ toClient[c] # << >> /\ Handled(c)
      /\ link' = link /\ speakChannel' = speakChannel /\ app' = app /\ net' = net
      /\ openLocalUser' = openLocalUser /\ logged' = logged /\ holder' = holder
      /\ toServer' = toServer
      /\ toClient[c][1].cmd = "REMOTEUSERQUIT" /\ toClient[c][1].user = v /\ v \in Client
  BY Read, HeadType DEF RemoteUserQuit, Receives, threadVars, serverVars, ToClient, VoicePacket
<1>2. \A ch \in Channel :
        /\ audioStatus'[c][ch] = IF speakerName[c][ch] = v THEN "AUDIO_SEND_ENABLE" ELSE audioStatus[c][ch]
        /\ speakerName'[c][ch] = IF speakerName[c][ch] = v THEN NoOne ELSE speakerName[c][ch]
  BY DEF RemoteUserQuit, TypeOK
<1>3. ~ Grant(c, 1) /\ \A u, f : Frees(c, 1, u, f) => u = v
  BY <1>1 DEF Grant, News, Frees, Entry
<1>4. \A ch \in Channel : Sending(c, ch)' => Sending(c, ch)
  BY <1>2 DEF Sending
<1>5. \A ch \in Channel : Sending(c, ch) /\ app[c] \notin Stopping => Sending(c, ch)'
  BY <1>1, <1>2, IntercomAssumption DEF Good, Undisturbed, Sending
<1>6. /\ Session(c)' /\ Requests(c)' /\ Owns(c)'
      /\ Grants(c)' /\ Local(c)' /\ Announced(c)'
  BY <1>1, <1>3, <1>4, <1>5, HandlerGood
<1>7. Beliefs(c)'
  BY <1>1, <1>2, <1>3, BeliefKept DEF Good, Beliefs
<1>8. Undisturbed(c)'
  BY <1>1, <1>2, <1>4, UndisturbedKept
<1>9. Consistent(c)'
  BY <1>2 DEF Good, Consistent
<1>. QED BY <1>6, <1>7, <1>8, <1>9 DEF Good

LEMMA VoiceIgnoredGood ==
  ASSUME TypeOK, NEW c \in Client, Good(c), VoiceIgnored(c)
  PROVE  Good(c)'
<1>1. /\ link[c] = "up" /\ net[c] = "idle" /\ toClient[c] # << >> /\ Handled(c)
      /\ link' = link /\ speakChannel' = speakChannel /\ app' = app /\ net' = net
      /\ openLocalUser' = openLocalUser /\ logged' = logged /\ holder' = holder
      /\ audioStatus' = audioStatus /\ speakerName' = speakerName
      /\ toServer' = toServer
      /\ toClient[c][1] = Head(toClient[c]) /\ toClient[c][1].cmd = "SENDVOICE"
      /\ toClient[c][1].data \in VoiceData
  BY Read, HeadType DEF VoiceIgnored, Receives, talkVars, threadVars, serverVars, ToClient, VoicePacket
<1>2. \/ toClient[c][1].floor \notin {Room, Group[c]}
      \/ toClient[c][1].data = "AUDIO_SEND_DISABLE"
  BY <1>1 DEF VoiceIgnored, Hears, VoiceData
<1>3. \A ch \in Channel : FloorOf(c, ch) \in {Room, Group[c]}
  BY DEF FloorOf
<1>4. speakChannel[c] \in Channel /\ 1 \in 1 .. Len(toClient[c])
  BY <1>1, Read DEF TypeOK
<1>5. ~ Grant(c, 1)
  BY <1>2, <1>3, <1>4 DEF Good, Grants, Voice
<1>6. \A ch \in Channel : \A u : ~ Frees(c, 1, u, FloorOf(c, ch))
  BY <1>1, <1>2, <1>3 DEF Frees, News, Entry, Voice
<1>7. \A ch : Sending(c, ch)' <=> Sending(c, ch)
  BY <1>1 DEF Sending
<1>8. /\ Session(c)' /\ Requests(c)' /\ Owns(c)'
      /\ Grants(c)' /\ Local(c)' /\ Announced(c)'
  BY <1>1, <1>5, <1>7, HandlerGood
<1>9. Beliefs(c)'
  BY <1>1, <1>6, BeliefKept DEF Good, Beliefs
<1>10. Undisturbed(c)' /\ Consistent(c)'
  BY <1>1, <1>7, UndisturbedKept DEF Good, Consistent
<1>. QED BY <1>8, <1>9, <1>10 DEF Good

\* What a speaker's packet says of the channel it is about.
LEMMA HeardFacts ==
  ASSUME TypeOK, NEW c \in Client, Good(c), NEW data \in VoiceData,
         Hears(c, data), Head(toClient[c]).user # c
  PROVE  LET m == Head(toClient[c])
             ch == ChannelOf(m.floor)
         IN  /\ link[c] = "up" /\ net[c] = "idle" /\ toClient[c] # << >>
             /\ toClient[c][1] = m /\ 1 \in 1 .. Len(toClient[c])
             /\ News(c, 1) /\ ~ Grant(c, 1)
             /\ m \in VoicePacket /\ m.data = data
             /\ ch \in Channel /\ FloorOf(c, ch) = m.floor
             /\ \A o \in Channel : o # ch => FloorOf(c, o) # m.floor
             /\ app[c] \notin Stopping => ~ Sending(c, ch)
<1> DEFINE m == Head(toClient[c])
           ch == ChannelOf(m.floor)
<1>1. /\ link[c] = "up" /\ net[c] = "idle" /\ toClient[c] # << >>
      /\ toClient[c][1] = m /\ 1 \in 1 .. Len(toClient[c])
      /\ m.cmd = "SENDVOICE" /\ m.data = data /\ m.floor \in {Room, Group[c]}
  BY HeadType DEF Hears, Receives, TypeOK
<1>2. m \in VoicePacket
  BY <1>1, HeadType DEF ToClient
<1>3. News(c, 1) /\ ~ Grant(c, 1)
  BY <1>1 DEF News, Entry, Grant
<1>4. ch \in Channel /\ FloorOf(c, ch) = m.floor
  BY <1>1, ChannelFloor
<1>5. \A o \in Channel : o # ch => FloorOf(c, o) # m.floor
  BY ChannelFloor
<1>6. app[c] \notin Stopping => ~ Sending(c, ch)
  BY <1>1, <1>3, <1>4 DEF Good, Undisturbed
<1>. QED BY <1>1, <1>2, <1>3, <1>4, <1>5, <1>6

LEMMA VoiceEnableGood ==
  ASSUME TypeOK, NEW c \in Client, Good(c), VoiceEnable(c)
  PROVE  Good(c)'
<1> DEFINE m == Head(toClient[c])
           ch == ChannelOf(m.floor)
<1>1. /\ Handled(c) /\ link' = link /\ speakChannel' = speakChannel /\ app' = app /\ net' = net
      /\ openLocalUser' = openLocalUser /\ logged' = logged /\ holder' = holder
      /\ toServer' = toServer
  BY DEF VoiceEnable, threadVars, serverVars
<1>2. /\ link[c] = "up" /\ net[c] = "idle" /\ toClient[c] # << >>
      /\ toClient[c][1] = m /\ ~ Grant(c, 1) /\ m \in VoicePacket
      /\ ch \in Channel /\ FloorOf(c, ch) = m.floor
      /\ \A o \in Channel : o # ch => FloorOf(c, o) # m.floor
      /\ app[c] \notin Stopping => ~ Sending(c, ch)
  BY HeardFacts DEF VoiceEnable, VoiceData
<1>3. \A o \in Channel :
        /\ audioStatus'[c][o] = IF o = ch THEN "AUDIO_SEND_ENABLE" ELSE audioStatus[c][o]
        /\ speakerName'[c][o] = IF o = ch THEN NoOne ELSE speakerName[c][o]
  BY <1>2 DEF VoiceEnable, TypeOK
<1>4. \A o \in Channel : \A u : o # ch => ~ Frees(c, 1, u, FloorOf(c, o))
  BY <1>2 DEF Frees, Entry, News, Voice, VoicePacket
<1>5. /\ \A o \in Channel : Sending(c, o)' => Sending(c, o)
      /\ \A o \in Channel : Sending(c, o) /\ app[c] \notin Stopping => Sending(c, o)'
  BY <1>2, <1>3 DEF Sending
<1>6. /\ Session(c)' /\ Requests(c)' /\ Owns(c)'
      /\ Grants(c)' /\ Local(c)' /\ Announced(c)'
  BY <1>1, <1>2, <1>5, HandlerGood
<1>7. Beliefs(c)'
  BY <1>1, <1>2, <1>3, <1>4, BeliefKept DEF Good, Beliefs
<1>8. Undisturbed(c)'
  BY <1>1, <1>2, <1>3, <1>5, UndisturbedKept
<1>9. Consistent(c)'
  BY <1>3 DEF Good, Consistent
<1>. QED BY <1>6, <1>7, <1>8, <1>9 DEF Good

LEMMA VoiceDisableGood ==
  ASSUME TypeOK, NEW c \in Client, Good(c), VoiceDisable(c)
  PROVE  Good(c)'
<1> DEFINE m == Head(toClient[c])
           ch == ChannelOf(m.floor)
<1>1. /\ Handled(c) /\ link' = link /\ speakChannel' = speakChannel /\ app' = app /\ net' = net
      /\ openLocalUser' = openLocalUser /\ logged' = logged /\ holder' = holder
      /\ toServer' = toServer
  BY DEF VoiceDisable, threadVars, serverVars
<1>2. /\ link[c] = "up" /\ net[c] = "idle" /\ toClient[c] # << >>
      /\ toClient[c][1] = m /\ 1 \in 1 .. Len(toClient[c])
      /\ News(c, 1) /\ ~ Grant(c, 1)
      /\ m \in VoicePacket /\ m.data = "AUDIO_SEND_DISABLE"
      /\ ch \in Channel /\ FloorOf(c, ch) = m.floor
      /\ \A o \in Channel : o # ch => FloorOf(c, o) # m.floor
      /\ app[c] \notin Stopping => ~ Sending(c, ch)
  BY HeardFacts DEF VoiceDisable, VoiceData
<1>3. \A o \in Channel :
        /\ audioStatus'[c][o] = IF o = ch THEN "AUDIO_SEND_DISABLE" ELSE audioStatus[c][o]
        /\ speakerName'[c][o] = IF o = ch THEN m.user ELSE speakerName[c][o]
  BY <1>2 DEF VoiceDisable, TypeOK
<1>4. \A u, f : ~ Frees(c, 1, u, f)
  BY <1>2 DEF Frees, Entry, News, Voice, VoicePacket
<1>5. /\ \A o \in Channel : Sending(c, o)' => Sending(c, o) /\ o # ch
      /\ \A o \in Channel : Sending(c, o) /\ app[c] \notin Stopping => Sending(c, o)'
  BY <1>2, <1>3 DEF Sending
<1>6. /\ Session(c)' /\ Requests(c)' /\ Owns(c)'
      /\ Grants(c)' /\ Local(c)' /\ Announced(c)'
  BY <1>1, <1>2, <1>5, HandlerGood
<1>7. c \in logged => Believed(c, ch, m.user)
  <2>1. /\ m.user # c
        /\ c \in logged => holder[m.floor] = m.user
             \/ \E j \in 1 + 1 .. Len(toClient[c]) : Frees(c, j, m.user, m.floor)
        /\ \A i \in 1 + 1 .. Len(toClient[c]) : Grant(c, i) /\ toClient[c][i].floor = m.floor
             => \E j \in 1 + 1 .. i - 1 : Frees(c, j, m.user, m.floor)
    BY <1>2 DEF Good, Announced
  <2>2. m.floor \in Floors /\ Len(toClient[c]) \in Nat
    BY <1>2, Read, <1>1 DEF VoicePacket
  <2>3. \A i \in 1 .. Len(toClient[c]) : i = 1 \/ i \in 1 + 1 .. Len(toClient[c])
    BY <2>2
  <2>4. \A j \in 1 + 1 .. Len(toClient[c]) : j \in 1 .. Len(toClient[c])
    BY <2>2
  <2>5. \A i \in 1 .. Len(toClient[c]) : \A j \in 1 + 1 .. i - 1 : j \in 1 .. i - 1
    BY <2>2
  <2>. QED BY <1>2, <2>1, <2>2, <2>3, <2>4, <2>5 DEF Believed
<1>8. Beliefs(c)'
  BY <1>1, <1>2, <1>3, <1>4, <1>7, BeliefKept DEF Good, Beliefs
<1>9. Undisturbed(c)'
  BY <1>1, <1>2, <1>3, <1>5, UndisturbedKept
<1>10. Consistent(c)'
  BY <1>2, <1>3, IntercomAssumption DEF Good, Consistent, VoicePacket
<1>. QED BY <1>6, <1>8, <1>9, <1>10 DEF Good

\* The grant: whoever c believed to be speaking there has been corrected.
LEMMA VoiceGrantedGood ==
  ASSUME TypeOK, NEW c \in Client, Good(c), VoiceGranted(c)
  PROVE  Good(c)'
<1> DEFINE own == speakChannel[c]
           f == FloorOf(c, own)
<1>1. /\ link[c] = "up" /\ net[c] = "idle" /\ toClient[c] # << >> /\ Handled(c)
      /\ link' = link /\ speakChannel' = speakChannel /\ app' = app /\ net'[c] = "granted"
      /\ openLocalUser' = openLocalUser /\ logged' = logged /\ holder' = holder
      /\ speakerName' = speakerName /\ toServer' = toServer
      /\ toClient[c][1] = Head(toClient[c]) /\ 1 \in 1 .. Len(toClient[c])
      /\ toClient[c][1].cmd = "SENDVOICE" /\ toClient[c][1].user = c
  BY Read DEF VoiceGranted, GrantsMe, Hears, Receives, serverVars, TypeOK
<1>2. Grant(c, 1) /\ HasFloor(c)
  BY <1>1 DEF Grant, News, Entry, HasFloor
<1>3. /\ toClient[c][1] = Voice(c, f, "AUDIO_SEND_ENABLE")
      /\ app[c] = "wait" /\ ~ openLocalUser[c]
      /\ \A ch \in Channel : ~ Sending(c, ch)
      /\ \A j \in 1 + 1 .. Len(toClient[c]) : News(c, j) => toClient[c][j].floor # f
  BY <1>1, <1>2 DEF Good, Grants
<1>4. /\ c \in logged /\ f \in Floors /\ holder[f] = c
      /\ \A i \in 1 .. Len(toServer[c]) : toServer[c][i].cmd = "GETUSERLIST"
  BY <1>2 DEF Good, Owns
<1>5. own \in Channel /\ ChannelOf(f) = own
  BY ChannelFloor DEF TypeOK
<1>6. \A ch \in Channel :
        audioStatus'[c][ch] = IF ch = own THEN "AUDIO_SEND_SENDING" ELSE audioStatus[c][ch]
  BY <1>1, <1>3, <1>5 DEF VoiceGranted, TypeOK, Voice
<1>7. /\ \A ch : FloorOf(c, ch)' = FloorOf(c, ch)
      /\ \A ch \in Channel : Sending(c, ch)' <=> ch = own
  BY <1>3, <1>6 DEF FloorOf, Sending
<1>8. \A i \in 1 .. Len(toClient'[c]) :
        /\ i + 1 \in 1 + 1 .. Len(toClient[c]) /\ toClient'[c][i] = toClient[c][i + 1]
        /\ News(c, i)' => toClient'[c][i].floor # f
        /\ ~ Grant(c, i)'
  <2>1. SUFFICES ASSUME NEW i \in 1 .. Len(toClient'[c])
                 PROVE  /\ i + 1 \in 1 + 1 .. Len(toClient[c]) /\ toClient'[c][i] = toClient[c][i + 1]
                        /\ News(c, i)' => toClient'[c][i].floor # f
                        /\ ~ Grant(c, i)'
    OBVIOUS
  <2>2. /\ i \in Nat \ {0} /\ i + 1 \in 1 .. Len(toClient[c]) /\ toClient'[c][i] = toClient[c][i + 1]
        /\ News(c, i)' <=> News(c, i + 1)
        /\ Grant(c, i)' <=> Grant(c, i + 1)
    BY <1>1, Read
  <2>3. i + 1 \in 1 + 1 .. Len(toClient[c])
    BY <2>2
  <2>4. ~ Grant(c, i + 1)
    <3>1. Grant(c, i + 1) => News(c, i + 1) /\ toClient[c][i + 1].floor = f
      BY <2>2 DEF Good, Grants, Grant, Voice
    <3>. QED BY <3>1, <2>3, <1>3
  <2>. QED BY <2>2, <2>3, <2>4, <1>3
<1>9. HasFloor(c)'
  BY <1>1 DEF HasFloor
<1>10. Session(c)'
  <2>1. \A i \in 1 .. Len(toClient'[c]) : \A cmd : Entry(toClient[c], i, cmd)' <=> Entry(toClient[c], i + 1, cmd)
    BY <1>1, Read
  <2>. QED BY <1>1, <1>4, <1>8, <2>1 DEF Good, Session, Entry
<1>11. Requests(c)'
  BY <1>1, <1>4 DEF Requests, Request, Entry
<1>12. Owns(c)'
  BY <1>1, <1>4, <1>7 DEF Owns
<1>13. Grants(c)'
  BY <1>8 DEF Grants
<1>14. Local(c)'
  BY <1>1, <1>3, <1>5, <1>7 DEF Local, Talking, Stopping
<1>15. \A ch \in Channel : speakerName[c][ch] # NoOne => ch # own /\ ~ Frees(c, 1, speakerName[c][ch], FloorOf(c, ch))
  <2>1. SUFFICES ASSUME NEW ch \in Channel, NEW u, u = speakerName[c][ch], u # NoOne
                 PROVE  ch # own /\ ~ Frees(c, 1, u, FloorOf(c, ch))
    OBVIOUS
  <2>2. Believed(c, ch, u)
    BY <2>1, <1>4 DEF Good, Beliefs
  <2>3. ch # own
    BY <1>1, <1>2, <1>3, <2>2 DEF Believed, Voice
  <2>. QED BY <1>3, <2>2, <2>3 DEF Believed, Frees, Entry, Voice
<1>16. Undisturbed(c)'
  BY <1>1, <1>7, <1>8, <1>15 DEF Undisturbed
<1>17. Beliefs(c)'
  BY <1>1, <1>4, <1>15, BeliefKept DEF Good, Beliefs
<1>18. Announced(c)'
  BY <1>1, AnnouncedKept
<1>19. Consistent(c)'
  BY <1>1, <1>6 DEF Good, Consistent
<1>. QED BY <1>10, <1>11, <1>12, <1>13, <1>14, <1>16, <1>17, <1>18, <1>19 DEF Good

LEMMA OpenMediaSenderGood ==
  ASSUME TypeOK, NEW c \in Client, Good(c), OpenMediaSender(c)
  PROVE  Good(c)'
<1>1. /\ net[c] = "granted" /\ net'[c] = "idle" /\ openLocalUser'[c] = TRUE
      /\ link' = link /\ audioStatus' = audioStatus /\ speakerName' = speakerName
      /\ speakChannel' = speakChannel /\ app' = app
      /\ toServer' = toServer /\ toClient' = toClient /\ logged' = logged /\ holder' = holder
  BY DEF OpenMediaSender, TypeOK, queueVars, serverVars
<1>2. /\ Sending(c, speakChannel[c]) /\ app[c] = "wait" /\ HasFloor(c)
  BY <1>1 DEF Good, Local, HasFloor
<1>3. \A i : /\ \A cmd : Entry(toServer[c], i, cmd)' <=> Entry(toServer[c], i, cmd)
             /\ \A cmd : Entry(toClient[c], i, cmd)' <=> Entry(toClient[c], i, cmd)
             /\ Request(c, i)' <=> Request(c, i)
             /\ News(c, i)' <=> News(c, i)
             /\ Grant(c, i)' <=> Grant(c, i)
             /\ \A u, f : Frees(c, i, u, f)' <=> Frees(c, i, u, f)
  BY <1>1, QuietFacts
<1>4. /\ Talking(c)'
      /\ \A o : Sending(c, o)' <=> Sending(c, o)
      /\ \A o : FloorOf(c, o)' = FloorOf(c, o)
  BY <1>1, <1>2 DEF Talking, Sending, FloorOf, Stopping
<1>5. /\ \A i \in 1 .. Len(toServer[c]) : ~ Request(c, i)
      /\ \A i \in 1 .. Len(toClient[c]) : ~ Grant(c, i)
  BY <1>1, <1>2 DEF Good, Requests, Grants
<1>6. Session(c)' /\ Requests(c)' /\ Owns(c)' /\ Grants(c)'
  BY <1>1, <1>2, <1>3, <1>4, <1>5 DEF Good, Session, Requests, Owns, Grants
<1>7. Local(c)' /\ Undisturbed(c)' /\ Consistent(c)'
  BY <1>1, <1>2, <1>3, <1>4 DEF Good, Local, Undisturbed, Consistent, Stopping
<1>8. Beliefs(c)'
  BY <1>1, <1>3, <1>4 DEF Good, Beliefs, Believed
<1>9. Announced(c)'
  BY <1>1, AnnouncedStays DEF Good
<1>. QED BY <1>6, <1>7, <1>8, <1>9 DEF Good

\* The login that begins a session.
LEMMA ConnectedGood ==
  ASSUME TypeOK, NEW c \in Client, Good(c), Connected(c)
  PROVE  Good(c)'
<1>1. /\ link[c] = "connecting" /\ link'[c] = "up" /\ net[c] = "idle" /\ net' = net
      /\ audioStatus'[c] = [ch \in Channel |-> "AUDIO_SEND_ENABLE"]
      /\ speakerName'[c] = [ch \in Channel |-> NoOne]
      /\ speakChannel' = speakChannel /\ openLocalUser' = openLocalUser /\ app' = app
      /\ toClient' = toClient /\ logged' = logged /\ holder' = holder
      /\ toServer'[c] = Append(toServer[c], Packet("LOGINSERVER"))
  BY DEF Connected, LoginServer, TypeOK, threadVars, serverVars
<1>2. /\ toServer[c] = << >> /\ toClient[c] = << >> /\ c \notin logged
      /\ ~ HasFloor(c)
  BY <1>1 DEF Good, Session, Owns
<1>3. /\ Len(toServer'[c]) = 1 /\ toServer'[c][1] = Packet("LOGINSERVER")
      /\ Len(toClient'[c]) = 0
  BY <1>1, <1>2
<1>4. /\ ~ Talking(c)' /\ ~ HasFloor(c)'
      /\ \A ch \in Channel : ~ Sending(c, ch)'
  BY <1>1, <1>2, <1>3 DEF HasFloor, Talking, Sending
<1>5. Session(c)'
  BY <1>1, <1>2, <1>3 DEF Good, Session, Entry
<1>6. Requests(c)' /\ Grants(c)' /\ Announced(c)' /\ Beliefs(c)'
  BY <1>1, <1>2, <1>3 DEF Requests, Request, Entry, Packet, Grants, Announced, Beliefs
<1>7. Owns(c)' /\ Undisturbed(c)' /\ Consistent(c)'
  BY <1>1, <1>4 DEF Owns, Undisturbed, Consistent
<1>8. Local(c)'
  BY <1>1, <1>4 DEF Good, Local, Stopping
<1>. QED BY <1>5, <1>6, <1>7, <1>8 DEF Good

\* The end of a session: c has lost its floor before.
LEMMA LoginRefusedOrUserQuitGood ==
  ASSUME TypeOK, NEW c \in Client, Good(c), LoginRefusedOrUserQuit(c)
  PROVE  /\ Good(c)' /\ holder' = holder /\ logged' = logged
         /\ \A d \in Client \ {c} : Same(d)
<1>1. /\ link[c] = "up" /\ net[c] = "idle" /\ toClient[c] # << >>
      /\ Entry(toClient[c], 1, "LOGINREFUSED") \/ Entry(toClient[c], 1, "USERQUIT")
      /\ app[c] \notin Stopping /\ link' = [link EXCEPT ![c] = "none"]
      /\ audioStatus' = audioStatus /\ speakerName' = speakerName /\ speakChannel' = speakChannel
      /\ openLocalUser' = openLocalUser /\ app' = app /\ net' = net
      /\ SessionEnds(c)
  BY DEF LoginRefusedOrUserQuit, Teardown, Receives, Entry, TypeOK, threadVars
<1>2. c \notin logged /\ \A f \in Floors : holder[f] # c
  BY <1>1 DEF Good, Session, Entry
<1>3. /\ toServer'[c] = << >> /\ toClient'[c] = << >> /\ holder' = holder /\ logged' = logged
      /\ \A d \in Client \ {c} : toServer'[d] = toServer[d] /\ toClient'[d] = toClient[d]
  BY <1>1, <1>2 DEF SessionEnds, FloorsFreed, TypeOK
<1>4. ~ HasFloor(c)
  BY <1>2 DEF Good, Owns
<1>5. /\ Talking(c)' <=> Talking(c)
      /\ \A o : Sending(c, o)' <=> Sending(c, o)
      /\ Len(toServer'[c]) = 0 /\ Len(toClient'[c]) = 0
      /\ link'[c] = "none"
  BY <1>1, <1>3 DEF Talking, Sending, TypeOK
<1>6. ~ HasFloor(c)'
  BY <1>1, <1>4, <1>5 DEF HasFloor
<1>7. Session(c)' /\ Requests(c)' /\ Grants(c)' /\ Announced(c)' /\ Beliefs(c)'
  BY <1>2, <1>3, <1>5 DEF Session, Requests, Grants, Announced, Beliefs
<1>8. Owns(c)' /\ Local(c)' /\ Consistent(c)'
  BY <1>1, <1>5, <1>6 DEF Good, Owns, Local, Consistent
<1>9. Undisturbed(c)'
  BY <1>6 DEF Undisturbed, HasFloor
<1>10. \A d \in Client \ {c} : Same(d)
  BY <1>1, <1>3 DEF Same, TypeOK
<1>. QED BY <1>3, <1>7, <1>8, <1>9, <1>10 DEF Good

-----------------------------------------------------------------------------
(* The server answers.                                                     *)

\* s is said to d, which may also be the one whose packet the server reads.
LEMMA Told ==
  ASSUME TypeOK, NEW d \in Client, Good(d), NEW s \in Seq(ToClient), Len(s) \in {0, 1},
         toClient'[d] = toClient[d] \o s, link[d] = "up" \/ s = << >>,
         link' = link, audioStatus' = audioStatus, speakerName' = speakerName,
         speakChannel' = speakChannel, openLocalUser' = openLocalUser, app' = app, net' = net,
         \/ toServer'[d] = toServer[d] /\ (d \in logged \/ s = << >>)
         \/ toServer[d] # << >> /\ toServer'[d] = Tail(toServer[d]),
         d \in logged' => d \in logged,
         HasFloor(d) => d \in logged' /\ holder'[FloorOf(d, speakChannel[d])] = d,
         \A f \in Floors : holder'[f] = d => d \in logged',
         d \in logged' => \A u \in Client \ {d}, f \in Floors : holder[f] = u =>
           holder'[f] = u \/ \E i \in 1 .. Len(s) :
             s[i] = About("REMOTEUSERQUIT", u) \/ s[i] = Voice(u, f, "AUDIO_SEND_ENABLE"),
         \A i \in 1 .. Len(s) :
           /\ s[i].cmd \in {"LOGINREFUSED", "USERQUIT"} => d \notin logged'
           /\ s[i].cmd = "SENDVOICE" =>
                /\ s[i].user # d
                /\ HasFloor(d) => s[i].floor # FloorOf(d, speakChannel[d])
                /\ s[i].data = "AUDIO_SEND_DISABLE" /\ d \in logged' => holder'[s[i].floor] = s[i].user
  PROVE  Good(d)'
<1> DEFINE own == FloorOf(d, speakChannel[d])
<1>0. PICK n \in Nat : n = Len(toClient[d])
  BY DEF TypeOK
<1>1. /\ n \in Nat /\ Len(s) \in {0, 1}
      /\ Len(toClient'[d]) = n + Len(s)
      /\ \A i \in 1 .. n :
           /\ i \in 1 .. Len(toClient'[d])
           /\ toClient'[d][i] = toClient[d][i]
           /\ \A cmd : Entry(toClient[d], i, cmd)' <=> Entry(toClient[d], i, cmd)
           /\ News(d, i)' <=> News(d, i)
           /\ Grant(d, i)' <=> Grant(d, i)
           /\ \A u, f : Frees(d, i, u, f)' <=> Frees(d, i, u, f)
      /\ \A i \in 1 .. Len(s) : toClient'[d][n + i] = s[i]
  BY <1>0, Append1
<1>2. \A i \in 1 .. Len(toClient'[d]) :
        i \in 1 .. n \/ (i = n + 1 /\ 1 \in 1 .. Len(s) /\ toClient'[d][i] = s[1])
  BY <1>1
<1>3. \A i \in 1 .. Len(toClient'[d]) : Grant(d, i)' => i \in 1 .. n /\ Grant(d, i)
  BY <1>1, <1>2 DEF Grant, News, Entry
<1>4. \E k \in {0, 1} :
        /\ Len(toServer[d]) \in Nat /\ Len(toServer'[d]) = Len(toServer[d]) - k
        /\ \A i \in 1 .. Len(toServer'[d]) : toServer'[d][i] = toServer[d][i + k]
        /\ k = 0 => d \in logged \/ s = << >>
  <2>1. toServer[d] \in Seq(ToServer)
    BY DEF TypeOK
  <2>2. CASE toServer'[d] = toServer[d] /\ (d \in logged \/ s = << >>)
    BY <2>1, <2>2
  <2>3. CASE toServer[d] # << >> /\ toServer'[d] = Tail(toServer[d])
    BY <2>1, <2>3
  <2>. QED BY <2>2, <2>3
<1>5. PICK k \in {0, 1} :
        /\ Len(toServer[d]) \in Nat /\ Len(toServer'[d]) = Len(toServer[d]) - k
        /\ \A i \in 1 .. Len(toServer'[d]) : toServer'[d][i] = toServer[d][i + k]
        /\ k = 0 => d \in logged \/ s = << >>
  BY <1>4
<1>6. \A i \in 1 .. Len(toServer'[d]) :
        /\ i \in Nat \ {0} /\ i + k \in 1 .. Len(toServer[d])
        /\ \A cmd : Entry(toServer[d], i, cmd)' <=> Entry(toServer[d], i + k, cmd)
        /\ Request(d, i)' <=> Request(d, i + k)
        /\ \A j \in i + 1 .. Len(toServer'[d]) : j \in 1 .. Len(toServer'[d]) /\ j + k \in (i + k) + 1 .. Len(toServer[d])
  BY <1>5 DEF Entry, Request
<1>7. /\ Talking(d)' <=> Talking(d)
      /\ \A o : Sending(d, o)' <=> Sending(d, o)
      /\ \A o : FloorOf(d, o)' = FloorOf(d, o)
  BY DEF Talking, Sending, FloorOf
<1>8. HasFloor(d)' => HasFloor(d)
  BY <1>0, <1>3, <1>7 DEF HasFloor
<1>9. Session(d)'
  <2>1. /\ link'[d] \in {"none", "connecting", "up"}
        /\ link'[d] # "up" => toServer'[d] = << >> /\ toClient'[d] = << >> /\ d \notin logged'
    <3>1. CASE link[d] = "up"
      BY <3>1
    <3>2. CASE link[d] # "up"
      <4>1. /\ s = << >> /\ toServer[d] = << >> /\ toClient[d] = << >> /\ d \notin logged
            /\ link[d] \in {"none", "connecting", "up"}
        BY <3>2 DEF Good, Session
      <4>2. toServer'[d] = << >> /\ toClient'[d] = << >>
        BY <4>1
      <4>. QED BY <4>1, <4>2
    <3>. QED BY <3>1, <3>2
  <2>2. ASSUME NEW i \in 1 .. Len(toServer'[d]), Entry(toServer[d], i, "LOGINSERVER")'
        PROVE  /\ i = 1 /\ d \notin logged' /\ toClient'[d] = << >>
               /\ \A ch \in Channel : speakerName'[d][ch] = NoOne
    <3>1. /\ i + k = 1 /\ d \notin logged /\ toClient[d] = << >>
          /\ \A ch \in Channel : speakerName[d][ch] = NoOne
      BY <2>2, <1>6 DEF Good, Session
    <3>2. k = 0 /\ i = 1
      BY <3>1, <1>6
    <3>3. toClient'[d] = << >>
      BY <3>1, <3>2, <1>5
    <3>. QED BY <3>1, <3>2, <3>3
  <2>3. ASSUME NEW i \in 1 .. Len(toClient'[d]),
               Entry(toClient[d], i, "LOGINREFUSED")' \/ Entry(toClient[d], i, "USERQUIT")'
        PROVE  d \notin logged'
    BY <2>3, <1>1, <1>2 DEF Good, Session, Entry
  <2>. QED BY <2>1, <2>2, <2>3 DEF Session
<1>10. Requests(d)'
  <2>1. SUFFICES ASSUME NEW i \in 1 .. Len(toServer'[d]), Request(d, i)'
                 PROVE  /\ toServer'[d][i].floor = own
                        /\ \A j \in i + 1 .. Len(toServer'[d]) : toServer'[d][j].cmd = "GETUSERLIST"
                        /\ app[d] = "wait"
                        /\ ~ HasFloor(d)
    BY <1>7, <1>8 DEF Requests
  <2>2. i + k \in 1 .. Len(toServer[d]) /\ Request(d, i + k)
    BY <2>1, <1>6
  <2>3. /\ toServer[d][i + k].floor = own
        /\ \A j \in (i + k) + 1 .. Len(toServer[d]) : toServer[d][j].cmd = "GETUSERLIST"
        /\ app[d] = "wait" /\ ~ HasFloor(d)
    BY <2>2 DEF Good, Requests
  <2>4. \A j \in i + 1 .. Len(toServer'[d]) : toServer'[d][j] = toServer[d][j + k] /\ j + k \in (i + k) + 1 .. Len(toServer[d])
    BY <1>5, <1>6
  <2>5. toServer'[d][i] = toServer[d][i + k]
    BY <1>5
  <2>. QED BY <2>3, <2>4, <2>5
<1>11. Owns(d)'
  BY <1>5, <1>6, <1>7, <1>8 DEF Good, Owns
<1>12. Grants(d)'
  <2>1. SUFFICES ASSUME NEW i \in 1 .. n, Grant(d, i)
                 PROVE  /\ toClient[d][i] = Voice(d, own, "AUDIO_SEND_ENABLE")
                        /\ app[d] = "wait" /\ net[d] = "idle" /\ ~ openLocalUser[d]
                        /\ \A ch \in Channel : ~ Sending(d, ch)
                        /\ \A j \in i + 1 .. Len(toClient'[d]) :
                             News(d, j)' => toClient'[d][j].floor # own
    BY <1>1, <1>3, <1>7 DEF Grants
  <2>2. HasFloor(d)
    BY <1>0, <2>1 DEF HasFloor
  <2>3. \A j \in i + 1 .. Len(toClient'[d]) : News(d, j)' => toClient'[d][j].floor # own
    <3>1. \A j \in i + 1 .. Len(toClient'[d]) : j \in 1 .. Len(toClient'[d]) /\ (j \in 1 .. n => j \in i + 1 .. n)
      BY <1>1
    <3>2. \A j \in i + 1 .. n : News(d, j) => toClient[d][j].floor # own
      BY <1>0, <2>1 DEF Good, Grants
    <3>. QED BY <3>1, <3>2, <2>2, <1>1, <1>2 DEF News, Entry
  <2>. QED BY <1>0, <2>1, <2>3 DEF Good, Grants
<1>13. Local(d)'
  BY <1>7 DEF Good, Local
<1>14. Undisturbed(d)'
  <2>1. SUFFICES ASSUME NEW ch \in Channel, Sending(d, ch), app[d] \notin Stopping
                 PROVE  /\ speakerName[d][ch] = NoOne
                        /\ \A j \in 1 .. Len(toClient'[d]) : News(d, j)' => toClient'[d][j].floor # FloorOf(d, ch)
    BY <1>7 DEF Undisturbed
  <2>2. HasFloor(d) /\ ch = speakChannel[d]
    BY <2>1 DEF HasFloor, Good, Local
  <2>3. /\ speakerName[d][ch] = NoOne
        /\ \A j \in 1 .. n : News(d, j) => toClient[d][j].floor # own
    BY <1>0, <2>1, <2>2 DEF Good, Undisturbed
  <2>. QED BY <2>2, <2>3, <1>1, <1>2 DEF News, Entry
<1>15. d \in logged' => \A u \in Client \ {d}, f \in Floors :
         holder[f] = u => holder'[f] = u \/ (n + 1 \in 1 .. Len(toClient'[d]) /\ Frees(d, n + 1, u, f)')
  <2>1. SUFFICES ASSUME d \in logged', NEW u \in Client \ {d}, NEW f \in Floors,
                        holder[f] = u, holder'[f] # u
                 PROVE  n + 1 \in 1 .. Len(toClient'[d]) /\ Frees(d, n + 1, u, f)'
    OBVIOUS
  <2>2. PICK i \in 1 .. Len(s) : s[i] = About("REMOTEUSERQUIT", u) \/ s[i] = Voice(u, f, "AUDIO_SEND_ENABLE")
    BY <2>1
  <2>3. i = 1 /\ n + 1 \in 1 .. Len(toClient'[d]) /\ toClient'[d][n + 1] = s[1]
    <3>1. Len(s) = 1 /\ i = 1
      BY <1>1, <2>2
    <3>2. Len(toClient'[d]) = n + 1
      BY <1>1, <3>1
    <3>3. 1 \in 1 .. Len(s) /\ n + 1 \in 1 .. Len(toClient'[d])
      BY <3>1, <3>2
    <3>4. toClient'[d][n + 1] = s[1]
      BY <1>1, <3>3
    <3>. QED BY <3>1, <3>3, <3>4
  <2>4. CASE s[1] = About("REMOTEUSERQUIT", u)
    BY <2>3, <2>4 DEF Frees, Entry, About
  <2>5. CASE s[1] = Voice(u, f, "AUDIO_SEND_ENABLE")
    <3>1. s[1].cmd = "SENDVOICE"
      BY <2>5 DEF Voice
    <3>. QED BY <2>3, <2>5, <3>1 DEF Frees, News, Entry
  <2>. QED BY <2>2, <2>3, <2>4, <2>5
<1>16. Beliefs(d)'
  <2>1. SUFFICES ASSUME d \in logged', NEW ch \in Channel, speakerName[d][ch] # NoOne,
                        NEW u, u = speakerName[d][ch], NEW f, f = FloorOf(d, ch)
                 PROVE  /\ u # d /\ f \in Floors
                        /\ holder'[f] = u \/ \E j \in 1 .. Len(toClient'[d]) : Frees(d, j, u, f)'
                        /\ \A i \in 1 .. Len(toClient'[d]) : Grant(d, i)' /\ toClient'[d][i].floor = f
                             => \E j \in 1 .. i - 1 : Frees(d, j, u, f)'
    BY <1>7 DEF Beliefs, Believed
  <2>2. /\ u # d /\ f \in Floors /\ u \in Client
        /\ holder[f] = u \/ \E j \in 1 .. n : Frees(d, j, u, f)
        /\ \A i \in 1 .. n : Grant(d, i) /\ toClient[d][i].floor = f
             => \E j \in 1 .. i - 1 : Frees(d, j, u, f)
    <3>1. u \in Client /\ d \in logged
      BY <2>1 DEF TypeOK
    <3>. QED BY <1>0, <2>1, <3>1 DEF Good, Beliefs, Believed
  <2>3. \A i \in 1 .. n : \A j \in 1 .. i - 1 : j \in 1 .. n
    BY <1>1
  <2>4. holder'[f] = u \/ \E j \in 1 .. Len(toClient'[d]) : Frees(d, j, u, f)'
    <3>1. CASE holder[f] = u
      BY <2>1, <2>2, <3>1, <1>15
    <3>2. ASSUME NEW j \in 1 .. n, Frees(d, j, u, f)
          PROVE  \E m \in 1 .. Len(toClient'[d]) : Frees(d, m, u, f)'
      BY <3>2, <1>1
    <3>. QED BY <2>2, <3>1, <3>2
  <2>5. ASSUME NEW i \in 1 .. Len(toClient'[d]), Grant(d, i)', toClient'[d][i].floor = f
        PROVE  \E j \in 1 .. i - 1 : Frees(d, j, u, f)'
    BY <2>2, <2>3, <2>5, <1>1, <1>3
  <2>. QED BY <2>2, <2>4, <2>5
<1>17. Announced(d)'
  <2>1. SUFFICES ASSUME NEW m \in 1 .. Len(toClient'[d]), News(d, m)',
                        toClient'[d][m].data = "AUDIO_SEND_DISABLE",
                        NEW u, u = toClient'[d][m].user, NEW f, f = toClient'[d][m].floor
                 PROVE  /\ u # d
                        /\ d \in logged' => holder'[f] = u
                             \/ \E j \in m + 1 .. Len(toClient'[d]) : Frees(d, j, u, f)'
                        /\ \A i \in m + 1 .. Len(toClient'[d]) :
                             Grant(d, i)' /\ toClient'[d][i].floor = f
                               => \E j \in m + 1 .. i - 1 : Frees(d, j, u, f)'
    BY DEF Announced
  <2>2. CASE m \in 1 .. n
    <3>1. /\ News(d, m) /\ toClient[d][m].data = "AUDIO_SEND_DISABLE"
          /\ u = toClient[d][m].user /\ f = toClient[d][m].floor
      BY <2>1, <2>2, <1>1
    <3>2. toClient[d][m] \in ToClient /\ toClient[d][m].cmd = "SENDVOICE"
      BY <2>2, <3>1 DEF TypeOK, News, Entry
    <3>3. u \in Client /\ f \in Floors
      BY <3>1, <3>2 DEF ToClient, VoicePacket
    <3>4. /\ u # d
          /\ d \in logged => holder[f] = u \/ \E j \in m + 1 .. n : Frees(d, j, u, f)
          /\ \A i \in m + 1 .. n : Grant(d, i) /\ toClient[d][i].floor = f
               => \E j \in m + 1 .. i - 1 : Frees(d, j, u, f)
      BY <1>0, <2>2, <3>1 DEF Good, Announced
    <3>5. /\ \A j \in m + 1 .. n : j \in 1 .. n /\ j \in m + 1 .. Len(toClient'[d])
          /\ \A i \in m + 1 .. Len(toClient'[d]) : i \in 1 .. Len(toClient'[d]) /\ (i \in 1 .. n => i \in m + 1 .. n)
          /\ \A i \in 1 .. n : \A j \in m + 1 .. i - 1 : j \in 1 .. n
          /\ n + 1 \in 1 .. Len(toClient'[d]) => n + 1 \in m + 1 .. Len(toClient'[d])
      BY <1>1, <2>2
    <3>6. d \in logged' => holder'[f] = u \/ \E j \in m + 1 .. Len(toClient'[d]) : Frees(d, j, u, f)'
      <4>1. ASSUME d \in logged', holder[f] = u
            PROVE  holder'[f] = u \/ \E j \in m + 1 .. Len(toClient'[d]) : Frees(d, j, u, f)'
        BY <4>1, <3>3, <3>4, <3>5, <1>15
      <4>2. ASSUME NEW j \in m + 1 .. n, Frees(d, j, u, f)
            PROVE  \E l \in m + 1 .. Len(toClient'[d]) : Frees(d, l, u, f)'
        BY <4>2, <3>5, <1>1
      <4>. QED BY <3>4, <4>1, <4>2
    <3>7. \A i \in m + 1 .. Len(toClient'[d]) : Grant(d, i)' /\ toClient'[d][i].floor = f
            => \E j \in m + 1 .. i - 1 : Frees(d, j, u, f)'
      BY <3>4, <3>5, <1>1, <1>3
    <3>. QED BY <3>4, <3>6, <3>7
  <2>3. CASE m = n + 1 /\ 1 \in 1 .. Len(s) /\ toClient'[d][m] = s[1]
    <3>1. s[1].cmd = "SENDVOICE"
      BY <2>1, <2>3 DEF News, Entry
    <3>2. \A i \in m + 1 .. Len(toClient'[d]) : FALSE
      <4>1. Len(toClient'[d]) = n + 1
        BY <1>1, <2>3
      <4>. QED BY <1>0, <2>3, <4>1
    <3>3. s[1].data = "AUDIO_SEND_DISABLE" /\ s[1].user = u /\ s[1].floor = f
      BY <2>1, <2>3
    <3>4. u # d /\ (d \in logged' => holder'[f] = u)
      BY <2>3, <3>1, <3>3
    <3>. QED BY <3>2, <3>4
  <2>. QED BY <2>2, <2>3, <1>2
<1>18. Consistent(d)'
  BY DEF Good, Consistent
<1>. QED BY <1>9, <1>10, <1>11, <1>12, <1>13, <1>14, <1>16, <1>17, <1>18 DEF Good

\* The same of a single packet.
LEMMA ToldOne ==
  ASSUME TypeOK, NEW d \in Client, Good(d), NEW m \in ToClient,
         toClient'[d] = toClient[d] \o << m >>, link[d] = "up",
         link' = link, audioStatus' = audioStatus, speakerName' = speakerName,
         speakChannel' = speakChannel, openLocalUser' = openLocalUser, app' = app, net' = net,
         \/ toServer'[d] = toServer[d] /\ d \in logged
         \/ toServer[d] # << >> /\ toServer'[d] = Tail(toServer[d]),
         d \in logged' => d \in logged,
         HasFloor(d) => d \in logged' /\ holder'[FloorOf(d, speakChannel[d])] = d,
         \A f \in Floors : holder'[f] = d => d \in logged',
         d \in logged' => \A u \in Client \ {d}, f \in Floors : holder[f] = u =>
           holder'[f] = u \/ m = About("REMOTEUSERQUIT", u) \/ m = Voice(u, f, "AUDIO_SEND_ENABLE"),
         m.cmd \in {"LOGINREFUSED", "USERQUIT"} => d \notin logged',
         m.cmd = "SENDVOICE" =>
           /\ m.user # d
           /\ HasFloor(d) => m.floor # FloorOf(d, speakChannel[d])
           /\ m.data = "AUDIO_SEND_DISABLE" /\ d \in logged' => holder'[m.floor] = m.user
  PROVE  Good(d)'
<1>1. PICK s \in Seq(ToClient) : s = << m >> /\ Len(s) = 1 /\ s[1] = m
  <2>1. << m >> \in Seq(ToClient) /\ Len(<< m >>) = 1 /\ << m >>[1] = m
    OBVIOUS
  <2>. QED BY <2>1
<1>2. toClient'[d] = toClient[d] \o s
  BY <1>1
<1>3. 1 \in 1 .. Len(s) /\ Len(s) \in {0, 1} /\ \A i \in 1 .. Len(s) : s[i] = m
  BY <1>1
<1>4. d \in logged' => \A u \in Client \ {d}, f \in Floors : holder[f] = u =>
        holder'[f] = u \/ \E i \in 1 .. Len(s) :
          s[i] = About("REMOTEUSERQUIT", u) \/ s[i] = Voice(u, f, "AUDIO_SEND_ENABLE")
  BY <1>1, <1>3
<1>5. \A i \in 1 .. Len(s) :
        /\ s[i].cmd \in {"LOGINREFUSED", "USERQUIT"} => d \notin logged'
        /\ s[i].cmd = "SENDVOICE" =>
             /\ s[i].user # d
             /\ HasFloor(d) => s[i].floor # FloorOf(d, speakChannel[d])
             /\ s[i].data = "AUDIO_SEND_DISABLE" /\ d \in logged' => holder'[s[i].floor] = s[i].user
  BY <1>3
<1>. QED BY <1>2, <1>3, <1>4, <1>5, Told

\* What the server reads of c, and that it leaves everything else of a client alone.
LEMMA AskedFacts ==
  ASSUME TypeOK, NEW c \in Client, Good(c), NEW cmd, Asked(c, cmd), Served(c)
  PROVE  /\ link[c] = "up" /\ toServer[c] # << >> /\ 1 \in 1 .. Len(toServer[c])
         /\ toServer[c][1] = Head(toServer[c]) /\ toServer[c][1].cmd = cmd
         /\ toServer[c][1] \in ToServer
         /\ toServer'[c] = Tail(toServer[c])
         /\ \A d \in Client \ {c} : toServer'[d] = toServer[d]
         /\ HasFloor(c) => cmd = "GETUSERLIST"
<1>1. /\ toServer[c] # << >> /\ 1 \in 1 .. Len(toServer[c]) /\ toServer[c][1] = Head(toServer[c])
      /\ Head(toServer[c]) \in ToServer
  BY HeadType DEF TypeOK, Asked
<1>2. link[c] = "up"
  BY <1>1 DEF Asked, Good, Session
<1>3. toServer[c][1].cmd = cmd
  BY <1>1 DEF Asked
<1>4. /\ toServer'[c] = Tail(toServer[c])
      /\ \A d \in Client \ {c} : toServer'[d] = toServer[d]
  BY DEF Served, TypeOK
<1>5. HasFloor(c) => cmd = "GETUSERLIST"
  BY <1>1, <1>3 DEF Good, Owns
<1>. QED BY <1>1, <1>2, <1>3, <1>4, <1>5

\* The server only reads: a packet without effect, and the request of a user list.
LEMMA ServerIgnoreGood ==
  ASSUME TypeOK, IInv, NEW c \in Client, ServerIgnore(c)
  PROVE  IInv'
<1>1. /\ link' = link /\ audioStatus' = audioStatus /\ speakerName' = speakerName
      /\ speakChannel' = speakChannel /\ openLocalUser' = openLocalUser /\ app' = app /\ net' = net
      /\ toClient' = toClient /\ logged' = logged /\ holder' = holder
      /\ Asked(c, "SENDVOICE") /\ Served(c) /\ Good(c)
  BY DEF ServerIgnore, talkVars, threadVars, serverVars, IInv
<1>2. /\ toServer[c] # << >> /\ toServer'[c] = Tail(toServer[c]) /\ ~ HasFloor(c)
      /\ \A d \in Client \ {c} : toServer'[d] = toServer[d]
  BY <1>1, AskedFacts
<1>3. Good(c)'
  <2>1. PICK s \in Seq(ToClient) : s = << >> /\ Len(s) = 0 /\ toClient'[c] = toClient[c] \o s
    BY <1>1, Untold
  <2>2. \A f \in Floors : holder[f] = c => c \in logged
    BY <1>1 DEF Good, Session
  <2>3. \A i \in 1 .. Len(s) : FALSE
    BY <2>1
  <2>. QED BY <1>1, <1>2, <2>1, <2>2, <2>3, Told
<1>4. ASSUME NEW d \in Client \ {c}
      PROVE  Good(d)'
  BY <1>1, <1>2, Frame DEF Same, IInv
<1>. QED BY <1>3, <1>4 DEF IInv

LEMMA ServerUserListGood ==
  ASSUME TypeOK, IInv, NEW c \in Client, ServerUserList(c)
  PROVE  IInv'
<1> DEFINE m == UserList(logged)
<1>1. /\ link' = link /\ audioStatus' = audioStatus /\ speakerName' = speakerName
      /\ speakChannel' = speakChannel /\ openLocalUser' = openLocalUser /\ app' = app /\ net' = net
      /\ logged' = logged /\ holder' = holder
      /\ Asked(c, "GETUSERLIST") /\ Served(c) /\ Good(c) /\ Tell(c, << m >>, << >>)
  BY DEF ServerUserList, talkVars, threadVars, serverVars, IInv
<1>2. /\ toServer[c] # << >> /\ toServer'[c] = Tail(toServer[c]) /\ link[c] = "up"
      /\ \A d \in Client \ {c} : toServer'[d] = toServer[d]
  BY <1>1, AskedFacts
<1>3. Good(c)'
  <2>1. m \in ToClient /\ m.cmd = "UPDATEUSERLIST"
    BY DEF UserList, ToClient, TypeOK
  <2>2. toClient'[c] = toClient[c] \o << m >>
    BY <1>1 DEF Tell
  <2>3. /\ \A f \in Floors : holder[f] = c => c \in logged
        /\ HasFloor(c) => c \in logged /\ holder[FloorOf(c, speakChannel[c])] = c
    BY <1>1 DEF Good, Session, Owns
  <2> HIDE DEF m
  <2>. QED BY <1>1, <1>2, <2>1, <2>2, <2>3, ToldOne
<1>4. ASSUME NEW d \in Client \ {c}
      PROVE  Good(d)'
  <2>1. toClient'[d] = toClient[d]
    BY <1>1 DEF Tell, TypeOK
  <2>. QED BY <1>1, <1>2, <2>1, Frame DEF Same, IInv
<1>. QED BY <1>3, <1>4 DEF IInv

LEMMA ServerRefuseGood ==
  ASSUME TypeOK, IInv, NEW c \in Client, ServerRefuse(c)
  PROVE  IInv'
<1> DEFINE m == Packet("LOGINREFUSED")
<1>1. /\ link' = link /\ audioStatus' = audioStatus /\ speakerName' = speakerName
      /\ speakChannel' = speakChannel /\ openLocalUser' = openLocalUser /\ app' = app /\ net' = net
      /\ logged' = logged /\ holder' = holder
      /\ Asked(c, "LOGINSERVER") /\ Served(c) /\ Good(c) /\ Tell(c, << m >>, << >>)
  BY DEF ServerRefuse, talkVars, threadVars, serverVars, IInv
<1>2. /\ toServer[c] # << >> /\ toServer'[c] = Tail(toServer[c]) /\ link[c] = "up"
      /\ \A d \in Client \ {c} : toServer'[d] = toServer[d]
      /\ 1 \in 1 .. Len(toServer[c]) /\ toServer[c][1].cmd = "LOGINSERVER"
      /\ ~ HasFloor(c)
  BY <1>1, AskedFacts
<1>3. c \notin logged
  BY <1>1, <1>2 DEF Good, Session, Entry
<1>4. Good(c)'
  <2>1. m \in ToClient /\ m.cmd = "LOGINREFUSED"
    BY DEF Packet, ToClient
  <2>2. toClient'[c] = toClient[c] \o << m >>
    BY <1>1 DEF Tell
  <2>3. \A f \in Floors : holder[f] = c => c \in logged
    BY <1>1 DEF Good, Session
  <2> HIDE DEF m
  <2>. QED BY <1>1, <1>2, <1>3, <2>1, <2>2, <2>3, ToldOne
<1>5. ASSUME NEW d \in Client \ {c}
      PROVE  Good(d)'
  <2>1. toClient'[d] = toClient[d]
    BY <1>1 DEF Tell, TypeOK
  <2>. QED BY <1>1, <1>2, <2>1, Frame DEF Same, IInv
<1>. QED BY <1>4, <1>5 DEF IInv

\* c has stopped talking before it asked to leave, and the others learn that it has.
LEMMA ServerQuitGood ==
  ASSUME TypeOK, IInv, NEW c \in Client, ServerQuit(c)
  PROVE  IInv'
<1> DEFINE own == Packet("USERQUIT")
           other == About("REMOTEUSERQUIT", c)
<1>1. /\ link' = link /\ audioStatus' = audioStatus /\ speakerName' = speakerName
      /\ speakChannel' = speakChannel /\ openLocalUser' = openLocalUser /\ app' = app /\ net' = net
      /\ logged' = logged \ {c} /\ holder' = FloorsFreed(c)
      /\ Asked(c, "QUITSERVER") /\ Served(c) /\ Good(c)
      /\ Tell(c, << own >>, IF c \in logged THEN << other >> ELSE << >>)
  BY DEF ServerQuit, talkVars, threadVars, IInv
<1>2. /\ toServer[c] # << >> /\ toServer'[c] = Tail(toServer[c]) /\ link[c] = "up"
      /\ \A d \in Client \ {c} : toServer'[d] = toServer[d]
      /\ ~ HasFloor(c)
  BY <1>1, AskedFacts
<1>3. /\ \A f \in Floors : holder'[f] = IF holder[f] = c THEN NoOne ELSE holder[f]
      /\ \A f \in Floors : holder'[f] # c
      /\ holder' \in [Floors -> Client \cup {NoOne}]
  BY <1>1, IntercomAssumption DEF FloorsFreed, TypeOK
<1>4. Good(c)'
  <2>1. own \in ToClient /\ own.cmd = "USERQUIT"
    BY DEF Packet, ToClient
  <2>2. toClient'[c] = toClient[c] \o << own >> /\ c \notin logged'
    BY <1>1 DEF Tell
  <2> HIDE DEF own
  <2>. QED BY <1>1, <1>2, <1>3, <2>1, <2>2, ToldOne
<1>5. ASSUME NEW d \in Client \ {c}
      PROVE  Good(d)'
  <2>1. Good(d) /\ (d \in logged' <=> d \in logged) /\ toServer'[d] = toServer[d]
    BY <1>1, <1>2 DEF IInv
  <2>2. /\ \A f \in Floors : holder[f] = d => d \in logged /\ holder'[f] = d
        /\ \A f \in Floors : holder'[f] = d => holder[f] = d
        /\ HasFloor(d) => d \in logged /\ holder'[FloorOf(d, speakChannel[d])] = d
        /\ link[d] # "up" => d \notin logged
    BY <2>1, <1>3, IntercomAssumption DEF Good, Session, Owns
  <2>3. CASE {c, d} \subseteq logged
    <3>1. toClient'[d] = toClient[d] \o << other >>
      BY <1>1, <2>3 DEF Tell
    <3>2. other \in ToClient /\ other.cmd = "REMOTEUSERQUIT"
      BY DEF About, ToClient
    <3>3. \A u \in Client \ {d}, f \in Floors : holder[f] = u =>
            holder'[f] = u \/ other = About("REMOTEUSERQUIT", u)
      BY <1>3
    <3> HIDE DEF other
    <3>4. link[d] = "up"
      BY <2>2, <2>3
    <3>. QED BY <1>1, <2>1, <2>2, <2>3, <3>1, <3>2, <3>3, <3>4, ToldOne
  <2>4. CASE c \notin logged
    <3>1. toClient'[d] = toClient[d]
      BY <1>1, <2>4 DEF Tell, TypeOK
    <3>2. holder' = holder
      BY <1>1, <1>3, <2>4 DEF Good, Session, FloorsFreed, TypeOK
    <3>. QED BY <1>1, <2>1, <3>1, <3>2, Frame DEF Same
  <2>5. CASE d \notin logged
    <3>1. toClient'[d] = toClient[d]
      BY <1>1, <2>5 DEF Tell, TypeOK
    <3>2. PICK s \in Seq(ToClient) : s = << >> /\ Len(s) = 0 /\ toClient'[d] = toClient[d] \o s
      BY <3>1, Untold
    <3>3. \A i \in 1 .. Len(s) : FALSE
      BY <3>2
    <3>. QED BY <1>1, <2>1, <2>2, <2>5, <3>2, <3>3, Told
  <2>. QED BY <2>3, <2>4, <2>5
<1>. QED BY <1>4, <1>5 DEF IInv

LEMMA ServerReleaseGood ==
  ASSUME TypeOK, IInv, NEW c \in Client, ServerRelease(c)
  PROVE  IInv'
<1> DEFINE f == Head(toServer[c]).floor
           m == Voice(c, f, "AUDIO_SEND_ENABLE")
<1>1. /\ link' = link /\ audioStatus' = audioStatus /\ speakerName' = speakerName
      /\ speakChannel' = speakChannel /\ openLocalUser' = openLocalUser /\ app' = app /\ net' = net
      /\ logged' = logged /\ c \in logged /\ holder[f] = c
      /\ Asked(c, "SENDVOICE") /\ Served(c) /\ Good(c) /\ Tell(c, << >>, << m >>)
  BY DEF ServerRelease, AskedVoice, talkVars, threadVars, IInv
<1>2. /\ toServer[c] # << >> /\ toServer'[c] = Tail(toServer[c]) /\ link[c] = "up"
      /\ toServer[c][1] = Head(toServer[c]) /\ toServer[c][1] \in ToServer
      /\ toServer[c][1].cmd = "SENDVOICE"
      /\ \A d \in Client \ {c} : toServer'[d] = toServer[d]
      /\ ~ HasFloor(c)
  BY <1>1, AskedFacts
<1>3. f \in Floors
  BY <1>2 DEF ToServer, VoicePacket
<1>4. \A g \in Floors : holder'[g] = IF g = f THEN NoOne ELSE holder[g]
  BY <1>3 DEF ServerRelease, TypeOK
<1>5. Good(c)'
  <2>1. toClient'[c] = toClient[c]
    BY <1>1 DEF Tell, TypeOK
  <2>2. PICK s \in Seq(ToClient) :
          s = << >> /\ Len(s) = 0 /\ (\A i \in 1 .. Len(s) : FALSE) /\ toClient'[c] = toClient[c] \o s
    BY <2>1, Untold
  <2>3. /\ \A u \in Client \ {c}, g \in Floors : holder[g] = u => holder'[g] = u
        /\ \A g \in Floors : holder'[g] = c => c \in logged'
    BY <1>1, <1>4
  <2>4. /\ link' = link /\ audioStatus' = audioStatus /\ speakerName' = speakerName
        /\ speakChannel' = speakChannel /\ openLocalUser' = openLocalUser /\ app' = app /\ net' = net
        /\ logged' = logged /\ Good(c)
    BY <1>1
  <2>. QED BY <1>2, <2>2, <2>3, <2>4, Told
<1>6. ASSUME NEW d \in Client \ {c}
      PROVE  Good(d)'
  <2>1. Good(d) /\ toServer'[d] = toServer[d]
    BY <1>2 DEF IInv
  <2>2. /\ \A g \in Floors : holder[g] = d => d \in logged /\ holder'[g] = d
        /\ \A g \in Floors : holder'[g] = d => holder[g] = d
        /\ HasFloor(d) => /\ d \in logged /\ holder'[FloorOf(d, speakChannel[d])] = d
                          /\ f # FloorOf(d, speakChannel[d])
        /\ link[d] # "up" => d \notin logged
    BY <2>1, <1>1, <1>4, IntercomAssumption DEF Good, Session, Owns
  <2>3. CASE d \in logged
    <3>1. toClient'[d] = toClient[d] \o << m >>
      BY <1>1, <2>3 DEF Tell
    <3>2. m \in ToClient /\ m.cmd = "SENDVOICE" /\ m.user = c /\ m.floor = f /\ m.data = "AUDIO_SEND_ENABLE"
      BY <1>3 DEF Voice, ToClient, VoicePacket, VoiceData
    <3>3. \A u \in Client \ {d}, g \in Floors : holder[g] = u =>
            holder'[g] = u \/ m = Voice(u, g, "AUDIO_SEND_ENABLE")
      BY <1>1, <1>4
    <3> HIDE DEF m, f
    <3>4. (\A g \in Floors : holder'[g] = d => d \in logged') /\ link[d] = "up"
      BY <1>1, <2>2, <2>3
    <3>. QED BY <1>1, <2>1, <2>2, <2>3, <3>1, <3>2, <3>3, <3>4, ToldOne
  <2>4. CASE d \notin logged
    <3>1. toClient'[d] = toClient[d]
      BY <1>1, <2>4 DEF Tell, TypeOK
    <3>2. PICK s \in Seq(ToClient) :
            s = << >> /\ Len(s) = 0 /\ (\A i \in 1 .. Len(s) : FALSE) /\ toClient'[d] = toClient[d] \o s
      BY <3>1, Untold
    <3>. QED BY <1>1, <2>1, <2>2, <2>4, <3>2, Told
  <2>. QED BY <2>3, <2>4
<1>. QED BY <1>5, <1>6 DEF IInv

\* What a user who logs in is told: the server's answer, and who speaks where.
LEMMA ReplayFacts ==
  ASSUME TypeOK, NEW c \in Client, toClient[c] = << >>,
         toClient'[c] = toClient[c] \o (<< Packet("LOGINSERVERED") >> \o Replay(c, Room) \o Replay(c, Group[c]))
  PROVE  \A i \in 1 .. Len(toClient'[c]) :
           LET m == toClient'[c][i] IN
           \/ m.cmd = "LOGINSERVERED"
           \/ /\ m.cmd = "SENDVOICE" /\ m.data = "AUDIO_SEND_DISABLE"
              /\ m.user # c /\ holder[m.floor] = m.user
<1> DEFINE p == Packet("LOGINSERVERED")
           q == << p >> \o Replay(c, Room) \o Replay(c, Group[c])
           P(m) == \/ m.cmd = "LOGINSERVERED"
                   \/ /\ m.cmd = "SENDVOICE" /\ m.data = "AUDIO_SEND_DISABLE"
                      /\ m.user # c /\ holder[m.floor] = m.user
           S == {m \in ToClient : P(m)}
<1>1. p \in S
  BY DEF Packet, ToClient
<1>2. \A f : Replay(c, f) = << >> \/ \E x \in S : Replay(c, f) = << x >>
  <2>1. SUFFICES ASSUME NEW f, f \in Floors, holder[f] \notin {c, NoOne}
                 PROVE  Voice(holder[f], f, "AUDIO_SEND_DISABLE") \in S
    BY DEF Replay
  <2>2. holder[f] \in Client \ {c}
    BY <2>1 DEF TypeOK
  <2>3. Voice(holder[f], f, "AUDIO_SEND_DISABLE") \in ToClient
    BY <2>1, <2>2 DEF Voice, ToClient, VoicePacket, VoiceData
  <2>4. P(Voice(holder[f], f, "AUDIO_SEND_DISABLE"))
    BY <2>2 DEF Voice
  <2>. QED BY <2>3, <2>4
<1>3. S \subseteq ToClient /\ \A x \in S : P(x)
  OBVIOUS
<1> HIDE DEF S
<1>4. Replay(c, Room) \in Seq(S) /\ Replay(c, Group[c]) \in Seq(S) /\ << p >> \in Seq(S)
  <2>1. << >> \in Seq(S) /\ \A x \in S : << x >> \in Seq(S)
    OBVIOUS
  <2>. QED BY <1>1, <1>2, <2>1
<1>5. q \in Seq(S)
  BY <1>4
<1>6. toClient'[c] = q
  BY <1>5
<1> HIDE DEF q
<1>7. \A i \in 1 .. Len(q) : q[i] \in S
  BY <1>5
<1>. QED BY <1>3, <1>6, <1>7

LEMMA ServerLoginGood ==
  ASSUME TypeOK, IInv, NEW c \in Client, ServerLogin(c)
  PROVE  IInv'
<1> DEFINE m == About("REMOTEUSERLOGIN", c)
<1>1. /\ link' = link /\ audioStatus' = audioStatus /\ speakerName' = speakerName
      /\ speakChannel' = speakChannel /\ openLocalUser' = openLocalUser /\ app' = app /\ net' = net
      /\ logged' = logged \cup {c} /\ holder' = FloorsFreed(c)
      /\ Asked(c, "LOGINSERVER") /\ Served(c) /\ Good(c)
  BY DEF ServerLogin, talkVars, threadVars, IInv
<1>2. /\ toServer[c] # << >> /\ toServer'[c] = Tail(toServer[c]) /\ link[c] = "up"
      /\ \A d \in Client \ {c} : toServer'[d] = toServer[d]
      /\ 1 \in 1 .. Len(toServer[c]) /\ toServer[c][1].cmd = "LOGINSERVER"
      /\ ~ HasFloor(c)
  BY <1>1, AskedFacts
<1>3. /\ c \notin logged /\ toClient[c] = << >>
      /\ \A ch \in Channel : speakerName[c][ch] = NoOne
      /\ \A f \in Floors : holder[f] # c
      /\ \A i \in 1 .. Len(toServer[c]) : i # 1 => toServer[c][i].cmd # "LOGINSERVER"
  BY <1>1, <1>2 DEF Good, Session, Entry
<1>4. holder' = holder
  BY <1>1, <1>3 DEF FloorsFreed, TypeOK
<1>5. /\ toClient'[c] = toClient[c] \o (<< Packet("LOGINSERVERED") >> \o Replay(c, Room) \o Replay(c, Group[c]))
      /\ \A d \in Client \ {c} : toClient'[d] = IF d \in logged THEN toClient[d] \o << m >> ELSE toClient[d]
  BY <1>3 DEF ServerLogin, Tell
<1>6. Good(c)'
  <2>4. \A i \in 1 .. Len(toClient'[c]) :
          LET x == toClient'[c][i] IN
          \/ x.cmd = "LOGINSERVERED"
          \/ /\ x.cmd = "SENDVOICE" /\ x.data = "AUDIO_SEND_DISABLE"
             /\ x.user # c /\ holder[x.floor] = x.user
    BY <1>3, <1>5, ReplayFacts
  <2>5. \A i \in 1 .. Len(toClient'[c]) : ~ Grant(c, i)'
    BY <2>4 DEF Grant, News, Entry
  <2>6. /\ Talking(c)' <=> Talking(c)
        /\ \A o : Sending(c, o)' <=> Sending(c, o)
    BY <1>1 DEF Talking, Sending
  <2>7. ~ HasFloor(c)'
    BY <1>1, <1>2, <2>5, <2>6 DEF HasFloor
  <2>8. /\ toServer[c] \in Seq(ToServer) /\ Len(toServer'[c]) = Len(toServer[c]) - 1
        /\ \A i \in 1 .. Len(toServer'[c]) :
             /\ i + 1 \in 1 .. Len(toServer[c]) /\ i + 1 # 1 /\ toServer'[c][i] = toServer[c][i + 1]
             /\ \A j \in i + 1 .. Len(toServer'[c]) : toServer'[c][j] = toServer[c][j + 1] /\ j + 1 \in (i + 1) + 1 .. Len(toServer[c])
    BY <1>2 DEF TypeOK
  <2>9. Session(c)'
    <3>1. \A i \in 1 .. Len(toServer'[c]) : ~ Entry(toServer[c], i, "LOGINSERVER")'
      BY <1>3, <2>8 DEF Entry
    <3>2. \A i \in 1 .. Len(toClient'[c]) : ~ Entry(toClient[c], i, "LOGINREFUSED")' /\ ~ Entry(toClient[c], i, "USERQUIT")'
      BY <2>4 DEF Entry
    <3>. QED BY <1>1, <1>2, <1>3, <1>4, <3>1, <3>2 DEF Session
  <2>10. Requests(c)'
    <3>1. SUFFICES ASSUME NEW i \in 1 .. Len(toServer'[c]), Request(c, i)'
                   PROVE  /\ toServer'[c][i].floor = FloorOf(c, speakChannel[c])
                          /\ \A j \in i + 1 .. Len(toServer'[c]) : toServer'[c][j].cmd = "GETUSERLIST"
                          /\ app[c] = "wait"
      BY <1>1, <2>7 DEF Requests, FloorOf
    <3>2. i + 1 \in 1 .. Len(toServer[c]) /\ Request(c, i + 1)
      BY <3>1, <2>8 DEF Request, Entry
    <3>3. /\ toServer[c][i + 1].floor = FloorOf(c, speakChannel[c]) /\ app[c] = "wait"
          /\ \A j \in (i + 1) + 1 .. Len(toServer[c]) : toServer[c][j].cmd = "GETUSERLIST"
      BY <1>1, <3>2 DEF Good, Requests
    <3>. QED BY <2>8, <3>3
  <2>11. Owns(c)' /\ Grants(c)'
    BY <2>5, <2>7 DEF Owns, Grants
  <2>12. Local(c)'
    BY <1>1, <2>6 DEF Good, Local
  <2>13. Undisturbed(c)' /\ Beliefs(c)' /\ Consistent(c)'
    BY <1>1, <1>3, <2>6, <2>7 DEF Good, Undisturbed, HasFloor, Beliefs, Consistent
  <2>14. Announced(c)'
    BY <1>4, <2>4, <2>5 DEF Announced, News, Entry
  <2>. QED BY <2>9, <2>10, <2>11, <2>12, <2>13, <2>14 DEF Good
<1>7. ASSUME NEW d \in Client \ {c}
      PROVE  Good(d)'
  <2>1. Good(d) /\ (d \in logged' <=> d \in logged) /\ toServer'[d] = toServer[d]
    BY <1>1, <1>2 DEF IInv
  <2>2. CASE d \notin logged
    BY <1>1, <1>4, <1>5, <2>1, <2>2, Frame DEF Same
  <2>3. CASE d \in logged
    <3>1. toClient'[d] = toClient[d] \o << m >>
      BY <1>5, <2>3
    <3>2. m \in ToClient /\ m.cmd = "REMOTEUSERLOGIN"
      BY DEF About, ToClient
    <3>3. /\ HasFloor(d) => d \in logged /\ holder[FloorOf(d, speakChannel[d])] = d
          /\ link[d] = "up"
      BY <2>1, <2>3 DEF Good, Owns, Session
    <3> HIDE DEF m
    <3>. QED BY <1>1, <1>4, <2>1, <2>3, <3>1, <3>2, <3>3, ToldOne
  <2>. QED BY <2>2, <2>3
<1>. QED BY <1>6, <1>7 DEF IInv

\* The floor is granted: to a client that asks for nothing else, and whose
\* former speaker has been announced to have left it.
LEMMA ServerGrantGood ==
  ASSUME TypeOK, IInv, NEW c \in Client, ServerGrant(c)
  PROVE  IInv'
<1> DEFINE own == FloorOf(c, speakChannel[c])
<1>1. PICK f : f = Head(toServer[c]).floor
  OBVIOUS
<1>2. /\ link' = link /\ audioStatus' = audioStatus /\ speakerName' = speakerName
      /\ speakChannel' = speakChannel /\ openLocalUser' = openLocalUser /\ app' = app /\ net' = net
      /\ logged' = logged /\ c \in logged /\ holder[f] = NoOne /\ Good(c)
  BY <1>1 DEF ServerGrant, AskedVoice, talkVars, threadVars, IInv
<1>3. /\ Asked(c, "SENDVOICE") /\ Served(c) /\ Head(toServer[c]).data = "AUDIO_SEND_DISABLE"
      /\ Tell(c, << Voice(c, f, "AUDIO_SEND_ENABLE") >>, << Voice(c, f, "AUDIO_SEND_DISABLE") >>)
  BY <1>1 DEF ServerGrant, AskedVoice
<1>4. /\ toServer[c] # << >> /\ toServer'[c] = Tail(toServer[c]) /\ link[c] = "up"
      /\ toServer[c][1] = Head(toServer[c]) /\ toServer[c][1] \in ToServer
      /\ toServer[c][1].cmd = "SENDVOICE" /\ 1 \in 1 .. Len(toServer[c])
      /\ \A d \in Client \ {c} : toServer'[d] = toServer[d]
      /\ ~ HasFloor(c)
  BY <1>2, <1>3, AskedFacts
<1>5. f \in Floors
  BY <1>1, <1>4 DEF ToServer, VoicePacket
<1>6. \A g \in Floors : holder'[g] = IF g = f THEN c ELSE holder[g]
  BY <1>1, <1>5 DEF ServerGrant, TypeOK
<1>7. Request(c, 1)
  BY <1>3, <1>4 DEF Request, Entry
<1>8. /\ f = own /\ app[c] = "wait"
      /\ \A j \in 1 + 1 .. Len(toServer[c]) : toServer[c][j].cmd = "GETUSERLIST"
  BY <1>1, <1>2, <1>4, <1>7 DEF Good, Requests
<1>9. /\ net[c] = "idle" /\ ~ openLocalUser[c] /\ ~ Talking(c)
      /\ \A ch \in Channel : ~ Sending(c, ch)
      /\ \A i \in 1 .. Len(toClient[c]) : ~ Grant(c, i)
  BY <1>4, <1>8 DEF HasFloor, Talking, Stopping, TypeOK, Net
<1>10. Good(c)'
  <2>1. PICK n \in Nat : n = Len(toClient[c])
    BY DEF TypeOK
  <2>2. PICK m \in ToClient : m = Voice(c, f, "AUDIO_SEND_ENABLE")
    BY <1>5 DEF Voice, ToClient, VoicePacket, VoiceData
  <2>3. toClient'[c] = toClient[c] \o << m >>
    BY <1>3, <2>2 DEF Tell
  <2>4. PICK s \in Seq(ToClient) : s = << m >> /\ Len(s) = 1 /\ s[1] = m
    <3>1. << m >> \in Seq(ToClient) /\ Len(<< m >>) = 1 /\ << m >>[1] = m
      OBVIOUS
    <3>. QED BY <3>1
  <2>5. /\ Len(toClient'[c]) = n + 1 /\ toClient'[c][n + 1] = m
        /\ \A i \in 1 .. n :
             /\ i \in 1 .. Len(toClient'[c])
             /\ toClient'[c][i] = toClient[c][i]
             /\ \A cmd : Entry(toClient[c], i, cmd)' <=> Entry(toClient[c], i, cmd)
             /\ News(c, i)' <=> News(c, i)
             /\ Grant(c, i)' <=> Grant(c, i)
             /\ \A u, g : Frees(c, i, u, g)' <=> Frees(c, i, u, g)
    <3>1. /\ Len(toClient'[c]) = Len(toClient[c]) + Len(s)
          /\ \A i \in 1 .. Len(toClient[c]) :
               /\ i \in 1 .. Len(toClient'[c])
               /\ toClient'[c][i] = toClient[c][i]
               /\ \A cmd : Entry(toClient[c], i, cmd)' <=> Entry(toClient[c], i, cmd)
               /\ News(c, i)' <=> News(c, i)
               /\ Grant(c, i)' <=> Grant(c, i)
               /\ \A u, g : Frees(c, i, u, g)' <=> Frees(c, i, u, g)
          /\ \A i \in 1 .. Len(s) : toClient'[c][Len(toClient[c]) + i] = s[i]
      BY <2>3, <2>4, Append1
    <3>2. 1 \in 1 .. Len(s) /\ Len(toClient'[c]) = n + 1
      BY <2>1, <2>4, <3>1
    <3>. QED BY <2>1, <2>4, <3>1, <3>2
  <2>6. /\ \A i \in 1 .. Len(toClient'[c]) : i \in 1 .. n \/ i = n + 1
        /\ n + 1 \in 1 .. Len(toClient'[c])
    BY <2>5
  <2>7. m.cmd = "SENDVOICE" /\ m.user = c /\ m.floor = f /\ m.data = "AUDIO_SEND_ENABLE"
    BY <2>2 DEF Voice
  <2>8. \A i \in 1 .. Len(toClient'[c]) : Grant(c, i)' => i = n + 1
    BY <1>9, <2>1, <2>5, <2>6
  <2>9. /\ Talking(c)' <=> Talking(c)
        /\ \A o : Sending(c, o)' <=> Sending(c, o)
        /\ \A o : FloorOf(c, o)' = FloorOf(c, o)
    BY <1>2 DEF Talking, Sending, FloorOf
  <2>10. \A i \in 1 .. Len(toServer'[c]) : toServer'[c][i].cmd = "GETUSERLIST"
    <3>1. toServer[c] \in Seq(ToServer)
      BY DEF TypeOK
    <3>2. \A i \in 1 .. Len(toServer'[c]) : i + 1 \in 1 + 1 .. Len(toServer[c]) /\ toServer'[c][i] = toServer[c][i + 1]
      BY <1>4, <3>1
    <3>. QED BY <1>8, <3>2
  <2>11. Session(c)'
    <3>1. \A i \in 1 .. Len(toClient'[c]) : ~ Entry(toClient[c], i, "LOGINREFUSED")' /\ ~ Entry(toClient[c], i, "USERQUIT")'
      BY <1>2, <2>1, <2>5, <2>6, <2>7 DEF Good, Session, Entry
    <3>. QED BY <1>2, <1>4, <2>10, <3>1 DEF Session, Entry
  <2>12. Requests(c)'
    BY <2>10 DEF Requests, Request, Entry
  <2>13. Owns(c)'
    BY <1>2, <1>5, <1>6, <1>8, <2>9, <2>10 DEF Owns
  <2>14. Grants(c)'
    <3>1. \A j \in (n + 1) + 1 .. Len(toClient'[c]) : FALSE
      BY <2>5
    <3>. QED BY <1>2, <1>8, <1>9, <2>2, <2>5, <2>8, <2>9, <3>1 DEF Grants
  <2>15. Local(c)' /\ Undisturbed(c)' /\ Consistent(c)'
    BY <1>2, <1>9, <2>9 DEF Good, Local, Undisturbed, Consistent
  <2>16. Beliefs(c)'
    <3>1. SUFFICES ASSUME NEW ch \in Channel, speakerName[c][ch] # NoOne,
                          NEW u, u = speakerName[c][ch], NEW g, g = FloorOf(c, ch)
                   PROVE  /\ u # c /\ g \in Floors
                          /\ holder'[g] = u \/ \E j \in 1 .. Len(toClient'[c]) : Frees(c, j, u, g)'
                          /\ \A i \in 1 .. Len(toClient'[c]) : Grant(c, i)' /\ toClient'[c][i].floor = g
                               => \E j \in 1 .. i - 1 : Frees(c, j, u, g)'
      BY <1>2, <2>9 DEF Beliefs, Believed
    <3>2. /\ u # c /\ g \in Floors
          /\ holder[g] = u \/ \E j \in 1 .. n : Frees(c, j, u, g)
      BY <1>2, <2>1, <3>1 DEF Good, Beliefs, Believed
    <3>3. g = f => \E j \in 1 .. n : Frees(c, j, u, g)
      BY <1>2, <3>1, <3>2
    <3>4. holder'[g] = u \/ \E j \in 1 .. Len(toClient'[c]) : Frees(c, j, u, g)'
      BY <1>6, <2>5, <3>2, <3>3
    <3>5. ASSUME NEW i \in 1 .. Len(toClient'[c]), Grant(c, i)', toClient'[c][i].floor = g
          PROVE  \E j \in 1 .. i - 1 : Frees(c, j, u, g)'
      <4>1. i = n + 1 /\ g = f
        BY <2>5, <2>7, <2>8, <3>5
      <4>2. PICK j \in 1 .. n : Frees(c, j, u, g)
        BY <3>3, <4>1
      <4>3. j \in 1 .. i - 1
        BY <4>1
      <4>. QED BY <2>5, <4>2, <4>3
    <3>. QED BY <3>2, <3>4, <3>5
  <2>17. Announced(c)'
    <3>1. SUFFICES ASSUME NEW k \in 1 .. Len(toClient'[c]), News(c, k)',
                          toClient'[c][k].data = "AUDIO_SEND_DISABLE",
                          NEW u, u = toClient'[c][k].user, NEW g, g = toClient'[c][k].floor
                   PROVE  /\ u # c
                          /\ holder'[g] = u \/ \E j \in k + 1 .. Len(toClient'[c]) : Frees(c, j, u, g)'
                          /\ \A i \in k + 1 .. Len(toClient'[c]) :
                               Grant(c, i)' /\ toClient'[c][i].floor = g
                                 => \E j \in k + 1 .. i - 1 : Frees(c, j, u, g)'
      BY DEF Announced
    <3>2. /\ k \in 1 .. n /\ News(c, k) /\ toClient[c][k].data = "AUDIO_SEND_DISABLE"
          /\ u = toClient[c][k].user /\ g = toClient[c][k].floor
      BY <2>5, <2>6, <2>7, <3>1
    <3>3. u \in Client /\ g \in Floors
      <4>1. toClient[c][k] \in ToClient /\ toClient[c][k].cmd = "SENDVOICE"
        BY <2>1, <3>2 DEF TypeOK, News, Entry
      <4>. QED BY <3>2, <4>1 DEF ToClient, VoicePacket
    <3>4. /\ u # c
          /\ holder[g] = u \/ \E j \in k + 1 .. n : Frees(c, j, u, g)
      BY <1>2, <2>1, <3>2 DEF Good, Announced
    <3>5. \A j \in k + 1 .. n : j \in 1 .. n /\ j \in k + 1 .. Len(toClient'[c])
      BY <2>5, <3>2
    <3>6. g = f => \E j \in k + 1 .. n : Frees(c, j, u, g)
      BY <1>2, <3>3, <3>4, IntercomAssumption
    <3>7. holder'[g] = u \/ \E j \in k + 1 .. Len(toClient'[c]) : Frees(c, j, u, g)'
      BY <1>6, <2>5, <3>3, <3>4, <3>5, <3>6
    <3>8. ASSUME NEW i \in k + 1 .. Len(toClient'[c]), Grant(c, i)', toClient'[c][i].floor = g
          PROVE  \E j \in k + 1 .. i - 1 : Frees(c, j, u, g)'
      <4>1. i = n + 1 /\ g = f
        BY <2>5, <2>7, <2>8, <3>2, <3>8
      <4>2. PICK j \in k + 1 .. n : Frees(c, j, u, g)
        BY <3>6, <4>1
      <4>3. j \in k + 1 .. i - 1
        BY <4>1
      <4>. QED BY <2>5, <3>5, <4>2, <4>3
    <3>. QED BY <3>4, <3>7, <3>8
  <2>. QED BY <2>11, <2>12, <2>13, <2>14, <2>15, <2>16, <2>17 DEF Good
<1>11. ASSUME NEW d \in Client \ {c}
       PROVE  Good(d)'
  <2>1. Good(d) /\ toServer'[d] = toServer[d]
    BY <1>4 DEF IInv
  <2>2. /\ \A g \in Floors : holder[g] = d => d \in logged /\ holder'[g] = d
        /\ \A g \in Floors : holder'[g] = d => holder[g] = d /\ d \in logged'
        /\ HasFloor(d) => /\ d \in logged /\ holder'[FloorOf(d, speakChannel[d])] = d
                          /\ f # FloorOf(d, speakChannel[d])
        /\ link[d] # "up" => d \notin logged
        /\ \A u \in Client \ {d}, g \in Floors : holder[g] = u => holder'[g] = u
    BY <2>1, <1>2, <1>6, IntercomAssumption DEF Good, Session, Owns
  <2>3. /\ link' = link /\ audioStatus' = audioStatus /\ speakerName' = speakerName
        /\ speakChannel' = speakChannel /\ openLocalUser' = openLocalUser /\ app' = app /\ net' = net
        /\ logged' = logged
    BY <1>2
  <2>4. CASE d \in logged
    <3>1. PICK m : m = Voice(c, f, "AUDIO_SEND_DISABLE")
      OBVIOUS
    <3>2. toClient'[d] = toClient[d] \o << m >>
      BY <1>3, <2>4, <3>1 DEF Tell
    <3>3. m \in ToClient /\ m.cmd = "SENDVOICE" /\ m.user = c /\ m.floor = f /\ m.data = "AUDIO_SEND_DISABLE"
      BY <1>5, <3>1 DEF Voice, ToClient, VoicePacket, VoiceData
    <3>4. holder'[m.floor] = m.user /\ link[d] = "up"
      BY <1>5, <1>6, <2>2, <2>4, <3>3
    <3>5. m.user # d /\ (HasFloor(d) => m.floor # FloorOf(d, speakChannel[d]))
      BY <2>2, <3>3
    <3>. QED BY <2>1, <2>2, <2>3, <2>4, <3>2, <3>3, <3>4, <3>5, ToldOne
  <2>5. CASE d \notin logged
    <3>1. toClient'[d] = toClient[d]
      BY <1>3, <2>5 DEF Tell, TypeOK
    <3>2. PICK s \in Seq(ToClient) :
            s = << >> /\ Len(s) = 0 /\ (\A i \in 1 .. Len(s) : FALSE) /\ toClient'[d] = toClient[d] \o s
      BY <3>1, Untold
    <3>. QED BY <2>1, <2>2, <2>3, <2>5, <3>2, Told
  <2>. QED BY <2>4, <2>5
<1>. QED BY <1>10, <1>11 DEF IInv

-----------------------------------------------------------------------------
(* The whole system.                                                       *)

\* A client's own step leaves the other clients and the server's state alone.
LEMMA OthersSame ==
  ASSUME TypeOK, NEW c \in Client, NEW d \in Client \ {c}, ~ LoginRefusedOrUserQuit(c),
         AppStep(c) \/ Wake(c) \/ NetStep(c)
  PROVE  Same(d) /\ holder' = holder /\ logged' = logged
<1>1. CASE Login(c)
  BY <1>1 DEF Login, Same, TypeOK, threadVars, queueVars, serverVars
<1>2. ASSUME NEW ch \in Channel, StartSendAudio(c, ch)
      PROVE  Same(d) /\ holder' = holder /\ logged' = logged
  <2>1. toServer'[d] = toServer[d]
    <3>1. CASE MayStart(c, ch)
      BY <1>2, <3>1, SendVoiceFacts DEF StartSendAudio, VoiceData
    <3>2. CASE ~ MayStart(c, ch)
      BY <1>2, <3>2 DEF StartSendAudio
    <3>. QED BY <3>1, <3>2
  <2>. QED BY <1>2, <2>1 DEF StartSendAudio, Same, TypeOK, rosterVars, serverVars
<1>3. ASSUME NEW q \in BOOLEAN, StopSendAudio(c, q)
      PROVE  Same(d) /\ holder' = holder /\ logged' = logged
  <2>1. toServer'[d] = toServer[d]
    BY <1>3, SendVoiceFacts DEF StopSendAudio, VoiceData, TypeOK
  <2>. QED BY <1>3, <2>1 DEF StopSendAudio, Same, TypeOK, talkVars, rosterVars, serverVars
<1>4. CASE StopCheck(c)
  BY <1>4 DEF StopCheck, Same, TypeOK, talkVars, queueVars, serverVars
<1>5. ASSUME NEW ch \in Channel, StopWrite(c, ch)
      PROVE  Same(d) /\ holder' = holder /\ logged' = logged
  BY <1>5 DEF StopWrite, Same, TypeOK, queueVars, serverVars
<1>6. CASE StopClose(c)
  BY <1>6 DEF StopClose, Same, TypeOK, queueVars, serverVars
<1>7. CASE Quit(c)
  <2>1. toServer'[d] = toServer[d]
    BY <1>7 DEF Quit, Sent, TypeOK
  <2>. QED BY <1>7, <2>1 DEF Quit, Same, TypeOK, serverVars
<1>8. CASE Wake(c)
  BY <1>8 DEF Wake, Same, TypeOK, talkVars, queueVars, serverVars
<1>9. CASE Connected(c)
  BY <1>9 DEF Connected, LoginServer, Same, TypeOK, threadVars, serverVars
<1>10. CASE LoginServered(c)
  <2>1. toServer'[d] = toServer[d]
    BY <1>10 DEF LoginServered, Sent, TypeOK
  <2>. QED BY <1>10, <2>1 DEF LoginServered, Handled, Same, TypeOK, talkVars, threadVars, serverVars
<1>11. CASE RemoteUserLogin(c) \/ UpdateUserList(c)
  BY <1>11 DEF RemoteUserLogin, UpdateUserList, Handled, Same, TypeOK, talkVars, threadVars, serverVars
<1>12. CASE RemoteUserQuit(c)
  BY <1>12 DEF RemoteUserQuit, Handled, Same, TypeOK, threadVars, serverVars
<1>13. CASE VoiceIgnored(c)
  BY <1>13 DEF VoiceIgnored, Handled, Same, TypeOK, talkVars, threadVars, serverVars
<1>14. CASE VoiceGranted(c)
  BY <1>14 DEF VoiceGranted, Handled, Same, TypeOK, serverVars
<1>15. CASE OpenMediaSender(c)
  BY <1>15 DEF OpenMediaSender, Same, TypeOK, queueVars, serverVars
<1>16. CASE VoiceEnable(c)
  BY <1>16 DEF VoiceEnable, Handled, Same, TypeOK, threadVars, serverVars
<1>17. CASE VoiceDisable(c)
  BY <1>17 DEF VoiceDisable, Handled, Same, TypeOK, threadVars, serverVars
<1>. QED BY <1>1, <1>2, <1>3, <1>4, <1>5, <1>6, <1>7, <1>8, <1>9, <1>10, <1>11, <1>12,
            <1>13, <1>14, <1>15, <1>16, <1>17 DEF AppStep, NetStep

LEMMA ClientStepGood ==
  ASSUME TypeOK, IInv, NEW c \in Client, AppStep(c) \/ (Answered(c) /\ Wake(c)) \/ NetStep(c)
  PROVE  IInv'
<1>1. Good(c)
  BY DEF IInv
<1>2. CASE LoginRefusedOrUserQuit(c)
  <2>1. /\ Good(c)' /\ holder' = holder /\ logged' = logged
        /\ \A d \in Client \ {c} : Same(d)
    BY <1>1, <1>2, LoginRefusedOrUserQuitGood
  <2>2. \A d \in Client \ {c} : Good(d)'
    BY <2>1, Frame DEF IInv
  <2>. QED BY <2>1, <2>2 DEF IInv
<1>3. CASE ~ LoginRefusedOrUserQuit(c)
  <2>1. Good(c)'
    <3>1. CASE AppStep(c)
      BY <1>1, <3>1, LoginGood, StartGood, StopGood, StopStepGood, QuitGood DEF AppStep
    <3>2. CASE Answered(c) /\ Wake(c)
      BY <1>1, <3>2, WakeGood
    <3>3. CASE NetStep(c)
      BY <1>1, <1>3, <3>3, ConnectedGood, RosterGood, RemoteUserQuitGood, VoiceIgnoredGood,
         VoiceGrantedGood, OpenMediaSenderGood, VoiceEnableGood, VoiceDisableGood DEF NetStep
    <3>. QED BY <3>1, <3>2, <3>3
  <2>2. \A d \in Client \ {c} : Good(d)'
    BY <1>3, OthersSame, Frame DEF IInv
  <2>. QED BY <2>1, <2>2 DEF IInv
<1>. QED BY <1>2, <1>3

LEMMA InitGood == Init => IInv
<1>1. SUFFICES ASSUME Init, NEW c \in Client
               PROVE  Good(c)
  BY DEF IInv
<1>2. /\ link[c] = "none" /\ toServer[c] = << >> /\ toClient[c] = << >> /\ logged = {}
      /\ app[c] = "idle" /\ net[c] = "idle" /\ openLocalUser[c] = FALSE
      /\ \A ch \in Channel : audioStatus[c][ch] = "AUDIO_SEND_ENABLE" /\ speakerName[c][ch] = NoOne
      /\ \A f \in Floors : holder[f] = NoOne
  BY <1>1 DEF Init
<1>3. Len(toServer[c]) = 0 /\ Len(toClient[c]) = 0
  BY <1>2
<1>4. ~ HasFloor(c) /\ \A ch \in Channel : ~ Sending(c, ch)
  BY <1>2, <1>3 DEF HasFloor, Talking, Sending
<1>5. Session(c) /\ Requests(c) /\ Grants(c) /\ Announced(c)
  BY <1>2, <1>3, IntercomAssumption DEF Session, Requests, Grants, Announced
<1>6. Owns(c) /\ Local(c) /\ Undisturbed(c) /\ Beliefs(c) /\ Consistent(c)
  BY <1>2, <1>4 DEF Owns, Local, Talking, Stopping, Undisturbed, Beliefs, Consistent
<1>. QED BY <1>5, <1>6 DEF Good

LEMMA StepGood ==
  ASSUME TypeOK, IInv, [PromptNext]_vars
  PROVE  IInv'
<1>1. CASE UNCHANGED vars
  BY <1>1, Frame DEF vars, talkVars, rosterVars, threadVars, queueVars, serverVars, Same, IInv
<1>2. ASSUME NEW c \in Client, PromptStep(c)
      PROVE  IInv'
  BY <1>2, ClientStepGood, ServerLoginGood, ServerRefuseGood, ServerUserListGood, ServerQuitGood,
     ServerGrantGood, ServerReleaseGood, ServerIgnoreGood DEF PromptStep, ServerStep
<1>. QED BY <1>1, <1>2 DEF PromptNext

\* The inductive invariant: with a network that answers in time, what each
\* client believes, asks for and is told agrees with who holds the floors.
THEOREM FloorInvariant == PromptSpec => []IInv
<1>1. TypeOK /\ IInv /\ [PromptNext]_vars => IInv'
  BY StepGood
<1>. QED BY <1>1, InitGood, PromptTypes, PTL DEF PromptSpec

\* Nobody talks on a floor that the server has not granted to it, however the
\* users press their buttons, join, leave and are announced.
THEOREM TalkersHoldTheirFloors == PromptSpec => []TalkerHoldsFloor
<1>1. IInv => TalkerHoldsFloor
  BY DEF IInv, Good, Owns, HasFloor, TalkerHoldsFloor, TalksOn
<1>. QED BY <1>1, FloorInvariant, PTL

\* No manager is deleted with its microphone open, whoever logs out or is refused, when
\* the network answers within the time that an application waits after a request: who
\* reads the end of its session has lost its floors, and who talks has one.
THEOREM NothingOrphaned == PromptSpec => []NoOrphan
<1>1. Init => NoOrphan
  BY DEF Init, NoOrphan
<1>2. ASSUME TypeOK, IInv, NoOrphan, [PromptNext]_vars
      PROVE  NoOrphan'
  <2>1. CASE UNCHANGED vars
    BY <1>2, <2>1 DEF vars, NoOrphan
  <2>2. ASSUME NEW c \in Client, LoginRefusedOrUserQuit(c)
        PROVE  NoOrphan'
    <3>1. /\ toClient[c] # << >> /\ app[c] \notin Stopping /\ openLocalUser' = openLocalUser
          /\ Entry(toClient[c], 1, "LOGINREFUSED") \/ Entry(toClient[c], 1, "USERQUIT")
          /\ orphan' = [orphan EXCEPT ![c] = @ \/ openLocalUser'[c]]
      BY <1>2, <2>2 DEF LoginRefusedOrUserQuit, Teardown, Receives, Entry, TypeOK
    <3>2. c \notin logged
      BY <1>2, <3>1 DEF IInv, Good, Session, Entry
    <3>3. ~ openLocalUser[c]
      BY <1>2, <3>1, <3>2 DEF IInv, Good, Owns, HasFloor, Talking
    <3>. QED BY <1>2, <3>1, <3>3 DEF NoOrphan, TypeOK
  <2>3. ASSUME NEW c \in Client, PromptStep(c), ~ LoginRefusedOrUserQuit(c)
        PROVE  NoOrphan'
    <3>1. orphan' = orphan
      BY <2>3 DEF PromptStep, AppStep, Login, StartSendAudio, StopSendAudio, StopCheck, StopWrite,
         StopClose, Quit, Wake, NetStep, Connected, LoginServer, LoginServered, RemoteUserLogin,
         RemoteUserQuit, UpdateUserList, VoiceIgnored, VoiceGranted, OpenMediaSender, VoiceEnable,
         VoiceDisable, ServerStep, ServerLogin, ServerRefuse, ServerUserList, ServerQuit,
         ServerGrant, ServerRelease, ServerIgnore
    <3>. QED BY <1>2, <3>1 DEF NoOrphan
  <2>. QED BY <1>2, <2>1, <2>2, <2>3 DEF PromptNext
<1>3. TypeOK /\ IInv /\ NoOrphan /\ [PromptNext]_vars => NoOrphan'
  BY <1>2
<1>. QED BY <1>1, <1>3, FloorInvariant, PromptTypes, PTL DEF PromptSpec

-----------------------------------------------------------------------------
(* The push-to-talk client implements Floor.tla when the network answers   *)
(* in time: every step is a step of the floors or leaves them unchanged.   *)

floorVars == <<holder, talking>>

\* Only the holder of a floor talks on it, and it is one of the floors.
LEMMA TalkersOf ==
  ASSUME IInv
  PROVE  /\ \A f \in Floors : talking[f] = {c \in Client : Talking(c) /\ TalksOn(c) = f}
         /\ \A c \in Client : Talking(c) =>
              /\ TalksOn(c) \in Floors /\ holder[TalksOn(c)] = c
              /\ talking[TalksOn(c)] = {c}
<1>1. \A f \in Floors : talking[f] = {c \in Client : Talking(c) /\ TalksOn(c) = f}
  BY DEF talking
<1>2. \A c \in Client : Talking(c) => TalksOn(c) \in Floors /\ holder[TalksOn(c)] = c
  BY DEF IInv, Good, Owns, HasFloor, TalksOn
<1>3. ASSUME NEW c \in Client, Talking(c)
      PROVE  talking[TalksOn(c)] = {c}
  BY <1>1, <1>2, <1>3
<1>. QED BY <1>1, <1>2, <1>3

\* Nobody starts or stops talking.
Steady(c) == (Talking(c)' <=> Talking(c)) /\ (Talking(c) => TalksOn(c)' = TalksOn(c))

LEMMA AllSteady ==
  ASSUME \A c \in Client : Steady(c)
  PROVE  talking' = talking
<1>1. \A f \in Floors : {c \in Client : Talking(c) /\ TalksOn(c) = f}'
                          = {c \in Client : Talking(c) /\ TalksOn(c) = f}
  BY DEF Steady
<1>. QED BY <1>1 DEF talking

LEMMA SameIsSteady ==
  ASSUME NEW d \in Client, Same(d)
  PROVE  Steady(d)
BY DEF Same, Steady, Talking, TalksOn, FloorOf

\* One client's own step: it starts to talk, it stops, or neither.
LEMMA OwnStep ==
  ASSUME TypeOK, IInv, NEW c \in Client, \A d \in Client \ {c} : Same(d), holder' = holder,
         \/ Steady(c)
         \/ Talking(c)' /\ TalksOn(c)' = TalksOn(c) /\ holder[TalksOn(c)] = c
              /\ TalksOn(c) \in Floors
         \/ Talking(c) /\ ~ Talking(c)'
  PROVE  [F!Next]_floorVars
<1>1. \A d \in Client \ {c} : Steady(d)
  BY SameIsSteady
<1>2. CASE Steady(c)
  BY <1>1, <1>2, AllSteady DEF floorVars
<1> DEFINE g == TalksOn(c)
<1>3. PICK f : f = g
  OBVIOUS
<1>4. \A h \in Floors : /\ talking[h] = {d \in Client : Talking(d) /\ TalksOn(d) = h}
                        /\ talking'[h] = {d \in Client : Talking(d)' /\ TalksOn(d)' = h}
  BY DEF talking
<1>5. \A h \in Floors : \A d \in Client \ {c} : d \in talking'[h] <=> d \in talking[h]
  BY <1>1, <1>4 DEF Steady
<1>6. talking \in [Floors -> SUBSET Client] /\ talking' \in [Floors -> SUBSET Client]
  BY DEF talking
<1>7. CASE Talking(c)' /\ TalksOn(c)' = TalksOn(c) /\ holder[TalksOn(c)] = c /\ TalksOn(c) \in Floors
  <2>1. \A d \in talking[f] : d = c
    BY <1>3, <1>4, <1>7, TalkersOf
  <2>2. talking'[f] = {c}
    BY <1>3, <1>4, <1>5, <1>7, <2>1
  <2>3. \A h \in Floors \ {f} : talking'[h] = talking[h]
    <3>1. \A h \in Floors \ {f} : c \notin talking[h] /\ c \notin talking'[h]
      BY <1>3, <1>4, <1>7
    <3>2. \A h \in Floors \ {f} : \A d \in Client : d \in talking'[h] <=> d \in talking[h]
      BY <1>5, <3>1
    <3>3. \A h \in Floors : talking[h] \subseteq Client /\ talking'[h] \subseteq Client
      BY <1>6
    <3>. QED BY <3>2, <3>3
  <2>4. talking' = [talking EXCEPT ![f] = {c}]
    BY <1>6, <2>2, <2>3
  <2>5. F!Talk(c, f) /\ f \in Floors
    BY <1>3, <1>7, <2>4 DEF F!Talk
  <2>. QED BY <2>5 DEF F!Next
<1>8. CASE Talking(c) /\ ~ Talking(c)'
  <2>1. f \in Floors /\ talking[f] = {c}
    BY <1>3, <1>8, TalkersOf
  <2>2. talking'[f] = {}
    BY <1>4, <1>5, <1>6, <1>8, <2>1
  <2>3. \A h \in Floors \ {f} : talking'[h] = talking[h]
    <3>1. \A h \in Floors \ {f} : c \notin talking[h] /\ c \notin talking'[h]
      BY <1>3, <1>4, <1>8
    <3>2. \A h \in Floors \ {f} : \A d \in Client : d \in talking'[h] <=> d \in talking[h]
      BY <1>5, <3>1
    <3>3. \A h \in Floors : talking[h] \subseteq Client /\ talking'[h] \subseteq Client
      BY <1>6
    <3>. QED BY <3>2, <3>3
  <2>4. talking' = [talking EXCEPT ![f] = {}]
    BY <1>6, <2>2, <2>3
  <2>5. F!Hush(c, f)
    BY <2>1, <2>4 DEF F!Hush
  <2>. QED BY <2>1, <2>5 DEF F!Next
<1>. QED BY <1>2, <1>7, <1>8

LEMMA ClientStepImplements ==
  ASSUME TypeOK, IInv, NEW c \in Client, AppStep(c) \/ (Answered(c) /\ Wake(c)) \/ NetStep(c)
  PROVE  [F!Next]_floorVars
<1>1. Good(c)
  BY DEF IInv
<1>2. CASE LoginRefusedOrUserQuit(c)
  <2>1. holder' = holder /\ \A d \in Client \ {c} : Same(d)
    BY <1>1, <1>2, LoginRefusedOrUserQuitGood
  <2>2. Steady(c)
    BY <1>2 DEF LoginRefusedOrUserQuit, Teardown, threadVars, Steady, Talking, TalksOn, FloorOf
  <2>. QED BY <2>1, <2>2, OwnStep
<1>3. CASE ~ LoginRefusedOrUserQuit(c)
  <2>1. holder' = holder
    <3>1. CASE \E d \in Client : d # c
      BY <1>3, <3>1, OthersSame
    <3>2. CASE \A d \in Client : d = c
      BY <1>3 DEF AppStep, Login, StartSendAudio, StopSendAudio, StopCheck, StopWrite, StopClose,
         Quit, Wake, NetStep, Connected, LoginServer, LoginServered, RemoteUserLogin,
         RemoteUserQuit, UpdateUserList, VoiceIgnored, VoiceGranted, OpenMediaSender, VoiceEnable,
         VoiceDisable, serverVars
    <3>. QED BY <3>1, <3>2
  <2>2. \A d \in Client \ {c} : Same(d)
    BY <1>3, OthersSame
  <2>3. CASE Login(c)
    <3>1. ~ Talking(c)
      BY <1>1, <2>3 DEF Login, Good, Session, Owns, HasFloor
    <3>2. ~ Talking(c)'
      BY <2>3 DEF Login, Talking, TypeOK
    <3>. QED BY <2>1, <2>2, <3>1, <3>2, OwnStep DEF Steady
  <2>4. ASSUME NEW ch \in Channel, StartSendAudio(c, ch)
        PROVE  [F!Next]_floorVars
    <3>1. /\ openLocalUser' = openLocalUser /\ app[c] = "idle" /\ app'[c] = "wait"
          /\ speakChannel' = speakChannel \/ MayStart(c, ch)
      BY <2>4 DEF StartSendAudio, TypeOK
    <3>2. MayStart(c, ch) => ~ Talking(c)
      BY <1>1, <3>1 DEF MayStart, Good, Local, Sending, TypeOK
    <3>3. Steady(c)
      BY <3>1, <3>2 DEF Steady, Talking, TalksOn, FloorOf, Stopping
    <3>. QED BY <2>1, <2>2, <3>3, OwnStep
  <2>5. ASSUME NEW q \in BOOLEAN, StopSendAudio(c, q)
        PROVE  [F!Next]_floorVars
    <3>1. ~ Talking(c)'
      BY <2>5 DEF StopSendAudio, Talking, Stopping, TypeOK
    <3>. QED BY <2>1, <2>2, <3>1, OwnStep DEF Steady
  <2>6. CASE StopCheck(c) \/ StopClose(c) \/ Quit(c) \/ \E ch \in Channel : StopWrite(c, ch)
    <3>1. ~ Talking(c) /\ ~ Talking(c)'
      BY <2>6 DEF StopCheck, StopClose, StopWrite, Quit, Talking, Stopping, TypeOK, talkVars
    <3>. QED BY <2>1, <2>2, <3>1, OwnStep DEF Steady
  <2>7. CASE Wake(c)
    <3>1. Steady(c)
      BY <2>7 DEF Wake, Steady, Talking, TalksOn, FloorOf, Stopping, TypeOK, talkVars
    <3>. QED BY <2>1, <2>2, <3>1, OwnStep
  <2>8. CASE OpenMediaSender(c)
    <3>1. /\ HasFloor(c) /\ app[c] = "wait" /\ openLocalUser'[c] = TRUE /\ app' = app
          /\ speakChannel' = speakChannel
      BY <1>1, <2>8 DEF OpenMediaSender, Good, Local, HasFloor, TypeOK
    <3>2. Talking(c)' /\ TalksOn(c)' = TalksOn(c)
      BY <3>1 DEF Talking, TalksOn, FloorOf, Stopping
    <3>3. TalksOn(c) \in Floors /\ holder[TalksOn(c)] = c
      BY <1>1, <3>1 DEF Good, Owns, TalksOn
    <3>. QED BY <2>1, <2>2, <3>2, <3>3, OwnStep
  <2>9. CASE Connected(c) \/ LoginServered(c) \/ RemoteUserLogin(c) \/ RemoteUserQuit(c)
               \/ UpdateUserList(c) \/ VoiceIgnored(c) \/ VoiceGranted(c) \/ VoiceEnable(c)
               \/ VoiceDisable(c)
    <3>1. openLocalUser' = openLocalUser /\ app' = app /\ speakChannel' = speakChannel
      BY <2>9 DEF Connected, LoginServer, LoginServered, RemoteUserLogin, RemoteUserQuit,
         UpdateUserList, VoiceIgnored, VoiceGranted, VoiceEnable, VoiceDisable, talkVars, threadVars
    <3>2. Steady(c)
      BY <3>1 DEF Steady, Talking, TalksOn, FloorOf
    <3>. QED BY <2>1, <2>2, <3>2, OwnStep
  <2>. QED BY <1>3, <2>3, <2>4, <2>5, <2>6, <2>7, <2>8, <2>9 DEF AppStep, NetStep
<1>. QED BY <1>2, <1>3

LEMMA Freed ==
  ASSUME NEW c \in Client
  PROVE  \E S \in SUBSET Floors :
           /\ \A f \in S : holder[f] = c
           /\ FloorsFreed(c) = [f \in Floors |-> IF f \in S THEN NoOne ELSE holder[f]]
<1> DEFINE S == {f \in Floors : holder[f] = c}
<1>1. FloorsFreed(c) = [f \in Floors |-> IF f \in S THEN NoOne ELSE holder[f]]
  BY DEF FloorsFreed
<1>. QED BY <1>1

\* A step of the server: a floor is granted, or taken back from somebody silent.
LEMMA ServerStepImplements ==
  ASSUME TypeOK, IInv, NEW c \in Client, ServerStep(c)
  PROVE  [F!Next]_floorVars
<1>0. Good(c)
  BY DEF IInv
<1>1. talking' = talking
  <2>1. openLocalUser' = openLocalUser /\ app' = app /\ speakChannel' = speakChannel
    BY DEF ServerStep, ServerLogin, ServerRefuse, ServerUserList, ServerQuit, ServerGrant,
       ServerRelease, ServerIgnore, talkVars, threadVars
  <2>2. \A d \in Client : Steady(d)
    BY <2>1 DEF Steady, Talking, TalksOn, FloorOf
  <2>. QED BY <2>2, AllSteady
<1>2. ASSUME holder' = holder
      PROVE  [F!Next]_floorVars
  BY <1>1, <1>2 DEF floorVars
<1>3. ASSUME NEW S \in SUBSET Floors, \A f \in S : holder[f] = c, ~ HasFloor(c),
             holder' = [f \in Floors |-> IF f \in S THEN NoOne ELSE holder[f]]
      PROVE  [F!Next]_floorVars
  <2>1. ~ Talking(c)
    BY <1>3 DEF HasFloor
  <2>2. \A f \in S : talking[f] = {}
    BY <1>3, <2>1, TalkersOf
  <2>3. F!Free(S)
    BY <1>1, <1>3, <2>2 DEF F!Free
  <2>. QED BY <2>3 DEF F!Next
<1>4. CASE ServerLogin(c)
  <2>1. Asked(c, "LOGINSERVER") /\ Served(c) /\ holder' = FloorsFreed(c)
    BY <1>4 DEF ServerLogin
  <2>2. ~ HasFloor(c)
    BY <1>0, <2>1, AskedFacts
  <2>. QED BY <1>3, <2>1, <2>2, Freed
<1>5. CASE ServerRefuse(c) \/ ServerUserList(c) \/ ServerIgnore(c)
  BY <1>2, <1>5 DEF ServerRefuse, ServerUserList, ServerIgnore, serverVars
<1>6. CASE ServerQuit(c)
  <2>1. Asked(c, "QUITSERVER") /\ Served(c) /\ holder' = FloorsFreed(c)
    BY <1>6 DEF ServerQuit
  <2>2. ~ HasFloor(c)
    BY <1>0, <2>1, AskedFacts
  <2>. QED BY <1>3, <2>1, <2>2, Freed
<1>7. CASE ServerGrant(c)
  <2>1. PICK f : f = Head(toServer[c]).floor
    OBVIOUS
  <2>2. /\ Asked(c, "SENDVOICE") /\ Served(c) /\ holder[f] = NoOne
        /\ holder' = [holder EXCEPT ![f] = c]
    BY <1>7, <2>1 DEF ServerGrant, AskedVoice
  <2>3. f \in Floors
    BY <1>0, <2>1, <2>2, AskedFacts DEF ToServer, VoicePacket
  <2>4. F!Grant(c, f)
    BY <1>1, <2>2 DEF F!Grant
  <2>. QED BY <2>3, <2>4 DEF F!Next
<1>8. CASE ServerRelease(c)
  <2>1. PICK f : f = Head(toServer[c]).floor
    OBVIOUS
  <2>2. /\ Asked(c, "SENDVOICE") /\ Served(c) /\ holder[f] = c
        /\ holder' = [holder EXCEPT ![f] = NoOne]
    BY <1>8, <2>1 DEF ServerRelease, AskedVoice
  <2>3. f \in Floors /\ ~ HasFloor(c)
    BY <1>0, <2>1, <2>2, AskedFacts DEF ToServer, VoicePacket
  <2>4. holder' = [g \in Floors |-> IF g \in {f} THEN NoOne ELSE holder[g]]
    BY <2>2, <2>3 DEF TypeOK
  <2>. QED BY <1>3, <2>2, <2>3, <2>4
<1>. QED BY <1>4, <1>5, <1>6, <1>7, <1>8 DEF ServerStep

\* The specification of the floors, seen through the refinement mapping, is
\* implemented: a floor has one talker, who holds it until it has gone silent.
THEOREM FloorImplemented == PromptSpec => ImplementsFloor
<1>1. Init => F!Init
  BY DEF Init, F!Init, talking, Talking
<1>2. ASSUME TypeOK, IInv, [PromptNext]_vars
      PROVE  [F!Next]_floorVars
  <2>1. CASE UNCHANGED vars
    <3>1. \A d \in Client : Steady(d)
      BY <2>1 DEF vars, talkVars, threadVars, Steady, Talking, TalksOn, FloorOf
    <3>. QED BY <2>1, <3>1, AllSteady DEF vars, serverVars, floorVars
  <2>2. ASSUME NEW c \in Client, PromptStep(c)
        PROVE  [F!Next]_floorVars
    BY <1>2, <2>2, ClientStepImplements, ServerStepImplements DEF PromptStep
  <2>. QED BY <1>2, <2>1, <2>2 DEF PromptNext
<1>3. TypeOK /\ IInv /\ [PromptNext]_vars => [F!Next]_F!vars
  BY <1>2 DEF floorVars, F!vars
<1>. QED BY <1>1, <1>3, PromptTypes, FloorInvariant, PTL DEF PromptSpec, ImplementsFloor, F!Spec

-----------------------------------------------------------------------------
(* A floor is held by one who talks, or is about to, or has said that it   *)
(* is free.                                                                *)

\* A client's own step leaves the server alone.
LEMMA ServerAlone ==
  ASSUME TypeOK, NEW c \in Client, Good(c), AppStep(c) \/ Wake(c) \/ NetStep(c)
  PROVE  holder' = holder /\ logged' = logged
<1>1. CASE LoginRefusedOrUserQuit(c)
  BY <1>1, LoginRefusedOrUserQuitGood
<1>2. CASE ~ LoginRefusedOrUserQuit(c)
  BY <1>2 DEF AppStep, Login, StartSendAudio, StopSendAudio, StopCheck, StopWrite, StopClose,
     Quit, Wake, NetStep, Connected, LoginServer, LoginServered, RemoteUserLogin,
     RemoteUserQuit, UpdateUserList, VoiceIgnored, VoiceGranted, OpenMediaSender, VoiceEnable,
     VoiceDisable, serverVars
<1>. QED BY <1>1, <1>2

\* The status adds nothing to who has the floor.
LEMMA FloorIs ==
  ASSUME NEW c \in Client, Good(c)
  PROVE  HasFloor(c) <=> \/ \E i \in 1 .. Len(toClient[c]) : Grant(c, i)
                         \/ net[c] = "granted" \/ Talking(c)
BY DEF HasFloor, Good, Local, Talking

\* Whoever keeps what it has, and all it has said, holds what it held.
LEMMA HeldKept ==
  ASSUME NEW c \in Client, Held(c), speakChannel'[c] = speakChannel[c], HasFloor(c) => HasFloor(c)',
         \A f \in Floors : holder'[f] = c =>
           /\ holder[f] = c
           /\ \A i \in 1 .. Len(toServer[c]) : toServer[c][i] = Voice(c, f, "AUDIO_SEND_ENABLE")
                => \E j \in 1 .. Len(toServer'[c]) : toServer'[c][j] = Voice(c, f, "AUDIO_SEND_ENABLE")
  PROVE  Held(c)'
BY DEF Held, FloorOf

\* What was sent stays in the queue.
LEMMA SentKept ==
  ASSUME TypeOK, NEW c \in Client, NEW m \in ToServer, toServer' = Sent(c, m)
  PROVE  \A i \in 1 .. Len(toServer[c]) :
           i \in 1 .. Len(toServer'[c]) /\ toServer'[c][i] = toServer[c][i]
<1>1. /\ Len(toServer[c]) \in Nat
      /\ \A i \in 1 .. Len(toServer[c]) : toServer'[c][i] = toServer[c][i]
      /\ toServer'[c] = toServer[c] \/ Len(toServer'[c]) = Len(toServer[c]) + 1
  BY SendFacts
<1>. QED BY <1>1

LEMMA VoiceKept ==
  ASSUME TypeOK, NEW c \in Client, NEW ch \in Channel, NEW data \in VoiceData,
         toServer' = SentVoice(c, ch, data)
  PROVE  /\ \A i \in 1 .. Len(toServer[c]) :
              i \in 1 .. Len(toServer'[c]) /\ toServer'[c][i] = toServer[c][i]
         /\ link[c] = "up" /\ FloorOf(c, ch) \in Floors =>
              \E i \in 1 .. Len(toServer'[c]) : toServer'[c][i] = Voice(c, FloorOf(c, ch), data)
<1>1. /\ Len(toServer[c]) \in Nat
      /\ \A i \in 1 .. Len(toServer[c]) : toServer'[c][i] = toServer[c][i]
      /\ \/ toServer'[c] = toServer[c]
         \/ /\ Len(toServer'[c]) = Len(toServer[c]) + 1
            /\ toServer'[c][Len(toServer[c]) + 1] = Voice(c, FloorOf(c, ch), data)
  BY SendVoiceFacts
<1>2. ASSUME link[c] = "up", FloorOf(c, ch) \in Floors
      PROVE  \E i \in 1 .. Len(toServer'[c]) : toServer'[c][i] = Voice(c, FloorOf(c, ch), data)
  <2>1. ~ (ch = "group" /\ Group[c] = NoGroup)
    BY <1>2, IntercomAssumption DEF Floors, FloorOf
  <2>2. toServer'[c] = Append(toServer[c], Voice(c, FloorOf(c, ch), data)) /\ toServer[c] \in Seq(ToServer)
    BY <1>2, <2>1 DEF SentVoice, Sent, TypeOK
  <2>3. Len(toServer'[c]) = Len(toServer[c]) + 1
        /\ toServer'[c][Len(toServer[c]) + 1] = Voice(c, FloorOf(c, ch), data)
    BY <2>2
  <2>. QED BY <1>1, <2>3
<1>. QED BY <1>1, <1>2

\* The application: it starts on no floor while it has one, and says so when it stops.
LEMMA AppHeld ==
  ASSUME TypeOK, NEW c \in Client, Good(c), Held(c), AppStep(c) \/ Wake(c)
  PROVE  Held(c)'
<1>1. holder' = holder /\ logged' = logged
  BY ServerAlone
<1>2. \A f \in Floors : holder[f] = c => c \in logged /\ link[c] = "up"
  BY DEF Good, Session
<1>3. ASSUME NEW ch \in Channel, StartSendAudio(c, ch)
      PROVE  Held(c)'
  <2>1. /\ app[c] = "idle" /\ app'[c] = "wait" /\ net' = net /\ net[c] = "idle"
        /\ audioStatus' = audioStatus /\ openLocalUser' = openLocalUser /\ toClient' = toClient
        /\ \/ ~ MayStart(c, ch) /\ toServer' = toServer /\ speakChannel' = speakChannel
           \/ MayStart(c, ch) /\ toServer' = SentVoice(c, ch, "AUDIO_SEND_DISABLE")
    BY <1>3, IdleFacts DEF StartSendAudio, TypeOK
  <2>2. HasFloor(c) => ~ MayStart(c, ch)
    <3>1. HasFloor(c) => \E o \in Channel : Sending(c, o)
      BY <2>1, FloorIs DEF Good, Local, Grants, TypeOK
    <3>. QED BY <3>1 DEF MayStart, Sending
  <2>3. HasFloor(c) <=> HasFloor(c)'
    BY <2>1 DEF HasFloor, Talking, Sending, Grant, News, Entry, Stopping
  <2>4. \A i \in 1 .. Len(toServer[c]) :
          i \in 1 .. Len(toServer'[c]) /\ toServer'[c][i] = toServer[c][i]
    BY <2>1, VoiceKept DEF VoiceData
  <2>5. CASE HasFloor(c)
    BY <1>1, <2>1, <2>2, <2>3, <2>5, HeldKept
  <2>6. CASE ~ HasFloor(c)
    BY <1>1, <2>4, <2>6 DEF Held
  <2>. QED BY <2>5, <2>6
<1>4. ASSUME NEW q \in BOOLEAN, StopSendAudio(c, q)
      PROVE  Held(c)'
  <2>1. /\ toServer' = SentVoice(c, speakChannel[c], "AUDIO_SEND_ENABLE")
        /\ speakChannel[c] \in Channel /\ speakChannel' = speakChannel
    BY <1>4 DEF StopSendAudio, talkVars, TypeOK
  <2>2. /\ \A i \in 1 .. Len(toServer[c]) :
             i \in 1 .. Len(toServer'[c]) /\ toServer'[c][i] = toServer[c][i]
        /\ link[c] = "up" /\ FloorOf(c, speakChannel[c]) \in Floors =>
             \E i \in 1 .. Len(toServer'[c]) :
               toServer'[c][i] = Voice(c, FloorOf(c, speakChannel[c]), "AUDIO_SEND_ENABLE")
    BY <2>1, VoiceKept DEF VoiceData
  <2>3. ASSUME NEW f \in Floors, holder[f] = c
        PROVE  \E i \in 1 .. Len(toServer'[c]) : toServer'[c][i] = Voice(c, f, "AUDIO_SEND_ENABLE")
    BY <1>2, <2>2, <2>3 DEF Held
  <2>. QED BY <1>1, <2>3 DEF Held
<1>5. ASSUME toServer' = toServer \/ (\E m \in ToServer : toServer' = Sent(c, m)), ~ HasFloor(c)
      PROVE  Held(c)'
  <2>1. \A i \in 1 .. Len(toServer[c]) :
          i \in 1 .. Len(toServer'[c]) /\ toServer'[c][i] = toServer[c][i]
    BY <1>5, SentKept
  <2>. QED BY <1>1, <1>5, <2>1 DEF Held
<1>6. CASE StopCheck(c) \/ StopClose(c) \/ Quit(c) \/ \E ch \in Channel : StopWrite(c, ch)
  <2>1. app[c] \in Stopping /\ app[c] # "wait"
    BY <1>6 DEF StopCheck, StopClose, StopWrite, Quit, Stopping
  <2>2. ~ HasFloor(c)
    BY <2>1, IdleFacts, FloorIs DEF Talking
  <2>3. toServer' = toServer \/ \E m \in ToServer : toServer' = Sent(c, m)
    <3>1. Packet("QUITSERVER") \in ToServer
      BY DEF Packet, ToServer
    <3>. QED BY <1>6, <3>1 DEF StopCheck, StopClose, StopWrite, Quit, queueVars
  <2>. QED BY <1>5, <2>2, <2>3
<1>7. CASE Wake(c)
  <2>1. /\ toServer' = toServer /\ speakChannel' = speakChannel /\ toClient' = toClient /\ net' = net
        /\ audioStatus' = audioStatus /\ openLocalUser' = openLocalUser
        /\ app[c] = "wait" /\ app'[c] = "idle"
    BY <1>7 DEF Wake, talkVars, queueVars, TypeOK
  <2>2. HasFloor(c) <=> HasFloor(c)'
    BY <2>1 DEF HasFloor, Talking, Sending, Grant, News, Entry, Stopping
  <2>. QED BY <1>1, <2>1, <2>2, HeldKept
<1>8. CASE Login(c)
  BY <1>1, <1>2, <1>8 DEF Held, Login
<1>. QED BY <1>3, <1>4, <1>6, <1>7, <1>8 DEF AppStep

\* The network thread: a grant that is read is a floor that is talked on.
LEMMA NetHeld ==
  ASSUME TypeOK, NEW c \in Client, Good(c), Held(c), NetStep(c)
  PROVE  Held(c)'
<1>1. holder' = holder /\ logged' = logged
  BY ServerAlone
<1>2. \A f \in Floors : holder[f] = c => c \in logged /\ link[c] = "up"
  BY DEF Good, Session
<1>3. CASE Connected(c)
  BY <1>1, <1>2, <1>3 DEF Held, Connected
<1>4. CASE LoginRefusedOrUserQuit(c)
  <2>1. c \notin logged
    BY <1>4 DEF Good, Session, LoginRefusedOrUserQuit, Receives, Entry, TypeOK
  <2>. QED BY <1>1, <1>2, <2>1 DEF Held
<1>5. CASE OpenMediaSender(c)
  <2>1. /\ net[c] = "granted" /\ speakChannel' = speakChannel /\ toServer' = toServer
        /\ app' = app /\ openLocalUser'[c] = TRUE /\ app[c] = "wait"
    BY <1>5 DEF OpenMediaSender, queueVars, TypeOK, Good, Local
  <2>2. HasFloor(c)'
    BY <2>1 DEF HasFloor, Talking, Stopping
  <2>. QED BY <1>1, <2>1, <2>2, HeldKept
<1>6. CASE ~ Connected(c) /\ ~ LoginRefusedOrUserQuit(c) /\ ~ OpenMediaSender(c)
  <2>1. /\ net[c] = "idle" /\ toClient[c] # << >> /\ Handled(c)
        /\ speakChannel' = speakChannel /\ app' = app /\ openLocalUser' = openLocalUser
        /\ toServer' = toServer \/ \E m \in ToServer : toServer' = Sent(c, m)
    <3>1. Packet("GETUSERLIST") \in ToServer
      BY DEF Packet, ToServer
    <3>. QED BY <1>6, <3>1 DEF NetStep, LoginServered, RemoteUserLogin, RemoteUserQuit, UpdateUserList, VoiceIgnored,
         VoiceGranted, GrantsMe, VoiceEnable, VoiceDisable, Hears, Receives, talkVars, threadVars
  <2>2. \A i \in 1 .. Len(toServer[c]) :
          i \in 1 .. Len(toServer'[c]) /\ toServer'[c][i] = toServer[c][i]
    BY <2>1, SentKept
  <2>3. Grant(c, 1) => VoiceGranted(c)
    <3>1. SUFFICES ASSUME Grant(c, 1)
                   PROVE  VoiceGranted(c)
      OBVIOUS
    <3>2. /\ toClient[c][1] = Head(toClient[c]) /\ Head(toClient[c]).cmd = "SENDVOICE"
          /\ Head(toClient[c]).user = c /\ 1 \in 1 .. Len(toClient[c])
      BY <2>1, <3>1 DEF Grant, News, Entry, TypeOK
    <3>3. /\ Head(toClient[c]).data = "AUDIO_SEND_ENABLE"
          /\ Head(toClient[c]).floor \in {Room, Group[c]}
      BY <3>1, <3>2 DEF Good, Grants, Voice, FloorOf
    <3>. QED BY <1>6, <3>2, <3>3 DEF NetStep, LoginServered, RemoteUserLogin, RemoteUserQuit, UpdateUserList, VoiceIgnored,
         VoiceEnable, VoiceDisable, Hears, Receives
  <2>4. HasFloor(c) => HasFloor(c)'
    <3>1. CASE Grant(c, 1)
      BY <2>3, <3>1 DEF VoiceGranted, HasFloor, TypeOK
    <3>2. CASE Talking(c)
      BY <2>1, <3>2 DEF Talking, HasFloor
    <3>3. ASSUME NEW i \in 1 .. Len(toClient[c]), Grant(c, i), i # 1
          PROVE  HasFloor(c)'
      <4>1. i - 1 \in 1 .. Len(toClient'[c]) /\ (i - 1) + 1 = i
        BY <2>1, <3>3, Read
      <4>2. Grant(c, i - 1)'
        BY <2>1, <3>3, <4>1, Read
      <4>. QED BY <4>1, <4>2 DEF HasFloor
    <3>. QED BY <2>1, <3>1, <3>2, <3>3, FloorIs
  <2>. QED BY <1>1, <2>1, <2>2, <2>4, HeldKept
<1>. QED BY <1>3, <1>4, <1>5, <1>6

\* The server only adds to what is said to a client.
LEMMA Spoken ==
  ASSUME TypeOK, NEW c \in Client, ServerStep(c), NEW d \in Client
  PROVE  \E s \in Seq(ToClient) : toClient'[d] = toClient[d] \o s
<1>1. << >> \in Seq(ToClient) /\ toClient[d] \in Seq(ToClient)
  BY DEF TypeOK
<1>2. ASSUME NEW own \in Seq(ToClient), NEW other \in Seq(ToClient), Tell(c, own, other)
      PROVE  \E s \in Seq(ToClient) : toClient'[d] = toClient[d] \o s
  <2>1. toClient[d] \o << >> = toClient[d]
    BY <1>1
  <2>2. toClient'[d] = IF d = c THEN toClient[d] \o own ELSE IF d \in logged THEN toClient[d] \o other ELSE toClient[d]
    BY <1>2 DEF Tell
  <2> DEFINE e == << >>
  <2>3. e \in Seq(ToClient) /\ toClient[d] \o e = toClient[d]
    BY <1>1, <2>1
  <2> HIDE DEF e
  <2>. QED BY <2>2, <2>3
<1>3. \A m \in ToClient : << m >> \in Seq(ToClient)
  OBVIOUS
<1>4. \A x : About("REMOTEUSERQUIT", c) \in ToClient /\ About("REMOTEUSERLOGIN", c) \in ToClient
             /\ (x \in {"LOGINREFUSED", "USERQUIT", "LOGINSERVERED"} => Packet(x) \in ToClient)
  BY DEF About, ToClient, Packet
<1>5. CASE ServerLogin(c)
  <2>1. << Packet("LOGINSERVERED") >> \o Replay(c, Room) \o Replay(c, Group[c]) \in Seq(ToClient)
    <3>1. PICK s \in Seq(ToClient) :
            /\ s = << Packet("LOGINSERVERED") >> \o Replay(c, Room) \o Replay(c, Group[c])
            /\ 1 \in 1 .. Len(s) /\ s[1].cmd = "LOGINSERVERED"
            /\ \A i \in 1 .. Len(s) :
                 \/ s[i].cmd = "LOGINSERVERED"
                 \/ /\ s[i].cmd = "SENDVOICE" /\ s[i].floor \in Floors
                    /\ s[i].user # c /\ holder[s[i].floor] = s[i].user
                    /\ s[i].data = "AUDIO_SEND_DISABLE"
      BY ReplayNews
    <3>. QED BY <3>1, Zenon
  <2>2. (IF c \in logged THEN << About("REMOTEUSERQUIT", c), About("REMOTEUSERLOGIN", c) >>
         ELSE << About("REMOTEUSERLOGIN", c) >>) \in Seq(ToClient)
    BY ArrivalNews
  <2>. QED BY <1>2, <1>5, <2>1, <2>2 DEF ServerLogin
<1>6. CASE ServerRefuse(c)
  BY <1>1, <1>2, <1>3, <1>4, <1>6 DEF ServerRefuse
<1>7. CASE ServerUserList(c)
  <2>1. UserList(logged) \in ToClient
    BY DEF UserList, ToClient, TypeOK
  <2>. QED BY <1>1, <1>2, <1>3, <1>7, <2>1 DEF ServerUserList
<1>8. CASE ServerQuit(c)
  <2>1. (IF c \in logged THEN << About("REMOTEUSERQUIT", c) >> ELSE << >>) \in Seq(ToClient)
    BY <1>1, <1>3, <1>4
  <2>2. << Packet("USERQUIT") >> \in Seq(ToClient)
    BY <1>3, <1>4
  <2>. QED BY <1>2, <1>8, <2>1, <2>2 DEF ServerQuit
<1>9. CASE ServerGrant(c) \/ ServerRelease(c)
  <2>1. Head(toServer[c]).floor \in Floors
    BY <1>9, HeadType DEF ServerGrant, ServerRelease, AskedVoice, Asked, ToServer, VoicePacket
  <2>2. \A data \in VoiceData : << Voice(c, Head(toServer[c]).floor, data) >> \in Seq(ToClient)
    BY <1>3, <2>1 DEF Voice, ToClient, VoicePacket
  <2>. QED BY <1>1, <1>2, <1>9, <2>2 DEF ServerGrant, ServerRelease, VoiceData
<1>10. CASE ServerIgnore(c)
  <2> DEFINE e == << >>
  <2>1. e \in Seq(ToClient) /\ toClient[d] \o e = toClient[d]
    BY <1>1
  <2> HIDE DEF e
  <2>. QED BY <1>10, <2>1 DEF ServerIgnore
<1>. QED BY <1>5, <1>6, <1>7, <1>8, <1>9, <1>10 DEF ServerStep

\* So nobody loses a floor that way.
LEMMA FloorKept ==
  ASSUME TypeOK, NEW c \in Client, ServerStep(c), NEW d \in Client, Good(d), HasFloor(d)
  PROVE  HasFloor(d)' /\ speakChannel'[d] = speakChannel[d]
<1>1. net' = net /\ app' = app /\ openLocalUser' = openLocalUser /\ speakChannel' = speakChannel
  BY DEF ServerStep, ServerLogin, ServerRefuse, ServerUserList, ServerQuit, ServerGrant,
     ServerRelease, ServerIgnore, talkVars, threadVars
<1>2. PICK s \in Seq(ToClient) : toClient'[d] = toClient[d] \o s
  BY Spoken
<1>3. \A i \in 1 .. Len(toClient[d]) : i \in 1 .. Len(toClient'[d]) /\ (Grant(d, i)' <=> Grant(d, i))
  BY <1>2, Append1
<1>. QED BY <1>1, <1>3, FloorIs DEF HasFloor, Talking

\* What the server has not read yet is still to be read.
LEMMA StillAsked ==
  ASSUME TypeOK, NEW c \in Client, Good(c), NEW cmd, Asked(c, cmd), Served(c)
  PROVE  /\ \A i \in 1 .. Len(toServer[c]) : i # 1 =>
              i - 1 \in 1 .. Len(toServer'[c]) /\ toServer'[c][i - 1] = toServer[c][i]
         /\ \A i \in 1 .. Len(toServer'[c]) :
              i + 1 \in 1 .. Len(toServer[c]) /\ toServer'[c][i] = toServer[c][i + 1]
<1>1. toServer[c] \in Seq(ToServer) /\ toServer[c] # << >> /\ toServer'[c] = Tail(toServer[c])
  BY AskedFacts DEF TypeOK
<1>. QED BY <1>1

LEMMA ServerHeld ==
  ASSUME TypeOK, IInv, HeldInv, NEW c \in Client, ServerStep(c)
  PROVE  HeldInv'
<1>1. Good(c) /\ Held(c) /\ OneFloor(c) /\ (HasFloor(c) => HasFloor(c)')
      /\ speakChannel' = speakChannel
  BY FloorKept DEF IInv, HeldInv, ServerStep, ServerLogin, ServerRefuse, ServerUserList, ServerQuit, ServerGrant,
     ServerRelease, ServerIgnore, talkVars
<1>2. ASSUME NEW cmd, Asked(c, cmd), Served(c), holder' = holder, cmd # "SENDVOICE"
      PROVE  Held(c)' /\ OneFloor(c)'
  <2>1. toServer[c][1].cmd = cmd
    BY <1>1, <1>2, AskedFacts
  <2>2. \A f : Voice(c, f, "AUDIO_SEND_ENABLE").cmd = "SENDVOICE"
    BY DEF Voice
  <2>3. \A f : \A i \in 1 .. Len(toServer[c]) : toServer[c][i] = Voice(c, f, "AUDIO_SEND_ENABLE")
          => \E j \in 1 .. Len(toServer'[c]) : toServer'[c][j] = Voice(c, f, "AUDIO_SEND_ENABLE")
    <3>1. \A f : \A i \in 1 .. Len(toServer[c]) : toServer[c][i] = Voice(c, f, "AUDIO_SEND_ENABLE") => i # 1
      BY <1>2, <2>1, <2>2
    <3>2. \A i \in 1 .. Len(toServer[c]) : i # 1 =>
            i - 1 \in 1 .. Len(toServer'[c]) /\ toServer'[c][i - 1] = toServer[c][i]
      BY <1>1, <1>2, StillAsked
    <3>. QED BY <3>1, <3>2
  <2>. QED BY <1>1, <1>2, <2>3, HeldKept DEF OneFloor
<1>3. ASSUME \A f \in Floors : holder'[f] # c
      PROVE  Held(c)' /\ OneFloor(c)'
  BY <1>3 DEF Held, OneFloor
<1>4. ASSUME holder' = FloorsFreed(c)
      PROVE  Held(c)' /\ OneFloor(c)'
  BY <1>3, <1>4, IntercomAssumption DEF FloorsFreed
<1>5. Held(c)' /\ OneFloor(c)'
  <2>1. CASE ServerLogin(c) \/ ServerQuit(c)
    BY <1>4, <2>1 DEF ServerLogin, ServerQuit
  <2>2. CASE ServerRefuse(c) \/ ServerUserList(c)
    BY <1>2, <2>2 DEF ServerRefuse, ServerUserList, serverVars
  <2>3. CASE ServerIgnore(c)
    <3>1. /\ Asked(c, "SENDVOICE") /\ Served(c) /\ holder' = holder
          /\ LET m == Head(toServer[c]) IN
               \/ c \notin logged
               \/ m.data = "AUDIO_SEND_DISABLE" /\ holder[m.floor] # NoOne
               \/ m.data = "AUDIO_SEND_ENABLE" /\ holder[m.floor] # c
      BY <2>3 DEF ServerIgnore, serverVars
    <3>2. toServer[c][1] = Head(toServer[c])
      BY <1>1, <3>1, AskedFacts
    <3>3. \A f \in Floors : holder[f] = c => toServer[c][1] # Voice(c, f, "AUDIO_SEND_ENABLE")
      BY <1>1, <3>1, <3>2 DEF Voice, Good, Session
    <3>4. \A f \in Floors : holder[f] = c =>
            \A i \in 1 .. Len(toServer[c]) : toServer[c][i] = Voice(c, f, "AUDIO_SEND_ENABLE")
              => \E j \in 1 .. Len(toServer'[c]) : toServer'[c][j] = Voice(c, f, "AUDIO_SEND_ENABLE")
      <4>1. \A i \in 1 .. Len(toServer[c]) : i # 1 =>
              i - 1 \in 1 .. Len(toServer'[c]) /\ toServer'[c][i - 1] = toServer[c][i]
        BY <1>1, <3>1, StillAsked
      <4>. QED BY <3>3, <4>1
    <3>. QED BY <1>1, <3>1, <3>4, HeldKept DEF OneFloor
  <2>4. CASE ServerRelease(c)
    <3>1. /\ holder[Head(toServer[c]).floor] = c
          /\ holder' = [holder EXCEPT ![Head(toServer[c]).floor] = NoOne]
          /\ Head(toServer[c]).floor \in Floors
      BY <2>4, HeadType DEF ServerRelease, AskedVoice, Asked, ToServer, VoicePacket
    <3>. QED BY <1>1, <1>3, <3>1, IntercomAssumption DEF OneFloor, TypeOK
  <2>5. CASE ServerGrant(c)
    <3> DEFINE f == Head(toServer[c]).floor
               m == Voice(c, f, "AUDIO_SEND_ENABLE")
    <3>1. /\ Asked(c, "SENDVOICE") /\ Served(c) /\ Head(toServer[c]).data = "AUDIO_SEND_DISABLE"
          /\ holder' = [holder EXCEPT ![f] = c] /\ toClient'[c] = toClient[c] \o << m >>
      BY <2>5 DEF ServerGrant, AskedVoice, Tell
    <3>2. /\ Len(toServer[c]) \in Nat /\ 1 \in 1 .. Len(toServer[c])
          /\ toServer[c][1] = Head(toServer[c]) /\ toServer[c][1].cmd = "SENDVOICE"
          /\ toServer[c][1] \in ToServer
      BY <1>1, <3>1, AskedFacts DEF TypeOK
    <3>3. Request(c, 1) /\ f \in Floors
      BY <3>1, <3>2 DEF Request, Entry, ToServer, VoicePacket
    <3> HIDE DEF f
    <3>4. /\ f = FloorOf(c, speakChannel[c]) /\ ~ HasFloor(c)
          /\ \A j \in 1 + 1 .. Len(toServer[c]) : toServer[c][j].cmd = "GETUSERLIST"
      BY <1>1, <3>2, <3>3 DEF Good, Requests, f
    <3>5. \A g \in Floors : holder[g] # c
      <4>1. \A i \in 1 .. Len(toServer[c]) : i # 1 => i \in 1 + 1 .. Len(toServer[c])
        BY <3>2
      <4>2. \A g : \A i \in 1 .. Len(toServer[c]) : toServer[c][i] # Voice(c, g, "AUDIO_SEND_ENABLE")
        BY <3>1, <3>2, <3>4, <4>1 DEF Voice
      <4>. QED BY <1>1, <3>4, <4>2 DEF Held
    <3>6. \A g \in Floors : holder'[g] = c => g = f
      BY <3>1, <3>5 DEF TypeOK
    <3>7. HasFloor(c)'
      <4>1. m \in ToClient /\ m.cmd = "SENDVOICE" /\ m.user = c
        BY <3>3 DEF Voice, ToClient, VoicePacket, VoiceData
      <4> HIDE DEF m
      <4>2. PICK s \in Seq(ToClient) : s = << m >> /\ Len(s) = 1 /\ 1 \in 1 .. Len(s) /\ \A i \in 1 .. Len(s) : s[i] = m
        BY <4>1, Single
      <4>3. toClient'[c] = toClient[c] \o s
        BY <3>1, <4>2
      <4>4. /\ Len(toClient[c]) \in Nat /\ Len(toClient'[c]) = Len(toClient[c]) + 1
            /\ toClient'[c][Len(toClient[c]) + 1] = m
        BY <4>2, <4>3, Append1
      <4>5. PICK n : n \in 1 .. Len(toClient'[c]) /\ toClient'[c][n] = m
        BY <4>4
      <4>6. Grant(c, n)'
        BY <4>1, <4>5 DEF Grant, News, Entry
      <4>. QED BY <4>5, <4>6 DEF HasFloor
    <3>. QED BY <1>1, <3>4, <3>6, <3>7 DEF Held, OneFloor, FloorOf
  <2>. QED BY <2>1, <2>2, <2>3, <2>4, <2>5 DEF ServerStep
<1>6. ASSUME NEW d \in Client \ {c}
      PROVE  Held(d)' /\ OneFloor(d)'
  <2>1. Good(d) /\ Held(d) /\ OneFloor(d) /\ toServer'[d] = toServer[d]
    <3>1. \E cmd : Asked(c, cmd) /\ Served(c)
      BY DEF ServerStep, ServerLogin, ServerRefuse, ServerUserList, ServerQuit, ServerGrant,
         ServerRelease, ServerIgnore, AskedVoice
    <3>. QED BY <1>1, <3>1, AskedFacts DEF IInv, HeldInv
  <2>2. \A f \in Floors : holder'[f] = d => holder[f] = d
    BY IntercomAssumption DEF ServerStep, ServerLogin, ServerRefuse, ServerUserList, ServerQuit, ServerGrant,
       ServerRelease, ServerIgnore, FloorsFreed, serverVars, TypeOK
  <2>3. HasFloor(d) => HasFloor(d)'
    BY <2>1, FloorKept
  <2>. QED BY <1>1, <2>1, <2>2, <2>3, HeldKept DEF OneFloor
<1>. QED BY <1>5, <1>6 DEF HeldInv

LEMMA ClientHeld ==
  ASSUME TypeOK, IInv, HeldInv, NEW c \in Client, AppStep(c) \/ Wake(c) \/ NetStep(c)
  PROVE  HeldInv'
<1>1. Good(c) /\ Held(c) /\ OneFloor(c) /\ holder' = holder
  BY ServerAlone DEF IInv, HeldInv
<1>2. Held(c)' /\ OneFloor(c)'
  BY <1>1, AppHeld, NetHeld DEF OneFloor
<1>3. ASSUME NEW d \in Client \ {c}
      PROVE  Held(d)' /\ OneFloor(d)'
  <2>1. Same(d)
    BY <1>1, OthersSame, LoginRefusedOrUserQuitGood
  <2>2. Held(d) /\ OneFloor(d)
    BY DEF HeldInv
  <2>3. HasFloor(d) <=> HasFloor(d)'
    BY <2>1 DEF Same, HasFloor, Talking, Sending, Grant, News, Entry
  <2>. QED BY <1>1, <2>1, <2>2, <2>3, HeldKept DEF OneFloor, Same
<1>. QED BY <1>2, <1>3 DEF HeldInv

LEMMA StepHeld ==
  ASSUME TypeOK, IInv, HeldInv, [PromptNext]_vars
  PROVE  HeldInv'
<1>1. CASE UNCHANGED vars
  BY <1>1 DEF vars, talkVars, threadVars, queueVars, serverVars, HeldInv, Held, OneFloor, HasFloor, Talking,
     Sending, Grant, News, Entry, FloorOf
<1>2. ASSUME NEW c \in Client, PromptStep(c)
      PROVE  HeldInv'
  BY <1>2, ClientHeld, ServerHeld DEF PromptStep
<1>. QED BY <1>1, <1>2 DEF PromptNext

LEMMA PromptHeld == PromptSpec => []HeldInv
<1>1. Init => HeldInv
  BY IntercomAssumption DEF Init, HeldInv, Held, OneFloor
<1>2. TypeOK /\ IInv /\ HeldInv /\ [PromptNext]_vars => HeldInv'
  BY StepHeld
<1>. QED BY <1>1, <1>2, PromptTypes, FloorInvariant, PTL DEF PromptSpec

\* A floor is not held for somebody who is silent: once the holder has read its
\* grant and nothing is on its way, its microphone is open on that floor.
THEOREM HoldersTalk == PromptSpec => []HolderTalks
<1>1. TypeOK /\ IInv /\ HeldInv => HolderTalks
  <2>1. SUFFICES ASSUME TypeOK, IInv, HeldInv, NEW c \in Client, NEW f \in Floors,
                        Drained(c), Answered(c), app[c] \in {"idle", "wait"}, holder[f] = c
                 PROVE  openLocalUser[c] /\ TalksOn(c) = f
    BY DEF HolderTalks
  <2>2. /\ Len(toClient[c]) = 0 /\ net[c] = "idle"
        /\ \A i \in 1 .. Len(toServer[c]) : toServer[c][i].cmd # "SENDVOICE"
    BY <2>1 DEF Drained, Answered, Voices, TypeOK
  <2>3. \A i \in 1 .. Len(toServer[c]) : toServer[c][i] # Voice(c, f, "AUDIO_SEND_ENABLE")
    BY <2>2 DEF Voice
  <2>4. HasFloor(c) /\ f = FloorOf(c, speakChannel[c])
    BY <2>1, <2>3 DEF HeldInv, Held
  <2>5. Talking(c)
    BY <2>1, <2>2, <2>4, FloorIs DEF IInv
  <2>. QED BY <2>4, <2>5 DEF Talking, TalksOn
<1>. QED BY <1>1, PromptTypes, FloorInvariant, PromptHeld, PTL

-----------------------------------------------------------------------------
(* Nobody is in a user list, or will be, who is not there.                 *)

\* Nothing is read, and nobody is added.
LEMMA KnowQuiet ==
  ASSUME NEW c \in Client, toClient'[c] = toClient[c], userInfoList'[c] \subseteq userInfoList[c],
         NEW u, WillKnow(c, u)'
  PROVE  WillKnow(c, u)
<1>1. \A i : (Brings(c, i, u)' <=> Brings(c, i, u)) /\ (Takes(c, i, u)' <=> Takes(c, i, u))
  BY QueueFacts
<1>. QED BY <1>1 DEF WillKnow

\* Whoever is known after a packet was known, or brought by it.
LEMMA KnowRead ==
  ASSUME TypeOK, NEW c \in Client, toClient[c] # << >>, Handled(c), NEW u, WillKnow(c, u)',
         u \in userInfoList'[c] => ~ Takes(c, 1, u) /\ (u \in userInfoList[c] \/ Brings(c, 1, u))
  PROVE  WillKnow(c, u)
<1> DEFINE n == Len(toClient'[c])
<1>1. /\ n \in Nat /\ Len(toClient[c]) = n + 1
      /\ \A i \in 1 .. n : /\ i + 1 \in 1 .. n + 1
                           /\ Brings(c, i, u)' <=> Brings(c, i + 1, u)
                           /\ Takes(c, i, u)' <=> Takes(c, i + 1, u)
  BY Read
<1> HIDE DEF n
<1>2. 1 \in 1 .. n + 1 /\ \A j \in 1 .. n + 1 : j # 1 => j - 1 \in 1 .. n /\ (j - 1) + 1 = j
  BY <1>1
<1>3. CASE u \in userInfoList'[c] /\ \A i \in 1 .. n : ~ Takes(c, i, u)'
  <2>1. ASSUME NEW j \in 1 .. n + 1, j # 1
        PROVE  ~ Takes(c, j, u)
    <3>1. j - 1 \in 1 .. n /\ (j - 1) + 1 = j
      BY <1>2, <2>1
    <3>2. ~ Takes(c, j - 1, u)' /\ (Takes(c, j - 1, u)' <=> Takes(c, (j - 1) + 1, u))
      BY <1>1, <1>3, <3>1
    <3>. QED BY <3>1, <3>2
  <2>2. \A j \in 1 + 1 .. n + 1 : j \in 1 .. n + 1 /\ j # 1
    BY <1>1
  <2>3. ~ Takes(c, 1, u) /\ (u \in userInfoList[c] \/ Brings(c, 1, u))
    BY <1>3
  <2>4. (\A j \in 1 .. n + 1 : ~ Takes(c, j, u)) /\ \A j \in 1 + 1 .. n + 1 : ~ Takes(c, j, u)
    BY <2>1, <2>2, <2>3
  <2>5. CASE u \in userInfoList[c]
    BY <1>1, <2>4, <2>5 DEF WillKnow
  <2>6. CASE Brings(c, 1, u)
    <3>1. \E i \in 1 .. n + 1 : Brings(c, i, u) /\ \A j \in i + 1 .. n + 1 : ~ Takes(c, j, u)
      BY <1>2, <2>4, <2>6
    <3>. QED BY <1>1, <3>1 DEF WillKnow
  <2>. QED BY <2>3, <2>5, <2>6
<1>4. CASE \E i \in 1 .. n : Brings(c, i, u)' /\ \A j \in i + 1 .. n : ~ Takes(c, j, u)'
  <2>1. PICK i \in 1 .. n : Brings(c, i, u)' /\ \A j \in i + 1 .. n : ~ Takes(c, j, u)'
    BY <1>4
  <2>2. i + 1 \in 1 .. n + 1 /\ Brings(c, i + 1, u)
    BY <1>1, <2>1
  <2>3. ASSUME NEW j \in (i + 1) + 1 .. n + 1
        PROVE  ~ Takes(c, j, u)
    <3>1. j - 1 \in i + 1 .. n /\ j - 1 \in 1 .. n /\ (j - 1) + 1 = j
      BY <1>1, <2>3
    <3>. QED BY <1>1, <2>1, <3>1
  <2>. QED BY <1>1, <2>2, <2>3 DEF WillKnow
<1>. QED BY <1>3, <1>4 DEF WillKnow, n

\* Whoever is known after s was known and is not taken away by it, or brought by it.
LEMMA KnowTold ==
  ASSUME TypeOK, NEW d \in Client, NEW s \in Seq(ToClient), toClient'[d] = toClient[d] \o s,
         userInfoList'[d] = userInfoList[d], NEW u, WillKnow(d, u)'
  PROVE  \/ WillKnow(d, u) /\ \A i \in 1 .. Len(s) : ~ TakesIt(s[i], u)
         \/ \E i \in 1 .. Len(s) : BringsIt(s[i], u)
<1>0. PICK n \in Nat : n = Len(toClient[d])
  BY Append1
<1>1. /\ Len(s) \in Nat /\ Len(toClient'[d]) = n + Len(s)
      /\ \A i \in 1 .. n : /\ i \in 1 .. Len(toClient'[d])
                           /\ Brings(d, i, u)' <=> Brings(d, i, u)
                           /\ Takes(d, i, u)' <=> Takes(d, i, u)
      /\ \A i \in 1 .. Len(s) : toClient'[d][n + i] = s[i]
  BY <1>0, Append1
<1>2. \A j \in 1 .. Len(s) :
        /\ n + j \in 1 .. Len(toClient'[d])
        /\ Brings(d, n + j, u)' <=> BringsIt(s[j], u)
        /\ Takes(d, n + j, u)' <=> TakesIt(s[j], u)
  <2> SUFFICES ASSUME NEW j \in 1 .. Len(s)
               PROVE  /\ n + j \in 1 .. Len(toClient'[d])
                      /\ Brings(d, n + j, u)' <=> BringsIt(s[j], u)
                      /\ Takes(d, n + j, u)' <=> TakesIt(s[j], u)
    OBVIOUS
  <2>1. n + j \in 1 .. Len(toClient'[d]) /\ toClient'[d][n + j] = s[j]
    BY <1>0, <1>1
  <2>. QED BY <2>1 DEF Brings, Takes, Entry, BringsIt, TakesIt
<1>3. CASE u \in userInfoList'[d] /\ \A i \in 1 .. Len(toClient'[d]) : ~ Takes(d, i, u)'
  <2>1. \A i \in 1 .. n : ~ Takes(d, i, u)
    BY <1>1, <1>3
  <2>2. \A j \in 1 .. Len(s) : ~ TakesIt(s[j], u)
    BY <1>2, <1>3
  <2>3. WillKnow(d, u)
    BY <1>0, <1>3, <2>1 DEF WillKnow
  <2>. QED BY <2>2, <2>3
<1>4. CASE \E i \in 1 .. Len(toClient'[d]) : Brings(d, i, u)' /\ \A j \in i + 1 .. Len(toClient'[d]) : ~ Takes(d, j, u)'
  <2>1. PICK i \in 1 .. Len(toClient'[d]) : Brings(d, i, u)' /\ \A j \in i + 1 .. Len(toClient'[d]) : ~ Takes(d, j, u)'
    BY <1>4
  <2>2. CASE i \in 1 .. n
    <3>1. \A j \in i + 1 .. n : j \in 1 .. n /\ j \in i + 1 .. Len(toClient'[d])
      BY <1>1, <2>2
    <3>2. \A j \in 1 .. Len(s) : n + j \in i + 1 .. Len(toClient'[d])
      BY <1>1, <2>2
    <3>3. \A j \in 1 .. Len(s) : ~ TakesIt(s[j], u)
      BY <1>2, <2>1, <3>2
    <3>4. WillKnow(d, u)
      BY <1>0, <1>1, <2>1, <2>2, <3>1 DEF WillKnow
    <3>. QED BY <3>3, <3>4
  <2>3. CASE i \notin 1 .. n
    <3>1. i - n \in 1 .. Len(s) /\ n + (i - n) = i
      BY <1>1, <2>3
    <3>. QED BY <1>2, <2>1, <3>1
  <2>. QED BY <2>2, <2>3
<1>. QED BY <1>3, <1>4 DEF WillKnow

\* Nothing is in the queue to the server that was not sent.
LEMMA OnlySent ==
  ASSUME TypeOK, NEW c \in Client, NEW m \in ToServer, toServer' = Sent(c, m), NEW x, Has(toServer'[c], x)
  PROVE  Has(toServer[c], x) \/ x = m.cmd
<1>1. /\ Len(toServer[c]) \in Nat
      /\ \A i \in 1 .. Len(toServer[c]) : toServer'[c][i] = toServer[c][i]
      /\ \/ toServer'[c] = toServer[c]
         \/ /\ Len(toServer'[c]) = Len(toServer[c]) + 1
            /\ toServer'[c][Len(toServer[c]) + 1] = m
  BY SendFacts
<1>2. CASE toServer'[c] = toServer[c]
  BY <1>2
<1>3. CASE Len(toServer'[c]) = Len(toServer[c]) + 1 /\ toServer'[c][Len(toServer[c]) + 1] = m
  <2>1. \A i \in 1 .. Len(toServer'[c]) : i \in 1 .. Len(toServer[c]) \/ i = Len(toServer[c]) + 1
    BY <1>1, <1>3
  <2>. QED BY <1>1, <1>3, <2>1 DEF Has
<1>. QED BY <1>1, <1>2, <1>3

LEMMA OnlySaid ==
  ASSUME TypeOK, NEW c \in Client, NEW ch \in Channel, NEW data \in VoiceData,
         toServer' = SentVoice(c, ch, data), NEW x, Has(toServer'[c], x)
  PROVE  Has(toServer[c], x) \/ x = "SENDVOICE"
<1>1. CASE ch = "group" /\ Group[c] = NoGroup
  BY <1>1 DEF SentVoice
<1>2. CASE ~ (ch = "group" /\ Group[c] = NoGroup)
  <2>1. FloorOf(c, ch) \in Floors
    BY <1>2, ChannelFloor DEF Channel
  <2>2. Voice(c, FloorOf(c, ch), data) \in ToServer /\ Voice(c, FloorOf(c, ch), data).cmd = "SENDVOICE"
    BY <2>1 DEF Voice, ToServer, VoicePacket
  <2>. QED BY <1>2, <2>2, OnlySent DEF SentVoice
<1>. QED BY <1>1, <1>2

\* c's own steps.
LEMMA ClientListed ==
  ASSUME TypeOK, NEW c \in Client, Good(c), NobodyElse(c), AppStep(c) \/ Wake(c) \/ NetStep(c)
  PROVE  NobodyElse(c)'
<1>1. logged' = logged
  BY ServerAlone
<1>2. ASSUME \A u \in Client \ {c} : c \in logged /\ WillKnow(c, u)' => WillKnow(c, u),
             \/ link'[c] = "connecting" \/ Has(toServer'[c], "LOGINSERVER")
               => /\ link[c] = "connecting" \/ Has(toServer[c], "LOGINSERVER")
                  /\ userInfoList'[c] \subseteq userInfoList[c]
             \/ userInfoList'[c] = {}
      PROVE  NobodyElse(c)'
  BY <1>1, <1>2 DEF NobodyElse
<1>3. ASSUME toClient' = toClient, userInfoList'[c] \subseteq userInfoList[c]
      PROVE  \A u \in Client \ {c} : WillKnow(c, u)' => WillKnow(c, u)
  BY <1>3, KnowQuiet
<1>4. CASE Login(c)
  BY <1>2, <1>3, <1>4 DEF Login, queueVars, TypeOK
<1>5. ASSUME NEW ch \in Channel, StartSendAudio(c, ch)
      PROVE  NobodyElse(c)'
  <2>1. /\ link' = link /\ userInfoList' = userInfoList /\ toClient' = toClient
        /\ toServer' = toServer \/ toServer' = SentVoice(c, ch, "AUDIO_SEND_DISABLE")
    BY <1>5 DEF StartSendAudio, rosterVars
  <2>2. Has(toServer'[c], "LOGINSERVER") => Has(toServer[c], "LOGINSERVER")
    BY <2>1, OnlySaid DEF VoiceData
  <2>. QED BY <1>2, <1>3, <2>1, <2>2
<1>6. ASSUME NEW q \in BOOLEAN, StopSendAudio(c, q)
      PROVE  NobodyElse(c)'
  <2>1. /\ link' = link /\ userInfoList' = userInfoList /\ toClient' = toClient
        /\ toServer' = SentVoice(c, speakChannel[c], "AUDIO_SEND_ENABLE") /\ speakChannel[c] \in Channel
    BY <1>6 DEF StopSendAudio, rosterVars, TypeOK
  <2>2. Has(toServer'[c], "LOGINSERVER") => Has(toServer[c], "LOGINSERVER")
    BY <2>1, OnlySaid DEF VoiceData
  <2>. QED BY <1>2, <1>3, <2>1, <2>2
<1>7. CASE StopCheck(c) \/ StopClose(c) \/ Wake(c) \/ OpenMediaSender(c) \/ \E ch \in Channel : StopWrite(c, ch)
  <2>1. link' = link /\ userInfoList' = userInfoList /\ toClient' = toClient /\ toServer' = toServer
    BY <1>7 DEF StopCheck, StopClose, Wake, OpenMediaSender, StopWrite, rosterVars, queueVars
  <2>. QED BY <1>2, <1>3, <2>1
<1>8. CASE Quit(c)
  BY <1>2, <1>3, <1>8 DEF Quit, TypeOK
<1>9. CASE Connected(c)
  BY <1>2, <1>3, <1>9 DEF Connected, LoginServer, rosterVars
<1>10. CASE LoginRefusedOrUserQuit(c)
  <2>1. c \notin logged
    BY <1>10 DEF Good, Session, LoginRefusedOrUserQuit, Receives, Entry, TypeOK
  <2>2. link'[c] = "none" /\ toServer'[c] = << >>
    BY <1>10 DEF LoginRefusedOrUserQuit, Teardown, SessionEnds, TypeOK
  <2>. QED BY <1>2, <2>1, <2>2 DEF Has
<1>11. CASE NetStep(c) /\ ~ Connected(c) /\ ~ LoginRefusedOrUserQuit(c) /\ ~ OpenMediaSender(c)
  <2> DEFINE m == Head(toClient[c])
  <2>1. /\ link' = link /\ link[c] = "up" /\ toClient[c] # << >> /\ Handled(c)
        /\ toServer' = toServer \/ toServer' = Sent(c, Packet("GETUSERLIST"))
        /\ \/ userInfoList' = userInfoList /\ m.cmd \in {"SENDVOICE", "LOGINSERVERED"}
           \/ RemoteUserLogin(c) \/ RemoteUserQuit(c) \/ UpdateUserList(c)
    BY <1>11 DEF NetStep, LoginServered, RemoteUserLogin, RemoteUserQuit, UpdateUserList, VoiceIgnored,
         VoiceGranted, GrantsMe, VoiceEnable, VoiceDisable, Hears, Receives, rosterVars
  <2>2. ~ Has(toServer[c], "LOGINSERVER")
    BY <2>1 DEF Good, Session, Has, Entry
  <2>3. ~ Has(toServer'[c], "LOGINSERVER")
    <3>1. Packet("GETUSERLIST") \in ToServer /\ Packet("GETUSERLIST").cmd = "GETUSERLIST"
      BY DEF Packet, ToServer
    <3>. QED BY <2>1, <2>2, <3>1, OnlySent
  <2>4. /\ 1 \in 1 .. Len(toClient[c]) /\ toClient[c][1] = m
        /\ \A cmd : Entry(toClient[c], 1, cmd) <=> m.cmd = cmd
    BY <2>1 DEF TypeOK, Entry
  <2>5. \A u \in userInfoList'[c] : ~ Takes(c, 1, u) /\ (u \in userInfoList[c] \/ Brings(c, 1, u))
    <3>1. CASE userInfoList' = userInfoList /\ m.cmd \in {"SENDVOICE", "LOGINSERVERED"}
      BY <2>4, <3>1 DEF Takes
    <3>2. CASE RemoteUserLogin(c)
      BY <2>4, <3>2 DEF RemoteUserLogin, Receives, Takes, Brings, TypeOK
    <3>3. CASE RemoteUserQuit(c)
      BY <2>4, <3>3 DEF RemoteUserQuit, Receives, Takes, TypeOK
    <3>4. CASE UpdateUserList(c)
      BY <2>4, <3>4 DEF UpdateUserList, Receives, Takes, Brings, TypeOK
    <3>. QED BY <2>1, <3>1, <3>2, <3>3, <3>4
  <2>6. \A u : WillKnow(c, u)' => WillKnow(c, u)
    BY <2>1, <2>5, KnowRead
  <2>. QED BY <1>2, <2>1, <2>3, <2>6
<1>. QED BY <1>4, <1>5, <1>6, <1>7, <1>8, <1>9, <1>10, <1>11 DEF AppStep, NetStep

\* What the server does with a packet of c, to all.
LEMMA ServerFacts ==
  ASSUME TypeOK, NEW c \in Client, Good(c), ServerStep(c)
  PROVE  /\ ServerFrame /\ link[c] = "up"
         /\ openRemoteUser' = openRemoteUser
         /\ \A d \in Client \ {c} : toServer'[d] = toServer[d] /\ (d \in logged' <=> d \in logged)
         /\ \A x : Has(toServer'[c], x) => Has(toServer[c], x)
         /\ \A x : Has(toServer[c], x) => Has(toServer'[c], x) \/ toServer[c][1].cmd = x
<1>1. /\ ServerFrame /\ openRemoteUser' = openRemoteUser
      /\ \E cmd : Asked(c, cmd) /\ Served(c)
      /\ \A d \in Client \ {c} : d \in logged' <=> d \in logged
  BY DEF ServerStep, ServerLogin, ServerRefuse, ServerUserList, ServerQuit, ServerGrant,
     ServerRelease, ServerIgnore, AskedVoice, ServerFrame, talkVars, rosterVars, serverVars
<1>2. /\ link[c] = "up" /\ \A d \in Client \ {c} : toServer'[d] = toServer[d]
      /\ \A i \in 1 .. Len(toServer[c]) : i # 1 =>
           i - 1 \in 1 .. Len(toServer'[c]) /\ toServer'[c][i - 1] = toServer[c][i]
      /\ \A i \in 1 .. Len(toServer'[c]) :
           i + 1 \in 1 .. Len(toServer[c]) /\ toServer'[c][i] = toServer[c][i + 1]
  BY <1>1, AskedFacts, StillAsked
<1>3. /\ \A x : Has(toServer'[c], x) => Has(toServer[c], x)
      /\ \A x : Has(toServer[c], x) => Has(toServer'[c], x) \/ toServer[c][1].cmd = x
  BY <1>2 DEF Has
<1>. QED BY <1>1, <1>2, <1>3

\* What is said to d brings nobody who is not there, and takes whoever leaves.
LEMMA ToldListed ==
  ASSUME TypeOK, NEW d \in Client, NobodyElse(d), NEW s \in Seq(ToClient), toClient'[d] = toClient[d] \o s,
         link'[d] = link[d], userInfoList'[d] = userInfoList[d],
         Has(toServer'[d], "LOGINSERVER") => Has(toServer[d], "LOGINSERVER"),
         d \in logged' => d \in logged,
         \A u : (\E i \in 1 .. Len(s) : BringsIt(s[i], u)) => u \in logged',
         \A u \in Client \ {d} : d \in logged /\ u \in logged /\ u \notin logged' => \E i \in 1 .. Len(s) : TakesIt(s[i], u)
  PROVE  NobodyElse(d)'
<1>1. ASSUME d \in logged', NEW u \in Client \ {d}, WillKnow(d, u)'
      PROVE  u \in logged'
  <2>1. \/ WillKnow(d, u) /\ \A i \in 1 .. Len(s) : ~ TakesIt(s[i], u)
        \/ \E i \in 1 .. Len(s) : BringsIt(s[i], u)
    BY <1>1, KnowTold
  <2>2. WillKnow(d, u) => u \in logged
    BY <1>1 DEF NobodyElse
  <2>. QED BY <1>1, <2>1, <2>2
<1>. QED BY <1>1 DEF NobodyElse

\* The same for a single packet, and for none.
LEMMA OneListed ==
  ASSUME TypeOK, NEW d \in Client, NobodyElse(d), NEW m \in ToClient, toClient'[d] = toClient[d] \o << m >>,
         link'[d] = link[d], userInfoList'[d] = userInfoList[d],
         Has(toServer'[d], "LOGINSERVER") => Has(toServer[d], "LOGINSERVER"),
         d \in logged' => d \in logged,
         \A u : BringsIt(m, u) => u \in logged',
         \A u \in Client \ {d} : d \in logged /\ u \in logged /\ u \notin logged' => TakesIt(m, u)
  PROVE  NobodyElse(d)'
<1>1. PICK s \in Seq(ToClient) : s = << m >> /\ Len(s) = 1 /\ 1 \in 1 .. Len(s) /\ \A i \in 1 .. Len(s) : s[i] = m
  BY Single
<1>2. toClient'[d] = toClient[d] \o s
  BY <1>1
<1>3. /\ \A u : (\E i \in 1 .. Len(s) : BringsIt(s[i], u)) => u \in logged'
      /\ \A u \in Client \ {d} : d \in logged /\ u \in logged /\ u \notin logged' => \E i \in 1 .. Len(s) : TakesIt(s[i], u)
  BY <1>1
<1>. QED BY <1>2, <1>3, ToldListed

LEMMA NoneListed ==
  ASSUME TypeOK, NEW d \in Client, NobodyElse(d), toClient'[d] = toClient[d],
         link'[d] = link[d], userInfoList'[d] = userInfoList[d],
         Has(toServer'[d], "LOGINSERVER") => Has(toServer[d], "LOGINSERVER"),
         d \in logged' => d \in logged, d \in logged => logged \subseteq logged'
  PROVE  NobodyElse(d)'
<1>1. \A u : WillKnow(d, u)' => WillKnow(d, u)
  BY KnowQuiet
<1>. QED BY <1>1 DEF NobodyElse

LEMMA ServerListed ==
  ASSUME TypeOK, IInv, ListedInv, NEW c \in Client, ServerStep(c)
  PROVE  ListedInv'
<1>1. /\ Good(c) /\ \A d \in Client : NobodyElse(d)
      /\ \A d \in Client : link'[d] = link[d] /\ userInfoList'[d] = userInfoList[d]
      /\ \A d \in Client : Has(toServer'[d], "LOGINSERVER") => Has(toServer[d], "LOGINSERVER")
      /\ \A d \in Client \ {c} : d \in logged' <=> d \in logged
  <2>1. Good(c) /\ \A d \in Client : NobodyElse(d)
    BY DEF IInv, ListedInv
  <2>. QED BY <2>1, ServerFacts DEF ServerFrame, Has
<1> DEFINE q == About("REMOTEUSERQUIT", c)
           a == About("REMOTEUSERLOGIN", c)
<1>2. q \in ToClient /\ (\A u : BringsIt(q, u) => FALSE) /\ TakesIt(q, c)
  BY DEF About, ToClient, BringsIt, TakesIt
<1>3. ASSUME NEW d \in Client \ {c}, logged' = logged, toClient'[d] = toClient[d]
      PROVE  NobodyElse(d)'
  BY <1>1, <1>3, NoneListed
<1>4. ASSUME NEW d \in Client, NEW m \in ToClient, toClient'[d] = toClient[d] \o << m >>, logged' = logged,
             \A u : BringsIt(m, u) => u \in logged
      PROVE  NobodyElse(d)'
  BY <1>1, <1>4, OneListed
<1>5. CASE ServerLogin(c)
  <2>1. Asked(c, "LOGINSERVER") /\ Served(c) /\ logged' = logged \cup {c}
    BY <1>5 DEF ServerLogin
  <2>2. /\ 1 \in 1 .. Len(toServer[c]) /\ toServer[c][1].cmd = "LOGINSERVER"
    BY <1>1, <2>1, AskedFacts
  <2>3. c \notin logged /\ toClient[c] = << >> /\ Len(toClient[c]) = 0 /\ userInfoList[c] = {}
    BY <1>1, <2>2 DEF Good, Session, Entry, NobodyElse, Has
  <2>4. NobodyElse(c)'
    <3>1. PICK s \in Seq(ToClient) :
            /\ s = << Packet("LOGINSERVERED") >> \o Replay(c, Room) \o Replay(c, Group[c])
            /\ 1 \in 1 .. Len(s) /\ s[1].cmd = "LOGINSERVERED"
            /\ \A i \in 1 .. Len(s) :
                 \/ s[i].cmd = "LOGINSERVERED"
                 \/ /\ s[i].cmd = "SENDVOICE" /\ s[i].floor \in Floors
                    /\ s[i].user # c /\ holder[s[i].floor] = s[i].user
                    /\ s[i].data = "AUDIO_SEND_DISABLE"
      BY ReplayNews
    <3>2. toClient'[c] = toClient[c] \o s
      BY <1>5, <3>1 DEF ServerLogin, Tell
    <3>3. \A i \in 1 .. Len(s) : \A u : ~ BringsIt(s[i], u)
      BY <3>1 DEF BringsIt
    <3>4. \A u : ~ WillKnow(c, u)
      BY <2>3 DEF WillKnow
    <3>5. \A u : ~ WillKnow(c, u)'
      BY <1>1, <3>2, <3>3, <3>4, KnowTold
    <3>. QED BY <1>1, <3>5 DEF NobodyElse
  <2>5. ASSUME NEW d \in Client \ {c}
        PROVE  NobodyElse(d)'
    <3>1. CASE d \in logged
      <4>1. /\ a \in ToClient /\ toClient'[d] = toClient[d] \o << a >>
        BY <1>5, <2>3, <3>1 DEF ServerLogin, Tell, About, ToClient
      <4>2. \A u : BringsIt(a, u) => u \in logged'
        BY <2>1 DEF BringsIt, About
      <4> HIDE DEF a
      <4>. QED BY <1>1, <2>1, <4>1, <4>2, OneListed
    <3>2. CASE d \notin logged
      <4>1. toClient'[d] = toClient[d]
        BY <1>5, <3>2 DEF ServerLogin, Tell
      <4>. QED BY <1>1, <3>2, <4>1, NoneListed
    <3>. QED BY <3>1, <3>2
  <2>. QED BY <2>4, <2>5 DEF ListedInv
<1>6. CASE ServerRefuse(c) \/ ServerUserList(c)
  <2>1. PICK m \in ToClient : /\ toClient'[c] = toClient[c] \o << m >>
                              /\ \A u : BringsIt(m, u) => u \in logged
    <3>1. CASE ServerRefuse(c)
      <4>1. Packet("LOGINREFUSED") \in ToClient /\ \A u : ~ BringsIt(Packet("LOGINREFUSED"), u)
        BY DEF Packet, ToClient, BringsIt
      <4>. QED BY <3>1, <4>1 DEF ServerRefuse, Tell
    <3>2. CASE ServerUserList(c)
      <4>1. UserList(logged) \in ToClient /\ \A u : BringsIt(UserList(logged), u) => u \in logged
        BY DEF UserList, ToClient, TypeOK, BringsIt
      <4>. QED BY <3>2, <4>1 DEF ServerUserList, Tell
    <3>. QED BY <1>6, <3>1, <3>2
  <2>2. logged' = logged /\ \A d \in Client \ {c} : toClient'[d] = toClient[d]
    BY <1>6 DEF ServerRefuse, ServerUserList, Tell, serverVars, TypeOK
  <2>. QED BY <1>3, <1>4, <2>1, <2>2 DEF ListedInv
<1>7. CASE ServerQuit(c)
  <2>1. logged' = logged \ {c} /\ c \notin logged'
    BY <1>7 DEF ServerQuit
  <2>2. NobodyElse(c)'
    BY <1>1, <2>1 DEF NobodyElse
  <2>3. ASSUME NEW d \in Client \ {c}
        PROVE  NobodyElse(d)'
    <3>1. CASE {c, d} \subseteq logged
      <4>1. toClient'[d] = toClient[d] \o << q >>
        BY <1>7, <3>1 DEF ServerQuit, Tell
      <4> HIDE DEF q
      <4>. QED BY <1>1, <1>2, <2>1, <4>1, OneListed
    <3>2. CASE ~ {c, d} \subseteq logged
      <4>1. toClient'[d] = toClient[d]
        BY <1>7, <3>2 DEF ServerQuit, Tell, TypeOK
      <4>. QED BY <1>1, <2>1, <3>2, <4>1, NoneListed
    <3>. QED BY <3>1, <3>2
  <2>. QED BY <2>2, <2>3 DEF ListedInv
<1>8. CASE ServerGrant(c) \/ ServerRelease(c) \/ ServerIgnore(c)
  <2>1. logged' = logged
    BY <1>8 DEF ServerGrant, ServerRelease, ServerIgnore, serverVars
  <2>2. ASSUME NEW d \in Client
        PROVE  NobodyElse(d)'
    <3>1. \/ toClient'[d] = toClient[d]
          \/ \E data \in VoiceData : toClient'[d] = toClient[d] \o << Voice(c, Head(toServer[c]).floor, data) >>
      <4>1. CASE ServerGrant(c)
        BY <4>1 DEF ServerGrant, Tell, VoiceData
      <4>2. CASE ServerRelease(c)
        <5>1. toClient[d] \o << >> = toClient[d]
          BY DEF TypeOK
        <5>. QED BY <4>2, <5>1 DEF ServerRelease, Tell, VoiceData
      <4>3. CASE ServerIgnore(c)
        BY <4>3 DEF ServerIgnore
      <4>. QED BY <1>8, <4>1, <4>2, <4>3
    <3>2. CASE toClient'[d] = toClient[d]
      BY <1>1, <2>1, <3>2, NoneListed
    <3>3. ASSUME NEW data \in VoiceData,
                 toClient'[d] = toClient[d] \o << Voice(c, Head(toServer[c]).floor, data) >>,
                 ~ ServerIgnore(c)
          PROVE  NobodyElse(d)'
      <4> DEFINE m == Voice(c, Head(toServer[c]).floor, data)
      <4>1. Head(toServer[c]).floor \in Floors
        BY <1>8, <3>3, HeadType DEF ServerGrant, ServerRelease, AskedVoice, Asked, ToServer, VoicePacket
      <4>2. m \in ToClient /\ \A u : ~ BringsIt(m, u)
        BY <4>1 DEF Voice, ToClient, VoicePacket, BringsIt
      <4>3. toClient'[d] = toClient[d] \o << m >>
        BY <3>3
      <4> HIDE DEF m
      <4>. QED BY <1>4, <2>1, <4>2, <4>3
    <3>4. CASE ServerIgnore(c)
      BY <3>2, <3>4 DEF ServerIgnore
    <3>. QED BY <3>1, <3>2, <3>3, <3>4
  <2>. QED BY <2>2 DEF ListedInv
<1>. QED BY <1>5, <1>6, <1>7, <1>8 DEF ServerStep

\* A client's own step leaves the lists of the others alone.
LEMMA OthersLists ==
  ASSUME TypeOK, NEW c \in Client, NEW d \in Client \ {c}, AppStep(c) \/ Wake(c) \/ NetStep(c)
  PROVE  userInfoList'[d] = userInfoList[d] /\ openRemoteUser'[d] = openRemoteUser[d]
BY DEF AppStep, Login, StartSendAudio, StopSendAudio, StopCheck, StopWrite, StopClose,
   Quit, Wake, NetStep, Connected, LoginServer, LoginServered, LoginRefusedOrUserQuit, Teardown, RemoteUserLogin,
   RemoteUserQuit, UpdateUserList, VoiceIgnored, VoiceGranted, OpenMediaSender, VoiceEnable,
   VoiceDisable, rosterVars, TypeOK

LEMMA StepListed ==
  ASSUME TypeOK, IInv, ListedInv, [PromptNext]_vars
  PROVE  ListedInv'
<1>1. CASE UNCHANGED vars
  <2>1. \A d \in Client : /\ NobodyElse(d) /\ toClient'[d] = toClient[d] /\ link'[d] = link[d]
                          /\ userInfoList'[d] = userInfoList[d] /\ toServer'[d] = toServer[d] /\ logged' = logged
    BY <1>1 DEF vars, rosterVars, queueVars, serverVars, ListedInv
  <2>. QED BY <2>1, NoneListed DEF ListedInv
<1>2. ASSUME NEW c \in Client, AppStep(c) \/ Wake(c) \/ NetStep(c)
      PROVE  ListedInv'
  <2>1. Good(c) /\ NobodyElse(c) /\ logged' = logged
    BY <1>2, ServerAlone DEF IInv, ListedInv
  <2>2. NobodyElse(c)'
    BY <1>2, <2>1, ClientListed
  <2>3. ASSUME NEW d \in Client \ {c}
        PROVE  NobodyElse(d)'
    <3>1. Same(d) /\ userInfoList'[d] = userInfoList[d] /\ NobodyElse(d)
      BY <1>2, <2>1, OthersSame, LoginRefusedOrUserQuitGood, OthersLists DEF ListedInv
    <3>. QED BY <2>1, <3>1, NoneListed DEF Same
  <2>. QED BY <2>2, <2>3 DEF ListedInv
<1>. QED BY <1>1, <1>2, ServerListed DEF PromptNext, PromptStep

LEMMA PromptListed == PromptSpec => []ListedInv
<1>1. Init => ListedInv
  BY DEF Init, ListedInv, NobodyElse, Has
<1>2. TypeOK /\ IInv /\ ListedInv /\ [PromptNext]_vars => ListedInv'
  BY StepListed
<1>. QED BY <1>1, <1>2, PromptTypes, FloorInvariant, PTL DEF PromptSpec

\* A client that waits for nothing lists exactly the users of its room.
THEOREM ListIsExact == PromptSpec => []UserListExact
<1>1. TypeOK /\ ListedInv /\ AnyInv => UserListExact
  <2>1. SUFFICES ASSUME TypeOK, ListedInv, AnyInv, NEW c \in Client, Drained(c), toServer[c] = << >>
                 PROVE  userInfoList[c] \cup {c} = logged
    BY DEF UserListExact
  <2>2. /\ Sound(c) /\ NobodyElse(c) /\ c \in logged /\ link[c] = "up"
        /\ Len(toClient[c]) = 0 /\ Len(toServer[c]) = 0 /\ userInfoList[c] \subseteq Client /\ logged \subseteq Client
    BY <2>1 DEF AnyInv, ListedInv, Drained, TypeOK
  <2>3. \A u : WillKnow(c, u) <=> u \in userInfoList[c]
    BY <2>2 DEF WillKnow
  <2>4. InSession(c) /\ ~ ListToCome(c)
    BY <2>2 DEF InSession, Over, ListToCome, Has
  <2>. QED BY <2>2, <2>3, <2>4 DEF Sound, Informed, NobodyElse
<1>. QED BY <1>1, PromptTypes, PromptListed, PromptAny, PTL

-----------------------------------------------------------------------------
(* Whoever is shown as a speaker is played.                                *)

\* Nothing is read, and no new speaker is shown.
LEMMA PlayedQuiet ==
  ASSUME NEW c \in Client, Played(c), ToBePlayed(c), toClient'[c] = toClient[c], c \in logged' => c \in logged,
         \A ch \in Channel : c \in logged /\ audioStatus'[c][ch] = "AUDIO_SEND_DISABLE" =>
           audioStatus[c][ch] = "AUDIO_SEND_DISABLE" /\ speakerName'[c][ch] = speakerName[c][ch],
         c \in logged => Leaving(c)' \/ ((Leaving(c) => Leaving(c)') /\ openRemoteUser'[c] = openRemoteUser[c])
  PROVE  Played(c)' /\ ToBePlayed(c)'
<1>1. /\ \A i : News(c, i)' <=> News(c, i)
      /\ \A i, u, f : Frees(c, i, u, f)' <=> Frees(c, i, u, f)
  BY QueueFacts
<1>2. \A k, u, f : NoOtherFloor(c, k, u, f)' <=> NoOtherFloor(c, k, u, f)
  BY <1>1 DEF NoOtherFloor
<1>3. Played(c)'
  <2>1. SUFFICES ASSUME NEW ch \in Channel, c \in logged', audioStatus'[c][ch] = "AUDIO_SEND_DISABLE",
                        NEW u, u = speakerName'[c][ch], NEW f, f = FloorOf(c, ch)
                 PROVE  (Leaving(c)' \/ u \in openRemoteUser'[c]) /\ NoOtherFloor(c, 0, u, f)'
    BY DEF Played, FloorOf
  <2>. QED BY <1>2, <2>1 DEF Played
<1>4. ToBePlayed(c)'
  <2>1. SUFFICES ASSUME NEW k \in 1 .. Len(toClient'[c]), c \in logged', News(c, k)',
                        NEW m, m = toClient'[c][k], m.data = "AUDIO_SEND_DISABLE"
                 PROVE  NoOtherFloor(c, k, m.user, m.floor)'
    BY DEF ToBePlayed
  <2>. QED BY <1>1, <1>2, <2>1 DEF ToBePlayed
<1>. QED BY <1>3, <1>4

\* c reads a packet.
LEMMA PlayedRead ==
  ASSUME TypeOK, NEW c \in Client, Played(c), ToBePlayed(c), toClient[c] # << >>, Handled(c),
         logged' = logged, Leaving(c) => Leaving(c)',
         \A ch \in Channel : c \in logged /\ audioStatus'[c][ch] = "AUDIO_SEND_DISABLE" =>
           \/ /\ audioStatus[c][ch] = "AUDIO_SEND_DISABLE" /\ speakerName'[c][ch] = speakerName[c][ch]
              /\ speakerName[c][ch] \in openRemoteUser[c] => speakerName[c][ch] \in openRemoteUser'[c]
              /\ ~ Frees(c, 1, speakerName[c][ch], FloorOf(c, ch))
           \/ /\ News(c, 1) /\ Head(toClient[c]).data = "AUDIO_SEND_DISABLE"
              /\ speakerName'[c][ch] = Head(toClient[c]).user
              /\ FloorOf(c, ch) = Head(toClient[c]).floor
              /\ Head(toClient[c]).user \in openRemoteUser'[c]
  PROVE  Played(c)' /\ ToBePlayed(c)'
<1> DEFINE n == Len(toClient'[c])
<1>1. /\ Len(toClient[c]) \in Nat \ {0} /\ toClient[c][1] = Head(toClient[c])
      /\ n = Len(toClient[c]) - 1
      /\ \A i \in 1 .. n :
           /\ i + 1 \in 1 .. Len(toClient[c]) /\ toClient'[c][i] = toClient[c][i + 1]
           /\ News(c, i)' <=> News(c, i + 1)
           /\ \A u, f : Frees(c, i, u, f)' <=> Frees(c, i + 1, u, f)
  BY Read
<1>2. n \in Nat /\ Len(toClient[c]) = n + 1
  BY <1>1
<1> HIDE DEF n
<1>3. ASSUME NEW k \in 0 .. n, NEW u, NEW f, NoOtherFloor(c, k + 1, u, f)
      PROVE  NoOtherFloor(c, k, u, f)'
  <2>1. SUFFICES ASSUME NEW j \in k + 1 .. n, NEW g \in Floors \ {f},
                        toClient'[c][j] = Voice(u, g, "AUDIO_SEND_ENABLE")
                 PROVE  \E i \in k + 1 .. j - 1 : Frees(c, i, u, f)'
    BY DEF NoOtherFloor, n
  <2>2. j \in 1 .. n /\ j + 1 \in (k + 1) + 1 .. n + 1
    BY <1>2, <2>1
  <2>3. toClient[c][j + 1] = Voice(u, g, "AUDIO_SEND_ENABLE")
    BY <1>1, <2>1, <2>2
  <2>4. \E i \in (k + 1) + 1 .. (j + 1) - 1 : Frees(c, i, u, f)
    BY <1>2, <1>3, <2>2, <2>3 DEF NoOtherFloor
  <2>5. PICK i \in (k + 1) + 1 .. (j + 1) - 1 : Frees(c, i, u, f)
    BY <2>4
  <2>6. i - 1 \in k + 1 .. j - 1 /\ i - 1 \in 1 .. n /\ (i - 1) + 1 = i
    BY <1>2, <2>2, <2>5
  <2>7. Frees(c, i - 1, u, f)'
    BY <1>1, <2>5, <2>6
  <2>. QED BY <2>6, <2>7
<1>4. ASSUME NEW u, NEW f, NoOtherFloor(c, 0, u, f), ~ Frees(c, 1, u, f)
      PROVE  NoOtherFloor(c, 1, u, f)
  <2>1. SUFFICES ASSUME NEW j \in 1 + 1 .. n + 1, NEW g \in Floors \ {f},
                        toClient[c][j] = Voice(u, g, "AUDIO_SEND_ENABLE")
                 PROVE  \E i \in 1 + 1 .. j - 1 : Frees(c, i, u, f)
    BY <1>2 DEF NoOtherFloor
  <2>2. j \in 0 + 1 .. n + 1
    BY <1>2, <2>1
  <2>3. PICK i \in 0 + 1 .. j - 1 : Frees(c, i, u, f)
    BY <1>2, <1>4, <2>1, <2>2 DEF NoOtherFloor
  <2>4. i # 1 => i \in 1 + 1 .. j - 1
    BY <2>2, <2>3
  <2>. QED BY <1>4, <2>3, <2>4
<1>5. Played(c)'
  <2>1. SUFFICES ASSUME NEW ch \in Channel, c \in logged', audioStatus'[c][ch] = "AUDIO_SEND_DISABLE",
                        NEW u, u = speakerName'[c][ch], NEW f, f = FloorOf(c, ch)
                 PROVE  (Leaving(c)' \/ u \in openRemoteUser'[c]) /\ NoOtherFloor(c, 0, u, f)'
    BY DEF Played, FloorOf
  <2>2. (Leaving(c)' \/ u \in openRemoteUser'[c]) /\ NoOtherFloor(c, 1, u, f)
    <3>1. CASE /\ audioStatus[c][ch] = "AUDIO_SEND_DISABLE" /\ u = speakerName[c][ch]
               /\ u \in openRemoteUser[c] => u \in openRemoteUser'[c]
               /\ ~ Frees(c, 1, u, f)
      <4>1. (Leaving(c) \/ u \in openRemoteUser[c]) /\ NoOtherFloor(c, 0, u, f)
        BY <2>1, <3>1 DEF Played
      <4>. QED BY <1>4, <3>1, <4>1
    <3>2. CASE /\ News(c, 1) /\ Head(toClient[c]).data = "AUDIO_SEND_DISABLE"
               /\ u = Head(toClient[c]).user /\ f = Head(toClient[c]).floor /\ u \in openRemoteUser'[c]
      <4>1. 1 \in 1 .. Len(toClient[c])
        BY <1>1
      <4>. QED BY <1>1, <2>1, <3>2, <4>1 DEF ToBePlayed
    <3>. QED BY <2>1, <3>1, <3>2
  <2>3. 0 \in 0 .. n /\ 0 + 1 = 1
    BY <1>2
  <2>. QED BY <1>3, <2>2, <2>3
<1>6. ToBePlayed(c)'
  <2>1. SUFFICES ASSUME NEW k \in 1 .. n, c \in logged', News(c, k)',
                        NEW m, m = toClient'[c][k], m.data = "AUDIO_SEND_DISABLE"
                 PROVE  NoOtherFloor(c, k, m.user, m.floor)'
    BY DEF ToBePlayed, n
  <2>2. k + 1 \in 1 .. Len(toClient[c]) /\ News(c, k + 1) /\ m = toClient[c][k + 1] /\ k \in 0 .. n
    BY <1>1, <1>2, <2>1
  <2>3. NoOtherFloor(c, k + 1, m.user, m.floor)
    BY <2>1, <2>2 DEF ToBePlayed
  <2>. QED BY <1>3, <2>2, <2>3
<1>. QED BY <1>5, <1>6

\* Whom d believes, or will believe, on f frees no other floor first, whatever
\* is said to d by one who has no other floor.
LEMMA NoOtherTold ==
  ASSUME TypeOK, NEW d \in Client, NEW s \in Seq(ToClient), toClient'[d] = toClient[d] \o s,
         NEW k \in 0 .. Len(toClient[d]), NEW u, NEW f, f \in Floors, u # d, NoOtherFloor(d, k, u, f),
         holder[f] = u \/ \E j \in k + 1 .. Len(toClient[d]) : Frees(d, j, u, f),
         \A i \in 1 .. Len(s) : \A g \in Floors : s[i] = Voice(u, g, "AUDIO_SEND_ENABLE") =>
           u = d \/ \A h \in Floors \ {g} : holder[h] # u
  PROVE  NoOtherFloor(d, k, u, f)'
<1>0. PICK n \in Nat : n = Len(toClient[d])
  BY Append1
<1>1. /\ n \in Nat /\ Len(s) \in Nat /\ Len(toClient'[d]) = n + Len(s)
      /\ \A i \in 1 .. n :
           /\ toClient'[d][i] = toClient[d][i]
           /\ \A v, h : Frees(d, i, v, h)' <=> Frees(d, i, v, h)
      /\ \A i \in 1 .. Len(s) : toClient'[d][n + i] = s[i]
  BY <1>0, Append1
<1>2. SUFFICES ASSUME NEW j \in k + 1 .. n + Len(s), NEW g \in Floors \ {f},
                      toClient'[d][j] = Voice(u, g, "AUDIO_SEND_ENABLE")
               PROVE  \E i \in k + 1 .. j - 1 : Frees(d, i, u, f)'
  BY <1>1 DEF NoOtherFloor
<1>3. k \in 0 .. n /\ j \in Nat
  BY <1>0, <1>1, <1>2
<1>4. CASE j \in 1 .. n
  <2>1. toClient[d][j] = Voice(u, g, "AUDIO_SEND_ENABLE") /\ j \in k + 1 .. Len(toClient[d])
    BY <1>0, <1>1, <1>2, <1>4
  <2>2. PICK i \in k + 1 .. j - 1 : Frees(d, i, u, f)
    BY <2>1 DEF NoOtherFloor
  <2>3. i \in 1 .. n
    BY <1>3, <1>4, <2>2
  <2>. QED BY <1>1, <2>2, <2>3
<1>5. CASE j \notin 1 .. n
  <2>1. j - n \in 1 .. Len(s) /\ n + (j - n) = j
    BY <1>1, <1>2, <1>3, <1>5
  <2>2. s[j - n] = Voice(u, g, "AUDIO_SEND_ENABLE")
    BY <1>1, <1>2, <2>1
  <2>3. holder[f] # u
    BY <1>2, <2>1, <2>2
  <2>4. PICK i \in k + 1 .. n : Frees(d, i, u, f)
    BY <1>0, <2>3
  <2>5. i \in 1 .. n /\ i \in k + 1 .. j - 1
    BY <1>1, <1>3, <1>5, <2>4
  <2>. QED BY <1>1, <2>4, <2>5
<1>. QED BY <1>4, <1>5

\* The server says s to d.
LEMMA PlayedTold ==
  ASSUME TypeOK, NEW d \in Client, Good(d), Played(d), ToBePlayed(d),
         NEW s \in Seq(ToClient), toClient'[d] = toClient[d] \o s, d \in logged' => d \in logged,
         audioStatus'[d] = audioStatus[d], speakerName'[d] = speakerName[d], openRemoteUser'[d] = openRemoteUser[d],
         d \in logged' /\ Leaving(d) => Leaving(d)',
         \A i \in 1 .. Len(s) : \A u, g : s[i] = Voice(u, g, "AUDIO_SEND_ENABLE") =>
           u = d \/ \A h \in Floors \ {g} : holder[h] # u,
         \/ \A i \in 1 .. Len(s) : ~ (s[i].cmd = "SENDVOICE" /\ s[i].data = "AUDIO_SEND_DISABLE")
         \/ \A i \in 1 .. Len(s) : \A u, g : s[i] # Voice(u, g, "AUDIO_SEND_ENABLE")
  PROVE  Played(d)' /\ ToBePlayed(d)'
<1>0. PICK n \in Nat : n = Len(toClient[d])
  BY Append1
<1>1. /\ n \in Nat /\ Len(s) \in Nat /\ Len(toClient'[d]) = n + Len(s)
      /\ \A i \in 1 .. n : toClient'[d][i] = toClient[d][i] /\ (News(d, i)' <=> News(d, i))
      /\ \A i \in 1 .. Len(s) : toClient'[d][n + i] = s[i]
  BY <1>0, Append1
<1>2. SUFFICES ASSUME d \in logged', d \in logged
               PROVE  Played(d)' /\ ToBePlayed(d)'
  BY DEF Played, ToBePlayed
<1>3. ASSUME NEW k \in 0 .. n, NEW u, NEW f, f \in Floors, u # d, NoOtherFloor(d, k, u, f),
             holder[f] = u \/ \E j \in k + 1 .. n : Frees(d, j, u, f)
      PROVE  NoOtherFloor(d, k, u, f)'
  <2>1. k \in 0 .. Len(toClient[d]) /\ (holder[f] = u \/ \E j \in k + 1 .. Len(toClient[d]) : Frees(d, j, u, f))
    BY <1>0, <1>3
  <2>2. \A i \in 1 .. Len(s) : \A g \in Floors : s[i] = Voice(u, g, "AUDIO_SEND_ENABLE") =>
          u = d \/ \A h \in Floors \ {g} : holder[h] # u
    OBVIOUS
  <2>. QED BY <1>3, <2>1, <2>2, NoOtherTold
<1>4. Played(d)'
  <2>1. SUFFICES ASSUME NEW ch \in Channel, audioStatus[d][ch] = "AUDIO_SEND_DISABLE",
                        NEW u, u = speakerName[d][ch], NEW f, f = FloorOf(d, ch)
                 PROVE  (Leaving(d)' \/ u \in openRemoteUser[d]) /\ NoOtherFloor(d, 0, u, f)'
    BY DEF Played, FloorOf
  <2>2. (Leaving(d) \/ u \in openRemoteUser[d]) /\ NoOtherFloor(d, 0, u, f)
    BY <1>2, <2>1 DEF Played
  <2>3. Believed(d, ch, u)
    BY <1>2, <2>1 DEF Good, Beliefs, Consistent
  <2>4. /\ u # d /\ f \in Floors
        /\ holder[f] = u \/ \E j \in 0 + 1 .. n : Frees(d, j, u, f)
    BY <1>0, <2>1, <2>3 DEF Believed
  <2>5. 0 \in 0 .. n
    BY <1>1
  <2>. QED BY <1>2, <1>3, <2>2, <2>4, <2>5
<1>5. ToBePlayed(d)'
  <2>1. SUFFICES ASSUME NEW k \in 1 .. n + Len(s), News(d, k)',
                        NEW m, m = toClient'[d][k], m.data = "AUDIO_SEND_DISABLE"
                 PROVE  NoOtherFloor(d, k, m.user, m.floor)'
    BY <1>1 DEF ToBePlayed
  <2>2. CASE k \in 1 .. n
    <3>1. News(d, k) /\ m = toClient[d][k] /\ k \in 1 .. Len(toClient[d])
      BY <1>0, <1>1, <2>1, <2>2
    <3>2. m \in ToClient /\ m.cmd = "SENDVOICE"
      BY <3>1 DEF News, Entry, TypeOK
    <3>3. m.floor \in Floors
      BY <3>2 DEF ToClient, VoicePacket
    <3>4. /\ m.user # d
          /\ holder[m.floor] = m.user \/ \E j \in k + 1 .. n : Frees(d, j, m.user, m.floor)
      BY <1>0, <1>2, <2>1, <3>1 DEF Good, Announced
    <3>5. NoOtherFloor(d, k, m.user, m.floor)
      BY <1>2, <2>1, <3>1 DEF ToBePlayed
    <3>6. k \in 0 .. n
      BY <2>2
    <3>. QED BY <1>3, <3>3, <3>4, <3>5, <3>6
  <2>3. CASE k \notin 1 .. n
    <3>1. k - n \in 1 .. Len(s) /\ n + (k - n) = k
      BY <1>1, <2>1, <2>3
    <3>2. m = s[k - n] /\ m.cmd = "SENDVOICE"
      BY <1>1, <2>1, <3>1 DEF News, Entry
    <3>3. \A i \in 1 .. Len(s) : \A u, g : s[i] # Voice(u, g, "AUDIO_SEND_ENABLE")
      BY <2>1, <3>1, <3>2
    <3>4. \A j \in k + 1 .. n + Len(s) : j - n \in 1 .. Len(s) /\ n + (j - n) = j
      BY <1>1, <2>1, <2>3
    <3>5. \A j \in k + 1 .. n + Len(s) : \A u, g : toClient'[d][j] # Voice(u, g, "AUDIO_SEND_ENABLE")
      BY <1>1, <3>3, <3>4
    <3>. QED BY <1>1, <3>5 DEF NoOtherFloor
  <2>. QED BY <2>2, <2>3
<1>. QED BY <1>4, <1>5

\* c's own steps.
LEMMA ClientPlayed ==
  ASSUME TypeOK, NEW c \in Client, toServer'[c] \in Seq(ToServer), Good(c), Played(c), ToBePlayed(c),
         AppStep(c) \/ Wake(c) \/ NetStep(c)
  PROVE  Played(c)' /\ ToBePlayed(c)'
<1>1. logged' = logged /\ (c \in logged => link[c] = "up")
  BY ServerAlone DEF Good, Session
<1>2. (Leaving(c) <=> Has(toServer[c], "QUITSERVER")) /\ (Leaving(c)' <=> Has(toServer'[c], "QUITSERVER"))
  <2>1. DOMAIN toServer[c] = 1 .. Len(toServer[c]) /\ DOMAIN toServer'[c] = 1 .. Len(toServer'[c])
    BY DEF TypeOK
  <2>. QED BY <2>1 DEF Leaving, Has
<1>3. ASSUME NEW m \in ToServer, toServer' = Sent(c, m)
      PROVE  Leaving(c) => Leaving(c)'
  BY <1>2, <1>3, SentKept DEF Has
<1>4. ASSUME NEW ch \in Channel, NEW data \in VoiceData, toServer' = SentVoice(c, ch, data)
      PROVE  Leaving(c) => Leaving(c)'
  BY <1>2, <1>4, VoiceKept DEF Has
<1>5. toServer' = toServer => (Leaving(c) => Leaving(c)')
  BY <1>2
<1>6. ASSUME c \notin logged
      PROVE  Played(c)' /\ ToBePlayed(c)'
  BY <1>1, <1>6 DEF Played, ToBePlayed
<1>7. CASE Login(c) \/ Connected(c) \/ LoginRefusedOrUserQuit(c)
  <2>1. c \notin logged
    <3>1. CASE LoginRefusedOrUserQuit(c)
      <4>1. /\ toClient[c] # << >> /\ 1 \in 1 .. Len(toClient[c]) /\ toClient[c][1] = Head(toClient[c])
            /\ Head(toClient[c]).cmd \in {"LOGINREFUSED", "USERQUIT"}
        BY <3>1 DEF LoginRefusedOrUserQuit, Receives, TypeOK
      <4>. QED BY <4>1 DEF Good, Session, Entry
    <3>. QED BY <1>1, <1>7, <3>1 DEF Login, Connected
  <2>. QED BY <1>6, <2>1
<1>8. ASSUME NEW ch \in Channel, StartSendAudio(c, ch)
      PROVE  Played(c)' /\ ToBePlayed(c)'
  <2>1. /\ audioStatus' = audioStatus /\ speakerName' = speakerName /\ openRemoteUser' = openRemoteUser
        /\ toClient' = toClient /\ (Leaving(c) => Leaving(c)')
    BY <1>4, <1>5, <1>8 DEF StartSendAudio, rosterVars, VoiceData
  <2>. QED BY <1>1, <2>1, PlayedQuiet
<1>9. ASSUME NEW q \in BOOLEAN, StopSendAudio(c, q)
      PROVE  Played(c)' /\ ToBePlayed(c)'
  <2>1. speakChannel[c] \in Channel /\ toServer' = SentVoice(c, speakChannel[c], "AUDIO_SEND_ENABLE")
    BY <1>9 DEF StopSendAudio, TypeOK
  <2>2. /\ audioStatus' = audioStatus /\ speakerName' = speakerName /\ openRemoteUser' = openRemoteUser
        /\ toClient' = toClient /\ (Leaving(c) => Leaving(c)')
    BY <1>4, <1>9, <2>1 DEF StopSendAudio, rosterVars, talkVars, VoiceData
  <2>. QED BY <1>1, <2>2, PlayedQuiet
<1>10. CASE StopCheck(c) \/ StopClose(c) \/ Wake(c) \/ OpenMediaSender(c)
  <2>1. /\ audioStatus' = audioStatus /\ speakerName' = speakerName /\ openRemoteUser' = openRemoteUser
        /\ toClient' = toClient /\ toServer' = toServer
    BY <1>10 DEF StopCheck, StopClose, Wake, OpenMediaSender, rosterVars, talkVars, queueVars
  <2>. QED BY <1>1, <1>5, <2>1, PlayedQuiet
<1>11. ASSUME NEW ch \in Channel, StopWrite(c, ch)
       PROVE  Played(c)' /\ ToBePlayed(c)'
  <2>1. /\ \A o \in Channel : audioStatus'[c][o] = "AUDIO_SEND_DISABLE" => audioStatus[c][o] = "AUDIO_SEND_DISABLE"
        /\ speakerName' = speakerName /\ openRemoteUser' = openRemoteUser
        /\ toClient' = toClient /\ toServer' = toServer
    BY <1>11 DEF StopWrite, rosterVars, queueVars, TypeOK
  <2>. QED BY <1>1, <1>5, <2>1, PlayedQuiet
<1>12. CASE Quit(c)
  <2>1. c \in logged => Leaving(c)'
    <3>1. SUFFICES ASSUME c \in logged
                   PROVE  Has(toServer'[c], "QUITSERVER")
      BY <1>2
    <3> DEFINE m == Packet("QUITSERVER")
    <3>2. m \in ToServer /\ m.cmd = "QUITSERVER"
      BY DEF Packet, ToServer
    <3>3. toServer'[c] = Append(toServer[c], m) /\ toServer[c] \in Seq(ToServer)
      <4>1. toServer \in [Client -> Seq(ToServer)] /\ link[c] = "up" /\ toServer' = Sent(c, m)
        BY <1>1, <1>12, <3>1 DEF Quit, TypeOK
      <4>. QED BY <4>1 DEF Sent
    <3> HIDE DEF m
    <3>4. Len(toServer'[c]) \in 1 .. Len(toServer'[c]) /\ toServer'[c][Len(toServer'[c])] = m
      BY <3>2, <3>3
    <3>. QED BY <3>2, <3>4 DEF Has
  <2>2. audioStatus' = audioStatus /\ speakerName' = speakerName /\ toClient' = toClient
    BY <1>12 DEF Quit
  <2>3. /\ c \in logged' => c \in logged
        /\ toClient'[c] = toClient[c]
    BY <1>1, <2>2
  <2>4. \A ch \in Channel : c \in logged /\ audioStatus'[c][ch] = "AUDIO_SEND_DISABLE" =>
          audioStatus[c][ch] = "AUDIO_SEND_DISABLE" /\ speakerName'[c][ch] = speakerName[c][ch]
    BY <2>2
  <2>5. c \in logged => Leaving(c)' \/ ((Leaving(c) => Leaving(c)') /\ openRemoteUser'[c] = openRemoteUser[c])
    BY <2>1
  <2>. QED BY <2>3, <2>4, <2>5, PlayedQuiet
<1>13. CASE NetStep(c) /\ ~ Connected(c) /\ ~ LoginRefusedOrUserQuit(c) /\ ~ OpenMediaSender(c) /\ c \in logged
  <2> DEFINE m == Head(toClient[c])
             Stays(ch) == /\ audioStatus[c][ch] = "AUDIO_SEND_DISABLE" /\ speakerName'[c][ch] = speakerName[c][ch]
                          /\ speakerName[c][ch] \in openRemoteUser[c] => speakerName[c][ch] \in openRemoteUser'[c]
                          /\ ~ Frees(c, 1, speakerName[c][ch], FloorOf(c, ch))
             Comes(ch) == /\ News(c, 1) /\ m.data = "AUDIO_SEND_DISABLE"
                          /\ speakerName'[c][ch] = m.user /\ FloorOf(c, ch) = m.floor /\ m.user \in openRemoteUser'[c]
  <2>1. /\ toClient[c] # << >> /\ Handled(c)
        /\ toServer' = toServer \/ toServer' = Sent(c, Packet("GETUSERLIST"))
    BY <1>13 DEF NetStep, LoginServered, RemoteUserLogin, RemoteUserQuit, UpdateUserList, VoiceIgnored,
       VoiceGranted, GrantsMe, VoiceEnable, VoiceDisable, Hears, Receives
  <2>2. Leaving(c) => Leaving(c)'
    <3>1. Packet("GETUSERLIST") \in ToServer
      BY DEF Packet, ToServer
    <3>. QED BY <1>3, <1>5, <2>1, <3>1
  <2>3. 1 \in 1 .. Len(toClient[c]) /\ toClient[c][1] = m /\ m \in ToClient
    BY <2>1, HeadType DEF TypeOK
  <2>4. \A u, f : Frees(c, 1, u, f) => \/ m.cmd = "REMOTEUSERQUIT" /\ m.user = u
                                       \/ m.cmd = "SENDVOICE" /\ m = Voice(u, f, "AUDIO_SEND_ENABLE")
    BY <2>3 DEF Frees, News, Entry
  <2>5. \A u, f : m = Voice(u, f, "AUDIO_SEND_ENABLE") => m.data = "AUDIO_SEND_ENABLE" /\ m.user = u /\ m.floor = f
    BY DEF Voice
  <2>6. \A ch \in Channel : audioStatus[c][ch] = "AUDIO_SEND_DISABLE" =>
          /\ Believed(c, ch, speakerName[c][ch]) /\ speakerName[c][ch] # c
          /\ NoOtherFloor(c, 0, speakerName[c][ch], FloorOf(c, ch))
    BY <1>13 DEF Good, Beliefs, Consistent, Believed, Played
  <2>7. ASSUME \A ch \in Channel : audioStatus'[c][ch] = "AUDIO_SEND_DISABLE" => Stays(ch) \/ Comes(ch)
        PROVE  Played(c)' /\ ToBePlayed(c)'
    BY <1>1, <2>1, <2>2, <2>7, PlayedRead
  <2>8. CASE LoginServered(c) \/ RemoteUserLogin(c) \/ UpdateUserList(c)
    <3>1. /\ audioStatus' = audioStatus /\ speakerName' = speakerName /\ openRemoteUser' = openRemoteUser
          /\ m.cmd \in {"LOGINSERVERED", "REMOTEUSERLOGIN", "UPDATEUSERLIST"}
      BY <2>8 DEF LoginServered, RemoteUserLogin, UpdateUserList, Receives, talkVars, rosterVars
    <3>. QED BY <2>4, <2>7, <3>1
  <2>9. CASE RemoteUserQuit(c)
    <3>1. /\ m.cmd = "REMOTEUSERQUIT" /\ openRemoteUser' = openRemoteUser
          /\ \A ch \in Channel : audioStatus'[c][ch] = "AUDIO_SEND_DISABLE" =>
               /\ speakerName[c][ch] # m.user /\ speakerName'[c][ch] = speakerName[c][ch]
               /\ audioStatus[c][ch] = "AUDIO_SEND_DISABLE"
      BY <2>9 DEF RemoteUserQuit, Receives, TypeOK
    <3>. QED BY <2>4, <2>7, <3>1
  <2>10. CASE VoiceIgnored(c)
    <3>1. /\ audioStatus' = audioStatus /\ speakerName' = speakerName /\ openRemoteUser' = openRemoteUser
          /\ m.cmd = "SENDVOICE" /\ ~ Hears(c, "AUDIO_SEND_ENABLE") /\ Receives(c, "SENDVOICE")
      <4>1. ~ Hears(c, "AUDIO_SEND_ENABLE")
        BY <2>10 DEF VoiceIgnored, Hears
      <4>. QED BY <2>10, <4>1 DEF VoiceIgnored, talkVars, rosterVars, Receives
    <3>2. ~ (m.data = "AUDIO_SEND_ENABLE" /\ m.floor \in {Room, Group[c]})
      BY <3>1 DEF Hears
    <3>3. \A ch \in Channel : FloorOf(c, ch) \in {Room, Group[c]}
      BY DEF FloorOf
    <3>. QED BY <2>4, <2>5, <2>7, <3>1, <3>2, <3>3
  <2>11. CASE VoiceGranted(c)
    <3>1. /\ speakerName' = speakerName /\ openRemoteUser' = openRemoteUser /\ m.cmd = "SENDVOICE" /\ m.user = c
          /\ \A ch \in Channel : audioStatus'[c][ch] = "AUDIO_SEND_DISABLE" => audioStatus[c][ch] = "AUDIO_SEND_DISABLE"
      BY <2>11 DEF VoiceGranted, GrantsMe, Hears, Receives, rosterVars, TypeOK
    <3>. QED BY <2>4, <2>5, <2>6, <2>7, <3>1
  <2>12. CASE VoiceDisable(c)
    <3> DEFINE ch == ChannelOf(m.floor)
    <3>1. /\ News(c, 1) /\ m.data = "AUDIO_SEND_DISABLE" /\ m.cmd = "SENDVOICE"
          /\ ch \in Channel /\ FloorOf(c, ch) = m.floor
      BY <2>12, HeardFacts DEF VoiceDisable, VoiceData, VoicePacket
    <3>2. /\ audioStatus' = [audioStatus EXCEPT ![c][ch] = "AUDIO_SEND_DISABLE"]
          /\ speakerName' = [speakerName EXCEPT ![c][ch] = m.user]
          /\ openRemoteUser' = [openRemoteUser EXCEPT ![c] = @ \cup {m.user}]
      BY <2>12 DEF VoiceDisable
    <3> HIDE DEF ch, m
    <3>3. /\ speakerName'[c][ch] = m.user /\ openRemoteUser'[c] = openRemoteUser[c] \cup {m.user}
          /\ \A o \in Channel : o # ch => audioStatus'[c][o] = audioStatus[c][o] /\ speakerName'[c][o] = speakerName[c][o]
      BY <3>1, <3>2 DEF TypeOK
    <3>4. Comes(ch)
      BY <3>1, <3>3
    <3>5. \A o \in Channel : o # ch /\ audioStatus'[c][o] = "AUDIO_SEND_DISABLE" => Stays(o)
      BY <2>4, <2>5, <3>1, <3>3
    <3>. QED BY <2>7, <3>4, <3>5
  <2>13. CASE VoiceEnable(c)
    <3> DEFINE ch == ChannelOf(m.floor)
    <3>1. /\ News(c, 1) /\ m.data = "AUDIO_SEND_ENABLE" /\ m.cmd = "SENDVOICE" /\ m \in VoicePacket
          /\ ch \in Channel /\ FloorOf(c, ch) = m.floor /\ \A o \in Channel : o # ch => FloorOf(c, o) # m.floor
      BY <2>13, HeardFacts DEF VoiceEnable, VoiceData, VoicePacket
    <3>2. /\ audioStatus' = [audioStatus EXCEPT ![c][ch] = "AUDIO_SEND_ENABLE"]
          /\ speakerName' = [speakerName EXCEPT ![c][ch] = NoOne]
          /\ openRemoteUser' = [openRemoteUser EXCEPT ![c] = StillOpen(c, ch, m.user)]
      BY <2>13 DEF VoiceEnable
    <3>3. m = Voice(m.user, m.floor, "AUDIO_SEND_ENABLE") /\ m.floor \in Floors
      BY <3>1 DEF VoicePacket, Voice
    <3> HIDE DEF ch, m
    <3>4. /\ audioStatus'[c][ch] = "AUDIO_SEND_ENABLE" /\ openRemoteUser'[c] = StillOpen(c, ch, m.user)
          /\ \A o \in Channel : o # ch => audioStatus'[c][o] = audioStatus[c][o] /\ speakerName'[c][o] = speakerName[c][o]
      BY <3>1, <3>2 DEF TypeOK
    <3>5. ASSUME NEW o \in Channel, o # ch, audioStatus'[c][o] = "AUDIO_SEND_DISABLE"
          PROVE  Stays(o)
      <4>1. audioStatus[c][o] = "AUDIO_SEND_DISABLE" /\ speakerName'[c][o] = speakerName[c][o]
        BY <3>4, <3>5
      <4>2. speakerName[c][o] # m.user
        <5>1. SUFFICES ASSUME speakerName[c][o] = m.user
                       PROVE  FALSE
          OBVIOUS
        <5>2. m.floor \in Floors \ {FloorOf(c, o)} /\ NoOtherFloor(c, 0, m.user, FloorOf(c, o))
          BY <2>6, <3>1, <3>3, <3>5, <4>1, <5>1
        <5>3. 1 \in 0 + 1 .. Len(toClient[c]) /\ \A i \in 0 + 1 .. 1 - 1 : FALSE
          BY <2>3
        <5>. QED BY <2>3, <3>3, <5>2, <5>3 DEF NoOtherFloor
      <4>3. openRemoteUser'[c] = openRemoteUser[c] \ {m.user}
        BY <3>4, <3>5, <4>1 DEF StillOpen
      <4>4. ~ Frees(c, 1, speakerName[c][o], FloorOf(c, o))
        BY <2>4, <2>5, <3>1, <4>2
      <4>. QED BY <4>1, <4>2, <4>3, <4>4
    <3>6. audioStatus'[c][ch] # "AUDIO_SEND_DISABLE"
      BY <3>4
    <3>. QED BY <2>7, <3>5, <3>6
  <2>. QED BY <1>13, <2>8, <2>9, <2>10, <2>11, <2>12, <2>13 DEF NetStep
<1>. QED BY <1>6, <1>7, <1>8, <1>9, <1>10, <1>11, <1>12, <1>13 DEF AppStep, NetStep

\* A single packet that tells of no new speaker, or frees no floor.
LEMMA PlayedOne ==
  ASSUME TypeOK, NEW d \in Client, Good(d), Played(d), ToBePlayed(d),
         NEW m \in ToClient, toClient'[d] = toClient[d] \o << m >>, d \in logged' => d \in logged,
         audioStatus'[d] = audioStatus[d], speakerName'[d] = speakerName[d], openRemoteUser'[d] = openRemoteUser[d],
         d \in logged' /\ Leaving(d) => Leaving(d)',
         \/ m.cmd # "SENDVOICE"
         \/ m.data = "AUDIO_SEND_DISABLE"
         \/ /\ m.data = "AUDIO_SEND_ENABLE"
            /\ m.user = d \/ \A h \in Floors \ {m.floor} : holder[h] # m.user
  PROVE  Played(d)' /\ ToBePlayed(d)'
<1>1. PICK s \in Seq(ToClient) : s = << m >> /\ Len(s) = 1 /\ 1 \in 1 .. Len(s) /\ \A i \in 1 .. Len(s) : s[i] = m
  BY Single
<1>2. toClient'[d] = toClient[d] \o s
  BY <1>1
<1>3. \A u, g : LET p == Voice(u, g, "AUDIO_SEND_ENABLE") IN
        p.cmd = "SENDVOICE" /\ p.data = "AUDIO_SEND_ENABLE" /\ p.user = u /\ p.floor = g
  BY DEF Voice
<1>4. \A i \in 1 .. Len(s) : \A u, g : s[i] = Voice(u, g, "AUDIO_SEND_ENABLE") =>
        u = d \/ \A h \in Floors \ {g} : holder[h] # u
  BY <1>1, <1>3
<1>5. \/ \A i \in 1 .. Len(s) : ~ (s[i].cmd = "SENDVOICE" /\ s[i].data = "AUDIO_SEND_DISABLE")
      \/ \A i \in 1 .. Len(s) : \A u, g : s[i] # Voice(u, g, "AUDIO_SEND_ENABLE")
  BY <1>1, <1>3
<1>. QED BY <1>2, <1>4, <1>5, PlayedTold

LEMMA ServerPlayed ==
  ASSUME TypeOK, IInv, HeldInv, PlayedInv, NEW c \in Client,
         \A d \in Client : toServer'[d] \in Seq(ToServer), ServerStep(c)
  PROVE  PlayedInv'
<1>1. /\ \A d \in Client : Good(d) /\ OneFloor(d) /\ Played(d) /\ ToBePlayed(d)
      /\ \A d \in Client \ {c} : d \in logged' <=> d \in logged
      /\ \A d \in Client : /\ audioStatus'[d] = audioStatus[d] /\ speakerName'[d] = speakerName[d]
                           /\ openRemoteUser'[d] = openRemoteUser[d]
  <2>1. \A d \in Client : Good(d) /\ OneFloor(d) /\ Played(d) /\ ToBePlayed(d)
    BY DEF IInv, HeldInv, PlayedInv
  <2>2. openRemoteUser' = openRemoteUser /\ audioStatus' = audioStatus /\ speakerName' = speakerName
    BY DEF ServerStep, ServerLogin, ServerRefuse, ServerUserList, ServerQuit, ServerGrant,
       ServerRelease, ServerIgnore, talkVars, rosterVars
  <2>. QED BY <2>1, <2>2, ServerFacts
<1>2. /\ \A d \in Client \ {c} : Leaving(d) => Leaving(d)'
      /\ Leaving(c) /\ toServer[c][1].cmd # "QUITSERVER" => Leaving(c)'
  <2>1. \A d \in Client : DOMAIN toServer[d] = 1 .. Len(toServer[d]) /\ DOMAIN toServer'[d] = 1 .. Len(toServer'[d])
    BY DEF TypeOK
  <2>2. \A d \in Client : /\ Leaving(d) <=> Has(toServer[d], "QUITSERVER")
                          /\ Leaving(d)' <=> Has(toServer'[d], "QUITSERVER")
    BY <2>1 DEF Leaving, Has
  <2>3. /\ \A d \in Client \ {c} : toServer'[d] = toServer[d]
        /\ Has(toServer[c], "QUITSERVER") => Has(toServer'[c], "QUITSERVER") \/ toServer[c][1].cmd = "QUITSERVER"
    BY <1>1, ServerFacts
  <2>. QED BY <2>2, <2>3
<1>3. ASSUME NEW d \in Client, d = c => logged' = logged /\ toServer[c][1].cmd # "QUITSERVER", toClient'[d] = toClient[d]
      PROVE  Played(d)' /\ ToBePlayed(d)'
  <2>1. /\ d \in logged' => d \in logged
        /\ \A ch \in Channel : d \in logged /\ audioStatus'[d][ch] = "AUDIO_SEND_DISABLE" =>
             audioStatus[d][ch] = "AUDIO_SEND_DISABLE" /\ speakerName'[d][ch] = speakerName[d][ch]
        /\ d \in logged => Leaving(d)' \/ ((Leaving(d) => Leaving(d)') /\ openRemoteUser'[d] = openRemoteUser[d])
        /\ Played(d) /\ ToBePlayed(d)
    BY <1>1, <1>2, <1>3
  <2>. QED BY <1>3, <2>1, PlayedQuiet
<1>4. ASSUME NEW d \in Client, d = c => logged' = logged /\ toServer[c][1].cmd # "QUITSERVER",
             NEW m \in ToClient, toClient'[d] = toClient[d] \o << m >>,
             \/ m.cmd # "SENDVOICE"
             \/ m.data = "AUDIO_SEND_DISABLE"
             \/ /\ m.data = "AUDIO_SEND_ENABLE"
                /\ m.user = d \/ \A h \in Floors \ {m.floor} : holder[h] # m.user
      PROVE  Played(d)' /\ ToBePlayed(d)'
  <2>1. /\ d \in logged' => d \in logged
        /\ d \in logged' /\ Leaving(d) => Leaving(d)'
        /\ Good(d) /\ Played(d) /\ ToBePlayed(d)
    BY <1>1, <1>2, <1>4
  <2>2. audioStatus'[d] = audioStatus[d] /\ speakerName'[d] = speakerName[d] /\ openRemoteUser'[d] = openRemoteUser[d]
    BY <1>1
  <2>. QED BY <1>4, <2>1, <2>2, PlayedOne
<1>5. CASE ServerLogin(c)
  <2>1. /\ Asked(c, "LOGINSERVER") /\ Served(c)
        /\ toServer[c][1].cmd = "LOGINSERVER" /\ 1 \in 1 .. Len(toServer[c])
    BY <1>1, <1>5, AskedFacts DEF ServerLogin
  <2>2. /\ c \notin logged /\ toClient[c] = << >> /\ Len(toClient[c]) = 0
        /\ \A ch \in Channel : audioStatus[c][ch] # "AUDIO_SEND_DISABLE"
    BY <1>1, <2>1 DEF Good, Session, Entry, Consistent
  <2>3. Played(c)' /\ ToBePlayed(c)'
    <3>1. PICK s \in Seq(ToClient) :
            /\ s = << Packet("LOGINSERVERED") >> \o Replay(c, Room) \o Replay(c, Group[c])
            /\ 1 \in 1 .. Len(s) /\ s[1].cmd = "LOGINSERVERED"
            /\ \A i \in 1 .. Len(s) :
                 \/ s[i].cmd = "LOGINSERVERED"
                 \/ /\ s[i].cmd = "SENDVOICE" /\ s[i].floor \in Floors
                    /\ s[i].user # c /\ holder[s[i].floor] = s[i].user
                    /\ s[i].data = "AUDIO_SEND_DISABLE"
      BY ReplayNews
    <3>2. toClient'[c] = toClient[c] \o s
      BY <1>5, <3>1 DEF ServerLogin, Tell
    <3>3. toClient'[c] = s
      BY <2>2, <3>2
    <3>4. \A i \in 1 .. Len(toClient'[c]) : \A u, g : toClient'[c][i] # Voice(u, g, "AUDIO_SEND_ENABLE")
      <4>1. \A i \in 1 .. Len(s) :
              s[i].cmd = "LOGINSERVERED" \/ (s[i].cmd = "SENDVOICE" /\ s[i].data = "AUDIO_SEND_DISABLE")
        BY <3>1
      <4>2. \A u, g : LET p == Voice(u, g, "AUDIO_SEND_ENABLE") IN
              p.cmd = "SENDVOICE" /\ p.data = "AUDIO_SEND_ENABLE"
        BY DEF Voice
      <4>. QED BY <3>3, <4>1, <4>2
    <3>5. \A k, u, f : k \in Nat => NoOtherFloor(c, k, u, f)'
      <4>1. SUFFICES ASSUME NEW k \in Nat, NEW u, NEW f, NEW j \in k + 1 .. Len(toClient'[c]), NEW g \in Floors \ {f},
                            toClient'[c][j] = Voice(u, g, "AUDIO_SEND_ENABLE")
                     PROVE  FALSE
        BY DEF NoOtherFloor
      <4>2. Len(toClient'[c]) \in Nat
        BY <3>3
      <4>3. j \in 1 .. Len(toClient'[c])
        BY <4>1, <4>2
      <4>. QED BY <3>4, <4>1, <4>3
    <3>6. Played(c)'
      BY <1>1, <2>2 DEF Played
    <3>7. ToBePlayed(c)'
      BY <3>5 DEF ToBePlayed
    <3>. QED BY <3>6, <3>7
  <2>4. ASSUME NEW d \in Client \ {c}
        PROVE  Played(d)' /\ ToBePlayed(d)'
    <3>1. CASE d \in logged
      <4> DEFINE a == About("REMOTEUSERLOGIN", c)
      <4>1. /\ a \in ToClient /\ toClient'[d] = toClient[d] \o << a >> /\ a.cmd # "SENDVOICE"
        BY <1>5, <2>2, <3>1 DEF ServerLogin, Tell, About, ToClient
      <4> HIDE DEF a
      <4>. QED BY <1>4, <4>1
    <3>2. CASE d \notin logged
      <4>1. toClient'[d] = toClient[d]
        BY <1>5, <3>2 DEF ServerLogin, Tell
      <4>. QED BY <1>3, <4>1
    <3>. QED BY <3>1, <3>2
  <2>. QED BY <2>3, <2>4 DEF PlayedInv
<1>6. CASE ServerRefuse(c) \/ ServerUserList(c)
  <2>1. PICK m \in ToClient : toClient'[c] = toClient[c] \o << m >> /\ m.cmd # "SENDVOICE"
    <3>1. /\ Packet("LOGINREFUSED") \in ToClient /\ Packet("LOGINREFUSED").cmd # "SENDVOICE"
          /\ UserList(logged) \in ToClient /\ UserList(logged).cmd # "SENDVOICE"
      BY DEF Packet, UserList, ToClient, TypeOK
    <3>. QED BY <1>6, <3>1 DEF ServerRefuse, ServerUserList, Tell
  <2>2. logged' = logged /\ toServer[c][1].cmd # "QUITSERVER"
    <3>1. \E cmd \in {"LOGINSERVER", "GETUSERLIST"} : Asked(c, cmd) /\ Served(c)
      BY <1>6 DEF ServerRefuse, ServerUserList
    <3>. QED BY <1>1, <1>6, <3>1, AskedFacts DEF ServerRefuse, ServerUserList, serverVars
  <2>3. \A d \in Client \ {c} : toClient'[d] = toClient[d]
    <3>1. \A d \in Client : toClient[d] \o << >> = toClient[d]
      BY DEF TypeOK
    <3>. QED BY <1>6, <3>1 DEF ServerRefuse, ServerUserList, Tell
  <2>. QED BY <1>3, <1>4, <2>1, <2>2, <2>3 DEF PlayedInv
<1>7. CASE ServerQuit(c)
  <2>1. c \notin logged'
    BY <1>7 DEF ServerQuit
  <2>2. Played(c)' /\ ToBePlayed(c)'
    BY <2>1 DEF Played, ToBePlayed
  <2>3. ASSUME NEW d \in Client \ {c}
        PROVE  Played(d)' /\ ToBePlayed(d)'
    <3>1. CASE {c, d} \subseteq logged
      <4> DEFINE q == About("REMOTEUSERQUIT", c)
      <4>1. q \in ToClient /\ toClient'[d] = toClient[d] \o << q >> /\ q.cmd # "SENDVOICE"
        BY <1>7, <3>1 DEF ServerQuit, Tell, About, ToClient
      <4> HIDE DEF q
      <4>. QED BY <1>4, <4>1
    <3>2. CASE ~ {c, d} \subseteq logged
      <4>1. toClient'[d] = toClient[d]
        BY <1>7, <3>2 DEF ServerQuit, Tell, TypeOK
      <4>. QED BY <1>3, <4>1
    <3>. QED BY <3>1, <3>2
  <2>. QED BY <2>2, <2>3 DEF PlayedInv
<1>8. CASE ServerGrant(c) \/ ServerRelease(c) \/ ServerIgnore(c)
  <2>1. logged' = logged /\ toServer[c][1].cmd # "QUITSERVER"
    <3>1. Asked(c, "SENDVOICE") /\ Served(c)
      BY <1>8 DEF ServerGrant, ServerRelease, ServerIgnore, AskedVoice
    <3>. QED BY <1>1, <1>8, <3>1, AskedFacts DEF ServerGrant, ServerRelease, ServerIgnore, serverVars
  <2> DEFINE f == Head(toServer[c]).floor
  <2>2. ~ ServerIgnore(c) => f \in Floors
    BY <1>8, HeadType DEF ServerGrant, ServerRelease, AskedVoice, Asked, ToServer, VoicePacket
  <2>3. ASSUME NEW data \in VoiceData, f \in Floors
        PROVE  LET m == Voice(c, f, data) IN
                 m \in ToClient /\ m.data = data /\ m.user = c /\ m.floor = f
    BY <2>3 DEF Voice, ToClient, VoicePacket
  <2>4. ASSUME NEW d \in Client
        PROVE  Played(d)' /\ ToBePlayed(d)'
    <3>1. CASE toClient'[d] = toClient[d]
      BY <1>3, <2>1, <3>1
    <3>2. ASSUME toClient'[d] = toClient[d] \o << Voice(c, f, "AUDIO_SEND_DISABLE") >>, f \in Floors
          PROVE  Played(d)' /\ ToBePlayed(d)'
      <4>1. PICK m \in ToClient : m = Voice(c, f, "AUDIO_SEND_DISABLE") /\ m.data = "AUDIO_SEND_DISABLE"
        BY <2>3, <3>2 DEF VoiceData
      <4>2. toClient'[d] = toClient[d] \o << m >>
        BY <3>2, <4>1
      <4>. QED BY <1>4, <2>1, <4>1, <4>2
    <3>3. ASSUME toClient'[d] = toClient[d] \o << Voice(c, f, "AUDIO_SEND_ENABLE") >>, f \in Floors,
                 d = c \/ \A h \in Floors \ {f} : holder[h] # c
          PROVE  Played(d)' /\ ToBePlayed(d)'
      <4>1. PICK m \in ToClient : /\ m = Voice(c, f, "AUDIO_SEND_ENABLE") /\ m.data = "AUDIO_SEND_ENABLE"
                                  /\ m.user = c /\ m.floor = f
        BY <2>3, <3>3 DEF VoiceData
      <4>2. toClient'[d] = toClient[d] \o << m >>
        BY <3>3, <4>1
      <4>. QED BY <1>4, <2>1, <3>3, <4>1, <4>2
    <3>4. CASE ServerGrant(c)
      <4>1. IF d = c THEN toClient'[d] = toClient[d] \o << Voice(c, f, "AUDIO_SEND_ENABLE") >>
            ELSE IF d \in logged THEN toClient'[d] = toClient[d] \o << Voice(c, f, "AUDIO_SEND_DISABLE") >>
            ELSE toClient'[d] = toClient[d]
        BY <3>4 DEF ServerGrant, Tell
      <4>2. f \in Floors
        BY <2>2, <3>4 DEF ServerGrant, ServerIgnore, AskedVoice
      <4>. QED BY <3>1, <3>2, <3>3, <4>1, <4>2
    <3>5. CASE ServerRelease(c)
      <4>1. toClient[d] \o << >> = toClient[d]
        BY DEF TypeOK
      <4>2. \/ toClient'[d] = toClient[d] \o << Voice(c, f, "AUDIO_SEND_ENABLE") >>
            \/ toClient'[d] = toClient[d]
        BY <3>5, <4>1 DEF ServerRelease, Tell
      <4>3. f \in Floors /\ holder[f] = c
        BY <3>5, HeadType DEF ServerRelease, AskedVoice, Asked, ToServer, VoicePacket
      <4>4. \A h \in Floors \ {f} : holder[h] # c
        BY <1>1, <4>3 DEF OneFloor
      <4>. QED BY <3>1, <3>3, <4>2, <4>3, <4>4
    <3>6. CASE ServerIgnore(c)
      BY <3>1, <3>6 DEF ServerIgnore
    <3>. QED BY <1>8, <3>4, <3>5, <3>6
  <2>. QED BY <2>4 DEF PlayedInv
<1>. QED BY <1>5, <1>6, <1>7, <1>8 DEF ServerStep

LEMMA StepPlayed ==
  ASSUME TypeOK, TypeOK', IInv, HeldInv, PlayedInv, [PromptNext]_vars
  PROVE  PlayedInv'
<1>1. \A d \in Client : Good(d) /\ Played(d) /\ ToBePlayed(d) /\ toServer'[d] \in Seq(ToServer)
  BY DEF IInv, PlayedInv, TypeOK
<1>2. ASSUME NEW d \in Client, Same(d), openRemoteUser'[d] = openRemoteUser[d], logged' = logged
      PROVE  Played(d)' /\ ToBePlayed(d)'
  <2>1. Leaving(d)' <=> Leaving(d)
    BY <1>2 DEF Same, Leaving
  <2>. QED BY <1>1, <1>2, <2>1, PlayedQuiet DEF Same
<1>3. CASE UNCHANGED vars
  <2>1. \A d \in Client : Same(d) /\ openRemoteUser'[d] = openRemoteUser[d] /\ logged' = logged
    BY <1>3 DEF vars, talkVars, rosterVars, threadVars, queueVars, serverVars, Same
  <2>. QED BY <1>2, <2>1 DEF PlayedInv
<1>4. ASSUME NEW c \in Client, AppStep(c) \/ Wake(c) \/ NetStep(c)
      PROVE  PlayedInv'
  <2>1. logged' = logged /\ Good(c)
    BY <1>1, <1>4, ServerAlone
  <2>2. Played(c)' /\ ToBePlayed(c)'
    BY <1>1, <1>4, ClientPlayed
  <2>3. ASSUME NEW d \in Client \ {c}
        PROVE  Played(d)' /\ ToBePlayed(d)'
    <3>1. Same(d) /\ openRemoteUser'[d] = openRemoteUser[d]
      BY <1>4, <2>1, OthersSame, LoginRefusedOrUserQuitGood, OthersLists
    <3>. QED BY <1>2, <2>1, <3>1
  <2>. QED BY <2>2, <2>3 DEF PlayedInv
<1>. QED BY <1>1, <1>3, <1>4, ServerPlayed DEF PromptNext, PromptStep

LEMMA PromptPlayed == PromptSpec => []PlayedInv
<1>1. Init => PlayedInv
  BY DEF Init, PlayedInv, Played, ToBePlayed
<1>2. TypeOK /\ TypeOK' /\ IInv /\ HeldInv /\ PlayedInv /\ [PromptNext]_vars => PlayedInv'
  BY StepPlayed
<1>. QED BY <1>1, <1>2, PromptTypes, FloorInvariant, PromptHeld, PTL DEF PromptSpec

\* Until it logs out, a client has a receiver open for whomever it shows as
\* the speaker of a channel, whichever of its two channels falls silent.
THEOREM SpeakersArePlayed == PromptSpec => []SpeakerIsPlayed
<1>1. PlayedInv => SpeakerIsPlayed
  BY DEF PlayedInv, Played, SpeakerIsPlayed
<1>. QED BY <1>1, PromptPlayed, PTL

\* Everything that holds inductively when the network answers in time.
THEOREM PromptInvariant == PromptSpec => []PromptInv
<1>1. IInv /\ HeldInv /\ PlayedInv /\ ListedInv => PromptInv
  BY DEF PromptInv
<1>. QED BY <1>1, FloorInvariant, PromptHeld, PromptPlayed, PromptListed, PTL
=============================================================================
