---------------------------- MODULE IntercomInv ----------------------------
(***************************************************************************)
(* The inductive invariants of the push-to-talk client.                    *)
(*                                                                         *)
(* IInv, when the network answers in time: a request is the last thing a   *)
(* client says until it is answered; a grant is the last thing it hears    *)
(* about that floor until it stops; and whoever a client believes to be    *)
(* speaking still holds the floor, or the packet that says otherwise is on *)
(* its way.  AnyInv, whatever the network does: what a client in a session *)
(* believes of speakers and users is true or about to be corrected.        *)
(* PromptInv is IInv and that a floor is held by one who talks, that       *)
(* nobody is listed who has left, and that the speakers shown are played.  *)
(***************************************************************************)
EXTENDS IntercomProps

Entry(q, i, cmd) == i \in 1 .. Len(q) /\ q[i].cmd = cmd

Request(c, i) == Entry(toServer[c], i, "SENDVOICE") /\ toServer[c][i].data = "AUDIO_SEND_DISABLE"
News(c, i)    == Entry(toClient[c], i, "SENDVOICE")
Grant(c, i)   == News(c, i) /\ toClient[c][i].user = c

\* The i-th packet for c says that u no longer holds f.
Frees(c, i, u, f) ==
  \/ Entry(toClient[c], i, "REMOTEUSERQUIT") /\ toClient[c][i].user = u
  \/ News(c, i) /\ toClient[c][i] = Voice(u, f, "AUDIO_SEND_ENABLE")

Sending(c, ch) == audioStatus[c][ch] = "AUDIO_SEND_SENDING"

\* c has been granted its floor and has not begun to give it back.
HasFloor(c) ==
  \/ \E i \in 1 .. Len(toClient[c]) : Grant(c, i)
  \/ net[c] = "granted"
  \/ Talking(c)
  \/ app[c] \notin Stopping /\ \E ch \in Channel : Sending(c, ch)

\* Before a session and after it.
Session(c) ==
  /\ link[c] \in {"none", "connecting", "up"}
  /\ link[c] # "up" => toServer[c] = << >> /\ toClient[c] = << >> /\ c \notin logged
  /\ \A i \in 1 .. Len(toServer[c]) : Entry(toServer[c], i, "LOGINSERVER") =>
       /\ i = 1 /\ c \notin logged /\ toClient[c] = << >>
       /\ \A ch \in Channel : speakerName[c][ch] = NoOne
  /\ \A i \in 1 .. Len(toClient[c]) :
       Entry(toClient[c], i, "LOGINREFUSED") \/ Entry(toClient[c], i, "USERQUIT")
         => c \notin logged
  /\ \A f \in Floors : holder[f] = c => c \in logged

\* A request is followed by nothing that matters, and c waits for its answer.
Requests(c) ==
  \A i \in 1 .. Len(toServer[c]) : Request(c, i) =>
    /\ toServer[c][i].floor = FloorOf(c, speakChannel[c])
    /\ \A j \in i + 1 .. Len(toServer[c]) : toServer[c][j].cmd = "GETUSERLIST"
    /\ app[c] = "wait"
    /\ ~ HasFloor(c)

\* Whoever has the floor is the holder, asks for nothing, and is told nothing
\* more about that floor.
Owns(c) ==
  HasFloor(c) =>
    /\ c \in logged
    /\ FloorOf(c, speakChannel[c]) \in Floors
    /\ holder[FloorOf(c, speakChannel[c])] = c
    /\ \A i \in 1 .. Len(toServer[c]) : toServer[c][i].cmd = "GETUSERLIST"

Grants(c) ==
  \A i \in 1 .. Len(toClient[c]) : Grant(c, i) =>
    /\ toClient[c][i] = Voice(c, FloorOf(c, speakChannel[c]), "AUDIO_SEND_ENABLE")
    /\ app[c] = "wait" /\ net[c] = "idle" /\ ~ openLocalUser[c]
    /\ \A ch \in Channel : ~ Sending(c, ch)
    /\ \A j \in i + 1 .. Len(toClient[c]) :
         News(c, j) => toClient[c][j].floor # FloorOf(c, speakChannel[c])

\* The status, the sender and the two threads agree.
Local(c) ==
  /\ app[c] \in Stopping => net[c] = "idle"
  /\ net[c] = "granted" => Sending(c, speakChannel[c]) /\ ~ openLocalUser[c] /\ app[c] = "wait"
  /\ Talking(c) => Sending(c, speakChannel[c])
  /\ \A ch \in Channel : Sending(c, ch) =>
       /\ ch = speakChannel[c]
       /\ openLocalUser[c] \/ net[c] = "granted"
       /\ app[c] \notin {"close", "quit"}
  /\ app[c] = "quit" => ~ openLocalUser[c]
  /\ app[c] = "stop_room" => speakChannel[c] = "room"
  /\ app[c] = "stop_group" => speakChannel[c] = "group"

\* A client that sends hears of no other speaker on its channel.
Undisturbed(c) ==
  \A ch \in Channel : Sending(c, ch) /\ app[c] \notin Stopping =>
    /\ speakerName[c][ch] = NoOne
    /\ \A j \in 1 .. Len(toClient[c]) : News(c, j) => toClient[c][j].floor # FloorOf(c, ch)

\* What c believes, or is about to be told, of another speaker is true or is
\* about to be corrected; and it is corrected before c is granted the floor.
Believed(c, ch, u) ==
  LET f == FloorOf(c, ch) IN
  /\ u # c /\ f \in Floors
  /\ holder[f] = u \/ \E j \in 1 .. Len(toClient[c]) : Frees(c, j, u, f)
  /\ \A i \in 1 .. Len(toClient[c]) : Grant(c, i) /\ toClient[c][i].floor = f
       => \E j \in 1 .. i - 1 : Frees(c, j, u, f)

Beliefs(c) ==
  c \in logged =>
    \A ch \in Channel : speakerName[c][ch] # NoOne => Believed(c, ch, speakerName[c][ch])

Announced(c) ==
  \A k \in 1 .. Len(toClient[c]) :
    News(c, k) /\ toClient[c][k].data = "AUDIO_SEND_DISABLE" =>
      LET u == toClient[c][k].user
          f == toClient[c][k].floor
      IN /\ u # c
         /\ c \in logged => holder[f] = u \/ \E j \in k + 1 .. Len(toClient[c]) : Frees(c, j, u, f)
         /\ \A i \in k + 1 .. Len(toClient[c]) : Grant(c, i) /\ toClient[c][i].floor = f
              => \E j \in k + 1 .. i - 1 : Frees(c, j, u, f)

Consistent(c) ==
  \A ch \in Channel : audioStatus[c][ch] = "AUDIO_SEND_DISABLE" => speakerName[c][ch] # NoOne

Good(c) ==
  /\ Session(c) /\ Requests(c) /\ Owns(c) /\ Grants(c) /\ Local(c)
  /\ Undisturbed(c) /\ Beliefs(c) /\ Announced(c) /\ Consistent(c)

IInv == \A c \in Client : Good(c)

-----------------------------------------------------------------------------
(* With any network: a session may be lost, kicked out, refused and renewed.*)

Has(q, cmd) == \E i \in 1 .. Len(q) : q[i].cmd = cmd

\* c will read that its manager is to be deleted.
Ends == {"LOGINREFUSED", "USERQUIT", "RELOGIN"}
Over(c) == \E cmd \in Ends : Has(toClient[c], cmd)
InSession(c) == c \in logged /\ ~ Over(c)

\* A session has a connection, a queue has a session, and who has none is told of nobody.
Linked(c) ==
  /\ c \in logged => link[c] \in {"up", "busy"}
  /\ link[c] \notin {"up", "busy"} => toServer[c] = << >> /\ toClient[c] = << >>
  /\ \A f \in Floors : holder[f] = c => c \in logged
  /\ c \notin logged /\ ~ Over(c) /\ link[c] \in {"up", "busy"} =>
       /\ \A i \in 1 .. Len(toClient[c]) : ~ News(c, i)
       /\ \A ch \in Channel : speakerName[c][ch] = NoOne

\* u holds f, or c will read after its k-th packet that it does not.
HoldsAfter(c, k, u, f) ==
  u # c /\ (holder[f] = u \/ \E j \in k + 1 .. Len(toClient[c]) : Frees(c, j, u, f))

\* What c believes of another speaker is true or is about to be corrected ...
Shown(c) ==
  InSession(c) => \A ch \in Channel : speakerName[c][ch] # NoOne =>
    FloorOf(c, ch) \in Floors /\ HoldsAfter(c, 0, speakerName[c][ch], FloorOf(c, ch))

\* ... and so is what it is about to be told.
Telling(c) ==
  InSession(c) => \A k \in 1 .. Len(toClient[c]) :
    News(c, k) /\ toClient[c][k].data = "AUDIO_SEND_DISABLE" =>
      HoldsAfter(c, k, toClient[c][k].user, toClient[c][k].floor)

\* The i-th packet for c brings u, or takes u away.
Brings(c, i, u) ==
  \/ Entry(toClient[c], i, "REMOTEUSERLOGIN") /\ toClient[c][i].user = u
  \/ Entry(toClient[c], i, "UPDATEUSERLIST") /\ u \in toClient[c][i].users
Takes(c, i, u) == Entry(toClient[c], i, "REMOTEUSERQUIT") /\ toClient[c][i].user = u

\* c will know u when it has read everything.
WillKnow(c, u) ==
  \/ u \in userInfoList[c] /\ \A i \in 1 .. Len(toClient[c]) : ~ Takes(c, i, u)
  \/ \E i \in 1 .. Len(toClient[c]) : /\ Brings(c, i, u)
                                      /\ \A j \in i + 1 .. Len(toClient[c]) : ~ Takes(c, j, u)

\* The user list is still to be asked for, or c is about to log in or out.
ListToCome(c) ==
  \/ link[c] = "busy" \/ Has(toClient[c], "LOGINSERVERED")
  \/ \E cmd \in {"LOGINSERVER", "QUITSERVER", "GETUSERLIST"} : Has(toServer[c], cmd)

Informed(c) == InSession(c) => ListToCome(c) \/ \A u \in logged \ {c} : WillKnow(c, u)

Sound(c) == Linked(c) /\ Shown(c) /\ Telling(c) /\ Consistent(c) /\ Informed(c)

AnyInv == \A c \in Client : Sound(c)

-----------------------------------------------------------------------------
(* With a network that answers in time, also this.                         *)

\* A floor is held by one who is told so, talks, or has said that it is free.
Held(c) ==
  \A f \in Floors : holder[f] = c =>
    \/ HasFloor(c) /\ f = FloorOf(c, speakChannel[c])
    \/ \E i \in 1 .. Len(toServer[c]) : toServer[c][i] = Voice(c, f, "AUDIO_SEND_ENABLE")
OneFloor(c) == \A f, g \in Floors : holder[f] = c /\ holder[g] = c => f = g

\* Whom c believes on f, or is about to be told of there, frees no other floor first.
NoOtherFloor(c, k, u, f) ==
  \A j \in k + 1 .. Len(toClient[c]) : \A g \in Floors \ {f} :
    toClient[c][j] = Voice(u, g, "AUDIO_SEND_ENABLE")
      => \E i \in k + 1 .. j - 1 : Frees(c, i, u, f)

Played(c) ==
  \A ch \in Channel : c \in logged /\ audioStatus[c][ch] = "AUDIO_SEND_DISABLE" =>
    /\ Leaving(c) \/ speakerName[c][ch] \in openRemoteUser[c]
    /\ NoOtherFloor(c, 0, speakerName[c][ch], FloorOf(c, ch))
ToBePlayed(c) ==
  \A k \in 1 .. Len(toClient[c]) :
    c \in logged /\ News(c, k) /\ toClient[c][k].data = "AUDIO_SEND_DISABLE" =>
      NoOtherFloor(c, k, toClient[c][k].user, toClient[c][k].floor)

\* Nobody is in the list, or will be, who is not there.
NobodyElse(c) ==
  /\ link[c] = "connecting" \/ Has(toServer[c], "LOGINSERVER") => userInfoList[c] = {}
  /\ c \in logged => \A u \in Client \ {c} : WillKnow(c, u) => u \in logged

HeldInv   == \A c \in Client : Held(c) /\ OneFloor(c)
PlayedInv == \A c \in Client : Played(c) /\ ToBePlayed(c)
ListedInv == \A c \in Client : NobodyElse(c)
PromptInv == IInv /\ HeldInv /\ PlayedInv /\ ListedInv
=============================================================================
