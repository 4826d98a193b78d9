--------------------------- MODULE IntercomProps ---------------------------
(***************************************************************************)
(* What the push-to-talk client must keep, with a network that answers in  *)
(* time (PromptSpec) and with any network (Spec).                          *)
(***************************************************************************)
EXTENDS Intercom

\* c's microphone is sent and c is not about to close it.
Talking(c) == openLocalUser[c] /\ app[c] \notin Stopping
TalksOn(c) == FloorOf(c, speakChannel[c])

\* Whoever talks holds the floor it pressed the button for: no two users talk
\* on one floor, and nobody talks after the server took the floor back.
TalkerHoldsFloor == \A c \in Client : Talking(c) => holder[TalksOn(c)] = c

\* The refinement mapping: the floors as a reader of Floor.tla sees them.
talking == [f \in Floors |-> {c \in Client : Talking(c) /\ TalksOn(c) = f}]
F == INSTANCE Floor
ImplementsFloor == F!Spec

\* c has nothing left to receive, nor a handler half done.
Drained(c) == c \in logged /\ link[c] = "up" /\ toClient[c] = << >> /\ net[c] = "idle"

\* A client that sees a channel as taken is right about it: the user it names
\* still holds the floor, so a release, a logout or a crash of the speaker
\* never leaves a listener locked out.
NotLockedOut ==
  \A c \in Client, ch \in Channel :
    Drained(c) /\ audioStatus[c][ch] = "AUDIO_SEND_DISABLE"
      => /\ speakerName[c][ch] # c
         /\ FloorOf(c, ch) \in Floors
         /\ holder[FloorOf(c, ch)] = speakerName[c][ch]

\* c has called logoutServer.
Leaving(c) == \E i \in DOMAIN toServer[c] : toServer[c][i].cmd = "QUITSERVER"

\* Whoever is shown as the speaker of a channel is played.
SpeakerIsPlayed ==
  \A c \in Client, ch \in Channel :
    c \in logged /\ ~ Leaving(c) /\ audioStatus[c][ch] = "AUDIO_SEND_DISABLE"
      => speakerName[c][ch] \in openRemoteUser[c]

\* A floor is not held for somebody who is silent: once the holder has got
\* its grant and nothing is on its way, its microphone is open.
HolderTalks ==
  \A c \in Client : \A f \in Floors :
    /\ Drained(c) /\ Answered(c) /\ app[c] \in {"idle", "wait"}
    /\ holder[f] = c
    => openLocalUser[c] /\ TalksOn(c) = f

\* A deleted manager leaves no open microphone behind: its destructor closes nothing
\* (CIntercomManage.cpp 30-33), so that the sender must be closed, by logoutServer or
\* because it never was open, when USERQUIT or LOGINREFUSED is read, and no grant may
\* come in between (182-189, 333-338, 580-594).
NoOrphan == \A c \in Client : ~ orphan[c]

\* A client that got the answer to its getUserList knows every user in the
\* room, and none who has left it.
UserListExact ==
  \A c \in Client :
    /\ Drained(c) /\ toServer[c] = << >> /\ app[c] \notin Stopping
    => userInfoList[c] \cup {c} = logged

-----------------------------------------------------------------------------
(* What must happen, when the network answers in time.                     *)

\* Both threads run, and the server serves; a call of the application returns,
\* and a user who keeps pressing the button lets it go again and again.  (SF
\* for the server: it waits for room in the bounded queues of all clients.)
Fairness ==
  \A c \in Client :
    /\ WF_vars(NetStep(c)) /\ SF_vars(ServerStep(c))
    /\ WF_vars(StopCheck(c) \/ (\E ch \in Channel : StopWrite(c, ch)) \/ StopClose(c) \/ Quit(c))
    /\ WF_vars(Answered(c) /\ Wake(c))
    /\ SF_vars(StopSendAudio(c, FALSE))

FairPromptSpec == PromptSpec /\ Fairness

\* A floor that was granted comes back, whichever channels its holder presses
\* and whoever else asks meanwhile.
FloorReturns == \A c \in Client, f \in Floors : holder[f] = c ~> holder[f] # c

\* Nobody who listens is locked out for ever.
LockoutEnds ==
  \A c \in Client, ch \in Channel :
    audioStatus[c][ch] = "AUDIO_SEND_DISABLE" ~> audioStatus[c][ch] # "AUDIO_SEND_DISABLE"

-----------------------------------------------------------------------------
(* With any network.                                                       *)

\* A client never misses a user: once nothing is on its way, everybody with a
\* session is in its list, whatever sessions were lost and renewed meanwhile.
KnowsEverybody ==
  \A c \in Client :
    Drained(c) /\ toServer[c] = << >> /\ app[c] \notin Stopping
      => logged \subseteq userInfoList[c] \cup {c}

-----------------------------------------------------------------------------
(* What uuDefine.h says of a status, which the code breaks.               *)

Settled(c) == Drained(c) /\ app[c] \notin Stopping /\ toServer[c] = << >>

\* AUDIO_SEND_DISABLE: "cannot send".
DisabledIsSilent ==
  \A c \in Client :
    Settled(c) /\ audioStatus[c][speakChannel[c]] = "AUDIO_SEND_DISABLE"
      => ~ openLocalUser[c]
=============================================================================
