# Specifications of the XNet client for iOS

This directory holds TLA+ specifications of the client library in
`src/StreamMedia`: a push-to-talk intercom, video meetings and live "mic-link"
rooms on top of the XNet transport.  TLC checks the specifications on small
instances; TLAPS proves the theorems for every value of the constants.  Paths
below are relative to `src/StreamMedia/`.

## The system

An application calls a C interface (one *facade* per service).  The facade owns
one *manager* object, which speaks a text command protocol with a signalling
server over one XNet connection, and opens *senders* and *receivers* of media.

| component | files | state it keeps | operations | hard part |
|---|---|---|---|---|
| Intercom manager | `class/Intercom/CIntercomManage.cpp` | status and speaker of the two channels (room, group), which channel the user pressed, the sender, the receivers, the user list | startSendAudio, stopSendAudio, logoutServer, On_SessionConnectStatus, OnDispatchCmd | two threads share the state, the server arbitrates, the connection comes and goes |
| Facades | `class/Intercom/IntercomMgr.m`, `class/CVideoChat/VideoChatMgr.c`, `class/LinkMic/linkMicMgr.cpp` | the global manager, the global listener object | login, logout, the teardown when a session ends | the network thread deletes the manager it is running in; sleeps order the threads |
| Connection | `src_base/ConnectServer.cpp`, `src_base/AppClient.cpp` | the XNet client, a mutex held in every callback | Start, Stop, SendData, two callbacks | Stop runs on another thread than the callbacks |
| Video meeting | `class/CVideoChat/CVideoChat.cpp` | meeting id, users, local and remote media | create, join, exit, destroy meetings, invite, signalling | replies that come late, after another meeting was asked for |
| Mic link | `class/LinkMic/CLinkMicManage.cpp` | room users, local and remote media | login, request, accept, leave | a remote user announced twice |
| Opus buffering | `src_base/opus/CSIDataQueue.c`, `CSIOpusEncoder.m`, `CSIOpusDecoder.m` | a ring buffer that doubles, the bytes left over from the last call | Enqueue, Dequeue, Peek, Clear, encode, decode | index arithmetic at the wrap and at the resize; what an error leaves behind |
| Local and remote media | `class/OpenLocalUser.cpp`, `class/OpenRemoteUser.cpp` | packet buffers, timestamps | open, close, send | remainders kept from one session to the next |
| Command codec | `src_base/CmdPacket.cpp` | the attributes and items of a packet | SetAttrib, GetString, parse | encode and decode are not inverse for some values |
| Audio units | `AudioLibrary/audio/**` | buffers per bus, mixer input order | start, stop, write, render | render callback on the audio thread |
| Video library | `VideoLibrary/**` | codecs, capture, playback | start, stop, push frame | hardware codecs, dispatch queues |
| Server and XNet | not in the repository (`inc/XNet/*.h` declares the transport) | sessions, floors, user list | | modelled from what the clients rely on, marked external |

How they interact.  The application's thread enters through the facade and runs
the manager's operations.  XNet's network thread enters through
`CAppClient::OnXNetSessionConnectStatus` and `OnXNetClientReceivedFromServer`,
which hold `CAppClient::m_mutex`, and runs the manager's handlers; they call the
facade's listener (`INetWork`), which calls the application's delegate and, when
a session ends, deletes the manager.  The managers share no state with each
other but the process-wide audio unit.

What makes each part correct: a *floor* (the room's, a group's) is talked on by
one user, the one the server gave it to; it comes back; a listener's picture of
who speaks is right once it has read what was sent to it; no microphone stays
open when its manager is gone; a facade has one manager and one listener alive,
and never touches one that was deleted; the ring buffer is a queue of bytes, the
encoder loses none of them; a client hears the meeting or the room it is in and
nobody else; timestamps grow; a command is read as it was meant.  `PROJECT.json`
lists the hazards line by line.

## Modules

| module | role |
|---|---|
| `Floor` | abstract: what the push-to-talk service promises about its floors |
| `Intercom` | the clients, their two threads, the connection and the server |
| `IntercomProps` | safety, refinement and liveness properties of `Intercom` |
| `IntercomInv` | the inductive invariants behind them, for any network and for one that answers in time |
| `IntercomProofs` | type correctness, and what holds with any network |
| `IntercomFloorProofs` | what holds when the network answers in time; `Intercom` implements `Floor` |
| `Slot` | abstract: a facade has one manager at a time, let go when its connection is closed |
| `IntercomFacade`, `IntercomFacadeProofs` | the lives of the intercom's managers, with their properties and inductive invariant; the proofs, `Slot` among them |
| `VideoChat` | one client of the video meetings, its server and the other users, with its properties |
| `Hearing` | abstract: whom a client of the meetings hears, and when |
| `VideoChatInv`, `VideoChatProofs` | the inductive invariant of the meeting and its mapping to `Hearing`; the proofs, `Hearing` among them |
| `LinkMic` | a room of anchors and guests, all of them in full, with its properties |
| `LinkMicInv`, `LinkMicProofs` | the inductive invariant of the room; the proofs |
| `MediaFacades`, `MediaFacadesProofs` | the lives of the managers of the meetings and of the rooms; the proofs |
| `Framing` | abstract: what the Opus encoder promises about its input |
| `OpusEncoder`, `OpusEncoderProofs` | the ring buffer and the encoder over it; the proofs |
| `LocalMedia`, `LocalMediaProofs` | a frame of audio on its way from the callback to the wire; the proofs |
| `CmdPacket` | commands as texts: encoding, splitting, parsing, and their way through the connection |
| `MCIntercom`, `MCIntercomFacade`, `MCVideoChat`, `MCLinkMic`, `MCMediaFacades`, `MCOpusEncoder`, `MCLocalMedia`, `MCCmdPacket` | values for TLC |

A manager's module (`Intercom`, `VideoChat`, `LinkMic`) takes a manager for granted,
from login to teardown; a facade's is about where managers come from and go to, and
knows of a session only how it ends.  They meet at the teardown: what is one step
at the end of a handler in the former is the callback, its sleep and its block in
the latter.  `OpusEncoder` ends where `LocalMedia` begins, with a frame; `LocalMedia`
splits the opening and closing of the sender, which the managers' modules do in one
step.

### Intercom

One record per client would hide who writes what, so the state is one function
per C++ member, indexed by client: `audioStatus` is `m_ROOMaudioStatus` and
`m_GROUPaudioStatus`, `speakerName` the two speaker names, `speakChannel` is
`m_isSpeakinRoom`, `openLocalUser` says that `m_OpenLocalUser` is not NULL,
`openRemoteUser` and `userInfoList` are the keys of the two maps.  `link` is the
connection, `toServer` and `toClient` are the packets in flight, `logged` and
`holder` the server.  `app` and `net` are the places of the two threads:

* the application's thread runs one call at a time.  `startSendAudio` is one
  step: it only sends.  `stopSendAudio` is four (send the release, test the two
  statuses, stop the audio unit and write the tested status, close the sender),
  because it holds no lock until `closeMediaSender`; `logoutServer` adds a fifth.
  `startIntercomAudio` and `stopIntercomAudio` end in a sleep of 100 ms (`Wake`).
* the network thread runs one handler at a time, each one step, except a grant:
  the status is written first, the sender is opened next, under `m_mutex`.
* the teardown that ends a session (`Teardown`) is one step at the end of its
  handler.  It waits until the application's thread is outside `stopSendAudio`:
  what happens when the manager is deleted under that thread is undefined, and
  the model stops at that boundary.

`orphan` is a history variable: a manager was deleted with its sender open.
`NoOrphan` is checked and proved with a network that answers in time, with users who
log out and are refused: nothing the server sends between `logoutServer`, which closes
the sender, and USERQUIT opens it again, because the application's last request was
answered within the 100 ms it waited.  Without that (`Spec`, an application that logs out at once or a slow
server) the late grant does come between the two, and a login refused after an outage
finds the sender open too: `Teardown` then leaves it to nobody, and no property says
otherwise.

`VoiceDisable` keeps the keys of the map of receivers.  Which object a key stands for is
left out: SENDVOICE carries no PEERUSERID, so that the erase at 483-497 finds no key,
and a receiver opened under a key that is taken replaces an open one (504).

`QuitOfStranger` is the undefined read in REMOTEUSERQUIT (line 226): it either
does no harm, which is `RemoteUserQuit`, or the program dies.

The server is external.  It gives a floor to the first who asks, tells the
holder AUDIO_SEND_ENABLE under its own name and everybody else
AUDIO_SEND_DISABLE; on a release, a logout, a second login or a lost session it
frees the floors and says so; on a login it repeats which of the user's floors
are taken.  The connection is FIFO in each direction and loses packets only with
the session.

Two specifications.  `Spec` lets the network be as slow as it likes and lose
sessions.  `PromptSpec` is the network that the 100 ms sleeps assume: no outage,
and `Wake` happens only when nothing the client asked for is under way.  The
properties of the talking user need `PromptSpec` (the findings show what happens
without it); the listener's hold under `Spec`.

### IntercomFacade

The interface keeps its manager and its listener in two globals, and three
threads use them: `Login`, `Logout`, `Relogin` and `Wake` are the application's
calls, `UserQuit`, `Ended` and `CallbackEnds` are a network thread in the callback
that ends a session, `RunBlock` is the block that closes the connection.  No lock
protects the globals.  Two sleeps do, 1.5 s in the login that finds an old manager
and 0.5 s in the callback, so the module counts time: a step with a deadline
(`Answer`, `Dispatch`, `Late`) comes before the `Tick` that would miss it.
`FacadeAssumption` is what the two constants of the code rely on: the block runs
within the callback's sleep, and the server's answer plus that sleep and the lines
after it, overslept or not, fit in the application's.

Both the callback and the login go from line to line, with every other thread in
between: `DeleteManager` (93), `ClearManager` (94), `TestListener` (96),
`DeleteListener` (97) and `ClearListener` (98) on the one side, `Create` (307),
`DropListener` (309-310), `ForgetListener` (311), `NewListener` (314) and `Connect`
(316-320) on the other.  `session` and `app` say how far each has come.  `manager` may
point to a deleted object between 93 and 94 (`CallDeleted` is a logout or a login that
calls it); `ears` are the listener objects and `callback` which of them each manager
was given.

No sleep orders lines 94-98 against a login that finds NULL.  Such a login is `hasty`
(a history variable with the managers made so): its new listener may be deleted by 97,
or 98 clears the global before 316 hands it on, and the manager, without a listener, tells
nobody of its end and is never deleted; the callback of a deleted listener, or its second
delete, may kill the program (`torn`).  A login that waits its 1.5 s is never hasty, and
neither is an application that logs in again only when it was told: the callback
notifies it after line 98.  `OwnListener` says that every other manager keeps its
listener, also after a hasty one, and `FacadeInv` has what remains true of all.

`USERQUIT` and `RELOGIN` hold the manager's mutex while the callback sleeps (`locked`): a
logout that comes then waits for a mutex that is deleted, and `Unstuck` lets it either
go on or die.

`Slot` is the abstract view: a slot that is taken, its connection closed and let go by
the callback of whoever is in it.  `going` says that a callback is still in its last
lines, `early` that the slot was taken meanwhile: only such a one may be lost (`Lose`).

Limits: the connection of the old manager is up when the application logs in
again, so that QUITSERVER is answered or the session ends; the calls inside
`logoutServer` are one step; the threads see each other's writes to the globals in
order; managers are never born twice (`Manager` bounds how many logins a behaviour
has).

### OpusEncoder

`CSIDataQueue` is modelled with its memory: the pointers are offsets from
`dataStartPointer`, both may stand one behind the last byte, and `activeLength`
tells full from empty.  `Upgrade` is one doubling, `Enqueue` the copy in one or two
pieces, `Encode` one round of the loop of `encodeBufferList`, `EncodeFails` the
round in which `opus_encode` returns an error and the frames of the call are
dropped.  A frame is the bytes it was cut from: what Opus makes of them is
outside.  Bytes are members of `Byte`, chunks of `Chunks`; `MaxLength` bounds what
is in the buffer when a call begins.  `encodeBufferList` is given one buffer, as
`recordingCallback` does; sizes do not overflow.

### VideoChat

One client in full, the others as the server shows them.  `mtgID` is `m_mtgID`,
`sender` is `m_OpenLocalUser` with the audio id it was opened under, `receivers`
and `userInfoList` are the keys of the two maps, `mic` says that the audio unit runs
and gives its frames to this manager.  `joinMtg` writes `m_mtgID` first and opens a
sender before it asks, without a lock, so that it is two steps (`JoinMtg`,
`JoinAsks`); every handler is one.  The teardown of `IVideoChat` is one step at the
end of its handler and waits for a `joinMtg` under way: what its asynchronous block
does is a matter of `MediaFacades`.

`stranded` is a history variable.  A login after an outage clears `m_mtgID` and closes
nothing (`SendLoginServer`), so the old meeting's media stay open, or are opened a
moment later by a packet that was already on its way.  The repository does not say
what should become of them; `stranded` holds from such a login until they are closed
and nothing that is under way, no JOIN, no answer to one, can open or close anything
of that meeting any more, and the properties except it.

`hasty` is another: `joinMtg` was called before the answer to `exitMtg` was read.
Nothing in the code makes the application wait, and the difference matters: the
answer closes the sender and clears `m_mtgID` even if the application has joined
another meeting by then (`CVideoChat.cpp:187`).  It hears that meeting then and is
not heard.  `TalksInTheMeeting`, `ClosedOutside` and `SilentAgain` are about an
application that waits; `HearsTheMeeting` and `NeverOverwritten` about any.

`Hearing` is what the client promises, without packets: it is offline, outside of a
meeting, entering one or inside; it enters with nobody in its ears, hears whoever is
there, all at once, then each who comes, once, until he goes or the meeting ends, and no
receiver is ever forgotten.  `phase` of `VideoChatInv` maps the state to it: a client is
offline without a session or when the end of it is to be read (`Leaving`), outside when it
has no sender and no call of the application runs, entering while a JOIN is to be
sent, read or answered (`Asking`), and else inside.  The two history variables are phases
of their own: of a `hasty` client `Hearing` still says that it forgets no receiver, of a
`stranded` one nothing.

The server is external: it answers packets in order, puts a user in at most one
meeting, lists in `JOINED` who is there, tells a session of every login and logout
and of who comes to and leaves its meeting, ends the meeting with the session, and
accepts the second login of a session it has.  Packets after a session's end are
ignored.

### LinkMic

One room, in which every client is modelled in full and hears the others: an anchor
opens a receiver for each user, a guest sends as long as it is logged in.  The only
agreement between a sender and a receiver is the audio id.  `LoginServer` draws a
new one each time (a random number in the code, the number of the login here), the
server hands it on, and `openLocalUser` and `openRemoteUser` say under which id a
client sends and to which it listens, so that being heard is that the two are equal.
Every handler is one step; so is every call of the application.  `CloseRemoteUserVideo`
closes the voice too, as the code does.

What the code does and no document speaks of is in history variables, and the
properties say exactly when it matters.

* `stale`: a reconnection (CS_RECONNECTED) logs in under a new id and keeps the
  sender of the old one.  `GuestIsHeard` says that an anchor hears a guest *if and
  only if* that has not happened.
* `stranded`: CS_RESTARTED does not log in again, as it does in the two other
  managers (`CLinkMicManage.cpp:93`).  The media of the lost session stay, and what
  ends the manager later may leave them open.
* `lost`: `UPDATEUSERLIST` opens a receiver for a user who has one; the old one is
  forgotten, open.  `LostByListOnly` says that this is the only way.
* `shut`: whose media the application closed.

A logout that finds no session is not answered, and the sender stays; `LogoutSilences`
is about the others.

### MediaFacades

`linkMicMgr.cpp` and `VideoChatMgr.c` keep their manager and their listener in two
globals like the intercom's interface, and order their threads with other sleeps.
One module has both, `kind` tells them apart.

| | `LinkMic` | `VideoChat` |
|---|---|---|
| a login that finds a manager | logs out in a block, sleeps 1 s (218) | logs out, sleeps 10 ms (339) |
| the callback that ends a session | dispatches `disconnect`, sleeps 0.5 s (51), deletes the manager (53) and the listener (57), tells the application (61-65) | dispatches a block, tells the application |
| the block | closes the connection of the manager in the global | closes the same, sleeps 50 ms (136), deletes the manager in the global |

Time is counted as in `IntercomFacade`: a step with a deadline (`Answer`, `Dispatch`,
`Late`) comes before the `Tick` that would miss it.  `MediaFacadesAssumption` is what the code relies on: with
`LinkMic`, `Dispatch < CloseWait` and `Dispatch + Answer + CloseWait + Late <
ReloginWait`; with `VideoChat`, `Dispatch + CloseWait + Late < Patience`, where
`Patience` is how long an application waits after it was told that a session ended.
The last is a duty of the application: 10 ms are not enough for an answer from
anywhere, so a login to a meeting that finds a manager is `hasty`, its late block
takes the new manager for the old one, and nothing is promised after it.

As in `IntercomFacade` the last lines of each thread are steps of their own: 53 to 65 of
the callback of `linkMicMgr.cpp` (`DeleteManager` to `TellApplication`), 133 to 138 of the
block of `VideoChatMgr.c`, and the three parts of a login (`Create`, `Listen`,
`Connect`).  A login to a room that finds NULL between 54 and 65 is `hasty` as well: 57 may
delete the listener it has just made.  An application that logs in when it was told,
or that waits in a login for the old manager, is not.  A logout of a manager that is
deleted under it may kill the program (`struck`).

### LocalMedia

The record callback hands each frame to a block on a *concurrent* queue, which hands
it to a block on the sender's serial queue, which stamps it and sends it.  The manager
opens the sender in one step and closes it in three (`Detach`, `Stop`, `Delete`), with
everything else in between.  `ProcessAudioFrame` is the stamp: `Gap` is the 120 ms of
silence after which the clock is taken as it is, `SeqWord` the width of the sequence
number.  Unsigned differences are as the code takes them: a clock behind the last
frame is a long silence.

`overlapped` says that two blocks were on the concurrent queue at once, `left` that a
block was on its way when its sender was deleted, `dead` that it ran, `stepped` that
the clock was set back.  `m_ulLastPacketTimestamp` is the time as computed, `timestamp` the field
of the packet, which takes its lower 32 bits (`OpenLocalUser.cpp:367`) and wraps every
49.7 days.  `TimestampsGrow` says that the first always grows, and that the second
follows the one before in the arithmetic of its width, across a wrap too, unless the
silence between them was half of what it counts or longer (24.8 days).  Closing waits for no block, so `dead` does happen
(`OpenLocalUser.cpp:233`, 371), but only after `left`.

Assumptions: at most one frame is captured in a millisecond (one is 20 ms long), no
more than `Backlog` are on their way and `Backlog < Gap` (fewer than 120 frames, which
is more than two seconds of sound), a sender can be created, the 64-bit clock does not
wrap.

### CmdPacket

A text is a sequence of symbols, and what the code calls are operators over it:
`CommandStringEncode` and `CommandStringDecode`, `StrSplit` (which skips empty parts
but counts them), `ItemString`, `ParseItem`, `GetString`, `Parse`, `GetItemList`.  A state machine around
them builds a packet, sends it, in the clear or encrypted, receives it and reads its
attributes, because reading inserts them (`operator[]`).  An encrypted packet is
built from a wrong length (`AppClient.cpp:162`), so that it may be dropped: the byte
that decides lies behind the buffer.

`ReadAsMeant` says which values survive, both ways: all those, and only those, in
which `&amp;`, `&return;` and `&newline;` do not occur as text (an `&amp;` that was
typed is decoded twice).  `ItemsArrive` says what empty items cost: each that stands before
a full one takes the last item with it.

## Runs

`CHECK_DEADLOCK FALSE` is in every run but `Encoder`: a user may stop touching the
buttons, managers and logins run out, a program that touched a deleted object is
dead, a packet was read, so the system may really come to rest.  The encoder always
has a next call.

| run | question |
|---|---|
| `IntercomChannels` | room and group, two users who press everything, one of whom logs out and in: talker is holder (`TalkerHoldsFloor`), holder talks (`HolderTalks`), exact user lists (`UserListExact`), no microphone left to nobody by a logout or a refusal (`NoOrphan`), the inductive invariants (`PromptInv`), `Floor` is implemented (`ImplementsFloor`) |
| `IntercomOutage` | `Spec`, the connections of speaker and listener fail in every way: floors are freed (`NotLockedOut`), pictures are repaired (`KnowsEverybody`) |
| `IntercomTrio` | one client hears two speakers, one user is in no group: the speaker shown is the one played (`SpeakerIsPlayed`) |
| `IntercomLive` | fairness: a granted floor comes back (`FloorReturns`), a locked channel opens (`LockoutEnds`) |
| `IntercomDisabled` | what `uuDefine.h:59` says of AUDIO_SEND_DISABLE (`DisabledIsSilent`), broken: a grant after `stopSendAudio` opens the microphone again |
| `FacadeRelogin` | three logins, sessions that end in every way: one manager with its own listener, none forgotten, none called after its end, unless a login was hasty (`FacadeInv`, `OwnEnd`, `ImplementsSlot`); a user who logs in again gets a new manager (`LoggedInAgain`) |
| `MediaFacades` | the same of the other two interfaces: one manager, deleted by its own end (`OneManagerEach`, `MediaFacadesInv`), gone with its callback when the application has waited (`PatienceIsEnough`) |
| `Video` | two meetings, outages, a user who comes and goes, an application that leaves and joins as it likes: the receivers are those of the meeting (`HearsTheMeeting`, and the inductive invariant `VideoInv`), they fill and empty as `Hearing` says, none overwritten (`ImplementsHearing`, which contains `NeverOverwritten`); if it waits, it is in the meeting it knows, with its sender (`TalksInTheMeeting`), nothing is open outside or at the end (`ClosedOutside`), and a meeting that was left gets silent (`SilentAgain`) |
| `LinkMic` | an anchor and a guest, in, out, refused, reconnected, restarted, logged in elsewhere: whom the anchor hears (`AnchorHears`), when the guest is heard (`GuestIsHeard`), what a list loses (`LostByListOnly`), what is left open (`NothingOutlivesManager`), that a logout silences (`LogoutSilences`); the inductive invariant (`LinkMicInv`) |
| `Encoder` | every chunk of up to a frame and some of more, errors anywhere: the frames are cut from the stream in order (`ImplementsFraming`, `EncoderInv`), every call returns (`Returns`), a call with a short chunk has at most one frame (`OneFramePerCall`) |
| `LocalMedia` | bursts, silences, late blocks in any order, a clock set back, a sender closed at any moment: times grow and their fields follow each other (`TimestampsGrow`), frames keep their order (`InOrder`), and the inductive invariant (`LocalMediaInv`), which contains that nothing deleted is used unless a block was left behind |
| `Commands` | every packet of the bounds, read and written out again: which values come back (`ReadAsMeant`), which items (`ItemsArrive`), that a packet can be passed on (`Relayed`) |

### Bounds

`MaxToServer` is how many packets of one client may be under way before its next call
waits, `MaxToClient` how many a client may have unread before the server waits.

*Intercom.*  Two clients are enough for the race between a speaker and a listener, or
two speakers; `IntercomTrio` adds a third so that one client hears two speakers on two
channels at once.  With 2 and 1 a release and the next request, or a grant and the
news of another floor, are in flight together.  In `IntercomOutage` one user talks,
because two who do are too many states.  Logouts and refusals are in
`IntercomChannels`, where one user leaves and one may be refused.

*Facades.*  In `FacadeRelogin` a unit is a quarter of a second: 6 and 2 are the code's
sleeps, and 2, 1 and 1 the longest answer, dispatch and oversleep that the assumption
allows with them.  In `MediaFacades` it is an eighth: 8 and 4 are the sleeps of `linkMicMgr.cpp`, 0
and 1 stand for the 10 ms and the 50 ms of `VideoChatMgr.c`, and an application
of it waits for 4.  Three managers give a second relogin while the first is still
being paid for; in `MediaFacades` they are symmetric.

*Video.*  One user who logs in, joins, leaves, logs out and comes back in any order is
enough: the handlers treat users independently, and the theorems are about any
number.  Two meetings tell an answer about one from an answer about the other.  The
client may have two packets under way, so that an exit and a join are in flight
together, and the server writes while one is unread.  `Busy` waits for room for the
login it leads to.  With two unread packets (4.5 million states) the safety properties
hold too; that takes longer than a run should.  One meeting was tried with three and
four as well.  The proofs need no bound.

*LinkMic.*  An anchor and a guest, two logins each: the second is what makes `stale`,
`lost` and a REMOTEUSERQUIT of an old id possible.  Two packets to the server let a
login and the request for the list be in flight together; several news can be unread
at once even with `MaxToClient = 0`, because a server's step may send more than one.  Two anchors (3.7 million states) were
tried as well, and three logins or three clients to a depth of more than twenty steps;
the proofs need no bound.

*Encoder.*  Frames of two bytes over two values and a buffer of four, which wraps with
chunks of up to a frame and doubles, while wrapped, with the longer ones; `MaxLength`
allows one doubling.

*LocalMedia.*  `Gap = 4` and `Backlog = 2`, the least in which a burst can run ahead and
a silence end it; 7 ms and five frames let two bursts and a silence follow each other;
the sequence number wraps at 4, the timestamp at 10, which the clock (4 to 11) passes.  `MaxTime` and `MaxFrames` bound only TLC.

*Commands.*  Attribute A takes every text of up to two symbols, and of three that begin
with `&`, over the separators, the escapes and a letter, so that it may spell an escape and an
escape of one; B has separators, USERID a letter, up to three items are empty, full of
separators, or of two attributes.

### Fairness

`Intercom` (`FairPromptSpec`): weak fairness of the network thread and of every step
inside a call, both being threads that run.  Strong fairness of the server: it waits
while any client has unread packets, so it is enabled again and again, not for ever.
Strong fairness of `StopSendAudio` is the one assumption about the user: somebody who
keeps pressing lets go again and again.  Nothing is assumed of `Login` or
`StartSendAudio`.

`IntercomFacade`: time passes, a thread whose sleep is over runs on to the end of its
call, line by line, a dispatched block runs, a server that is asked to end a session
answers, whether or not the manager has a listener to tell.  `OpusEncoder`: the thread that
makes the call runs.

`VideoChat` and `LinkMic` (`FairSpec`): the network thread handles what it has; XNet
reconnects or gives up, but need not come back from a disconnection; the server answers,
strongly, because it waits for room that comes and goes.  Nothing is assumed of what
the user does, nor that a call of the application goes on.

## Proofs

Every theorem is for all values of the constants that the named assumption of its
module allows.

**Intercom.**  For any set of clients, any groups and any queue bounds, from the one
assumption `IntercomAssumption`.

With any network (`Spec`, in `IntercomProofs`), what a listener knows is only as good as
what it has read, so `AnyInv` speaks of what it has not.  For each client in a session
that it will not read the end of: whoever it shows as a speaker, or is about to be told
of, holds the floor, or a packet *behind* that one in the queue takes it away (`Shown`,
`Telling`); a user in the room is in its list or will be when all is read, unless the
list is still to be asked for (`Informed`).  `Linked` says what is left of a client
without a session, `Consistent` that a channel is never disabled for nobody.
`ReadSound` carries this over a packet that is read, `ToldSound` over packets that are
appended; a session that ends frees the floors and tells the others in one step of the
server, which is why a loss of the connection cannot break it.  `NobodyIsLockedOut` and
`EverybodyIsKnown` follow: with everything read, nothing is left that could correct a
false belief, so there is none.

When the network answers in time (`PromptSpec`, in `IntercomFloorProofs`), more holds, and
`TalkerHoldsFloor` is not inductive: whether a client may open its microphone is decided
by what is in its queues.  `IInv` says, for each client, that a request is the last
thing it said and it waits for the answer (`Requests`); that whoever has a floor, from
the moment the grant is sent until it begins to stop, is the holder and has asked for
nothing else (`Owns`); that a grant in flight is the last word on its floor (`Grants`);
that status, sender and threads agree (`Local`); and that whoever a client believes to
be speaking, or is about to be told of, still holds the floor or the packet that says
otherwise is behind it in the queue (`Beliefs`, `Announced`).  There is one lemma per
action; `Frame` covers the clients a step does not touch, `HandlerGood` the handlers
that only read, `Told` and `ToldOne` the clients the server tells something.
`FloorImplemented` maps each step to a step of `Floor` or a stutter.  `NothingOrphaned`
rests on `Session` and `Owns`: who is about to read USERQUIT or a refusal has no session
any more, and who talks, or has a grant on its way, has one.

Three invariants on top of it give the rest, and `PromptInvariant` is all of them.
`HeldInv`: a floor is held by one who is told so, talks, or has said that it is free,
and nobody holds two, from which `HoldersTalk`.  `ListedInv`: nobody is in a list, or
will be, who has left, the converse of `Informed`; the two give `ListIsExact`.
`PlayedInv`: whom a client shows on a channel it plays.  The code may close *every*
receiver when one channel falls silent and the other is (`StillOpen`), so the proof has
to know that the speaker who falls silent is not shown on the other channel as well.
That is `NoOtherFloor`: whom a client believes on one floor frees no other before that
one, which rests on `OneFloor` of the speaker.

**Intercom facade.**  `FacadeInv` says how far the session, object, connection and block
of each manager have come together (`Life`), that no deadline has passed
(`Deadlines`), and, for an application asleep in a login, that the old manager is on
its way out and the way is shorter than what is left of the sleep (`OnTheWayOut`).
The last is what the 1.5 seconds are for, and it fails when the assumption does.
`Haste` says that a manager that was not made in haste meets no callback in its last
lines, and `Listeners` which listener the global then has, at each line of the callback
and of the login.  `OneManagerAtATime`, `OwnListenerKept`, `DeletedAtItsEnd` and
`NoNullCalls` follow from it, and each step is a step of `Slot` or a stutter
(`SlotImplemented`).

**Media facades.**  `Orderly` is the same argument for the other two, with a `Life` of its
own for each: in `LinkMic` the login's sleep outlasts the way out (`OnTheWayOut`), in
`VideoChat` the application's patience does (`GoneSoon`).  `InTurn` says that only the
manager in the global, or the one that has just left it, is on its way out, `OneLeaves`
that one callback at a time has a listener to delete, and `Informed` that who was told
finds none.  `MediaFacadesInvariant`, `OneManagerForEachSession`,
`OwnListenerForEachSession` and `WaitingIsEnough` hold for any sleeps that
`MediaFacadesAssumption` allows, and say nothing after a `hasty` login.

**Video meeting.**  `HearsTheMeeting` speaks of a moment when all is read; until then the
client's receivers, its user list and the server's members differ by what is in the
queues.  `VideoInv` is `MeetingInv /\ TalkInv /\ EarsInv`.  `MeetingInv` says what the client
*will* make of the packets it has not read:
`EndsOpen` is whether it will have a receiver for a user at the end of the queue,
`ClosedAfter` and `KnownAfter` what it will have after some of it, and `InStep` that
this is who is in the meeting, or, when the client was put out of step by a login,
that `stranded` says so.  `Sessions`, `Logins`, `Listed` and `Framed` say in which order the
packets of a session can come, `NeverTwice` that nobody is opened who will not have
been closed.  `ReadKeeps` and `TellKeeps` carry these over the two ends of a queue: each
handler reads its first packet, each step of the server appends one.
`MeetingIsHeard` and `NobodyOverwritten` follow from it, of any application, hasty or
not.

`TalkInv` is about the sender of an application that is not hasty.  `Unread`: the answer
to a JOIN, the news of a user who joins, and the end of a meeting, will find the sender that was opened for it, because
nothing before them in the queue closes it.  `Unanswered`: at most one JOIN is asked for
in a session, no EXIT is read before it, and no packet that is under way will close the
sender before its answer.  `InTouch`: a client knows the meeting it is in, or is in none,
or has not read yet how it ended.  `Beginning` and `Refusals` say that nothing is open
before the first session and when a manager is deleted; `AskedOnce`, `ExitLast` and
`OnlyTo` are the order of the packets that the others need.  A hasty application breaks
`Unanswered` first: its EXIT is still under way when it sends the next JOIN, and the
answer to the one closes what was opened for the other.  `MeetingIsTalkedTo` and
`NothingOpenOutside` follow.

`EarsInv` says what `Hearing` needs of the same application.  A client with receivers has
its sender; an answer to a JOIN is read with nobody heard, because nothing before it in
the queue fills the ears (`Finds`, of which `Unread` is the other use); and a client that
the server has in no meeting hears nobody and is about to hear nobody, unless the end of
its meeting is on its way.  `HearsAsPromised` goes by actions: most leave the phase alone
(`PhaseStays`, `NobodyAsks`); the connection, the ends of sessions, the answers and the
calls have a lemma each, which names the step of `Hearing`; `AdriftHears` has the steps
into, in and out of the two phases of the history variables; `LostStays` is that nothing
is forgotten in the others.  Every action of `Hearing` is needed: TLC finds a step of
`VideoChat` that none of the others allows.

All of it holds for any users, meetings and packets, from `VideoChatAssumption`.

**Mic link.**  Whom an anchor hears is decided by what it has not read, so `LinkMicInv`
follows each user through the anchor's queue.  `Becomes(q, k, u, x, y)` says that who
listens to `u` under the id `x` does so under `y` when it has read `k` packets of `q`.  With
it, `Hearing` says that in the end nobody is heard under an id that is not his (`InStep`);
that everybody is, once the list is on its way, but whom the application shut and of
whom no news has come (`Complete`); and that REMOTEUSERLOGIN never finds a receiver
(`NeverTwice`), which is why only a list can lose one.  `Ids` and `Senders` are the other
end of the agreement: a session has the last id its client drew or a login with it is
under way, and a sender has that id or is `stale`.  `Sessions`, `Beginning` and `Refusals` are
what the ends of sessions need: a queue has a session, and a client begins one with
nothing open unless it is `stranded`.  One lemma per action; `NewsAppend` and `NewsTail`
carry `Becomes` over the two ends of a queue, `Others` and what `Announced` adds the
clients a step only tells something.  `AnchorsHear`, `GuestsAreHeard`, `NothingIsLeft`
and, an action property, `LoginsLoseNothing` follow for any users, anchors, numbers of
logins and queue bounds.

**Encoder.**  `EncoderInv` ties the end pointer to the start and the length.  Given that,
byte `i` of the content lies at `At(i)`, and `OpusEncoderProofs` shows what each
operation does to `Contents`: a write appends, a dequeue drops a prefix that `Peek`
had returned, a doubling changes nothing; from which `FramingImplemented`.  The
three bounds (`OneFrameEach`, `LeftIsBounded`, `MemoryIsBounded`) add to it that a chunk
of at most a frame finds at most a frame (`Slack`).

**Local media.**  That a timestamp grows by one when it has reached the clock looks as if
bursts could push it ahead for good.  `Stamps` counts: how far it is ahead, plus what is
on its way, plus what may still come in this millisecond, is at most one backlog, and
that is less than the gap.  A packet's time is ahead of the last one by one, or by no more
than the silence, which is why its field, whose remainders the lemmas `Parts` to `Ahead`
are about, follows the last one.  `TimestampsAlwaysGrow` and `TimestampsStayClose` follow, for
any gap and backlog.  `Order` is the order of the frames in pool, queue and wire
(`FramesInOrder`), `Life` that a running unit has a sender (`DrainedIsSafe`).

**Only model-checked.**  Everything of `CmdPacket`, which is recursion over texts and so
induction over data, beyond the prover; all liveness (`FloorReturns`, `LockoutEnds`,
`LoggedInAgain`, `Returns`, `SilentAgain`, `LogoutSilences`), which is beyond it too.

## Not modelled

* Media itself: what Opus, H.264, Core Audio, the camera and AES do with the bytes.
  `decode` only calls `opus_decode`; its output queue is never filled.
* The mixer, the remote media, the video capture, the views and the main queue: see the
  plan.  In the meeting also the camera and the media of single users, in the room
  `OpenRemoteUserVideo` and an anchor with video (`creatVideoWindow` returns nil before
  its block has run, and `addObject:nil` throws).
* Calls and packets that only pass data through (signalling, SendDataToUser, media
  status, invitations), and `creatMtg`, which nothing calls.
* In `CmdPacket`: `StrSplitEx`, `UPPERCASE`, conversions of numbers, copies of packets.
* In `LocalMedia`: video, a sender that cannot be created, and the pointer to the
  encoded bytes, which the block keeps and its owner may free (`OpenLocalUser.cpp:233`).
* `KThread` and the older copies of the managers, which the Xcode project does not build;
  the vendored libraries; the demo application, as whom the models make any call at any time.

Data races on C++ maps and strings are not modelled as corruption.

Two interleavings close to that of `IntercomDisabled` have no run of their own:
`stopSendAudio` tests a status at `CIntercomManage.cpp:92` and writes it at 95 without a
lock, so that a grant in between leaves AUDIO_SEND_SENDING with nothing sent, and the
AUDIO_SEND_DISABLE of the next speaker in between is overwritten with
AUDIO_SEND_ENABLE.

Hazards that `PROJECT.json` leaves to this list.  Intercom and connection: a login
refused after an outage deletes the manager with its media open
(`CIntercomManage.cpp:187`); the callback deletes the listener it is running in, whose
members it does not read afterwards (`IntercomMgr.m:97`); `Close` deletes the XNet client on the block's thread while one of its
callbacks may run (`AppClient.cpp:95`), whose buffers take lengths that are no multiple
of 16 (34, 154).  Meeting: the same refusal (`CVideoChat.cpp:320`); every login clears
`m_mtgID` and draws a new `m_audioID` (470); the maps are searched or cleared without the
mutex (522, 1025); `destroyMtg` sends MTG_EXIT (645); a block keeps an iterator of the
map after the mutex is released (995).  Room: `CLinkMicManage.cpp` closes its sender
unlocked (575), drops the views for good (643), loses the receiver of an unknown name
(655).  Media: members without an initial value (`OpenLocalUser.cpp:191`); unbounded
buffers and a decoder shared by the receivers (`AudioUnitManager.m:122`,
`OpenRemoteUser.cpp:165`); nothing clears the encoder's buffer (`CSIOpusEncoder.m:128`,
which `LeftIsBounded` bounds for short chunks), and of the frames of a call only the
first is sent (`AudioUnitTool.m:69`); the global capture object and the decoder's timer
(`VideoLibrary.cpp:24`, `liveFFmpegdecode.m:67`).

## Plan

In this order.

1. The main queue with the camera and the views of the meeting and of the room
   (`CVideoChat.cpp:727`): blocks that run after the handler that
   dispatched them, when what they point to may be gone.
2. `Mixer` (`AudioUnitManager.m`, `OpenRemoteUser.cpp`, `startAudioUnit` of
   `CVideoChat.cpp:898`): one buffer for each receiver, by its order.  `startAudioUnit`
   stops the graph and clears the buffers, numbers the receivers by their place in the
   map, and starts as many busses as there are; handlers run it under `m_mutex`, the
   block of MTG_EXIT (287) without, so that two may overlap.  A new receiver has order 0
   until then, a frame decoded before is appended under its old order
   (`AudioUnitManager.m:118`), and nothing bounds the buffers.
3. `VideoCapture` (`VideoLibrary.cpp`, `VideoCaptureEncod.cpp`, `liveFFmpegdecode.m`):
   the two global capture objects, the waits for the main queue (62).
4. `IntercomFacade` with a login before the first connection is up, when QUITSERVER has no
   answer (`IntercomMgr.m:301`).
