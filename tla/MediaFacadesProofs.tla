------------------------- MODULE MediaFacadesProofs -------------------------
(***************************************************************************)
(* The sleeps of linkMicMgr.cpp and the patience of an application of      *)
(* VideoChatMgr.c are enough, for every choice of times that               *)
(* MediaFacadesAssumption allows.                                          *)
(***************************************************************************)
EXTENDS MediaFacades, TLAPS

LEMMA MediaFacadesInit == Init => MediaFacadesInv
<1> SUFFICES ASSUME Init PROVE MediaFacadesInv
  OBVIOUS
<1>1. MediaFacadesTypeOK
  BY DEF Init, MediaFacadesTypeOK, Session, Block, App
<1>2. OneManagerEach /\ OwnListenerEach
  BY MediaFacadesAssumption DEF Init, OneManagerEach, OwnListenerEach
<1>3. ASSUME NEW m \in Manager PROVE InTurn(m) /\ Deadlines(m)
  BY DEF Init, InTurn, Deadlines, Sleeping, Ending, Leaving
<1>4. OneLeaves /\ InUse /\ Waiting /\ Informed /\ Listened
  BY DEF Init, OneLeaves, InUse, Waiting, Informed, Listened, Leaving
<1> QED
  BY <1>1, <1>2, <1>3, <1>4 DEF MediaFacadesInv, Orderly, Init

\* Whoever logged in too early is on his own: only the types are left.
LEMMA Hasty == ASSUME MediaFacadesTypeOK', hasty' PROVE MediaFacadesInv'
BY DEF MediaFacadesInv

-----------------------------------------------------------------------------
(* What the invariant says of one manager.                                 *)

\* The manager in the global is alive, or was deleted a line ago.
LEMMA Present ==
  ASSUME MediaFacadesInv, ~ hasty, manager # NULL
  PROVE  /\ manager \in Manager /\ Use(manager) /\ kind \in Kind
         /\ object[manager] \in {"alive", "deleted"}
         /\ object[manager] = "deleted" =>
              /\ connection[manager] = "closed" /\ app \notin {"made", "listening"}
              /\ IF kind = "LinkMic" THEN session[manager] = "freed" /\ block[manager] = "done"
                                     ELSE session[manager] = "over" /\ block[manager] = "freed"
         /\ \A m \in Manager : session[m] \notin Leaving
<1>1. manager \in Manager /\ Use(manager) /\ kind \in Kind /\ InTurn(manager)
  BY DEF MediaFacadesInv, MediaFacadesTypeOK, Orderly, InUse
<1>2. \A m \in Manager : session[m] \notin Leaving
  BY DEF MediaFacadesInv, Orderly, InTurn
<1>3. object[manager] \in {"alive", "deleted"}
  BY <1>1 DEF MediaFacadesInv, MediaFacadesTypeOK, Orderly, OneManagerEach, InTurn
<1>4. ASSUME object[manager] = "deleted"
      PROVE  /\ connection[manager] = "closed" /\ app \notin {"made", "listening"}
             /\ IF kind = "LinkMic" THEN session[manager] = "freed" /\ block[manager] = "done"
                                    ELSE session[manager] = "over" /\ block[manager] = "freed"
  <2>1. /\ connection[manager] = "closed" /\ session[manager] \notin {"on", "quit", "callback"}
        /\ session[manager] = "freed" \/ block[manager] = "freed"
    BY <1>1, <1>4 DEF MediaFacadesInv, Orderly, OneManagerEach
  <2>2. block[manager] = IF kind = "LinkMic" THEN "done" ELSE "freed"
    BY <1>1, <1>4 DEF Use
  <2>3. session[manager] \in {"freed", "over"}
    BY <1>1, <1>2, <2>1 DEF MediaFacadesInv, MediaFacadesTypeOK, Session, Leaving
  <2> QED
    BY <1>1, <2>1, <2>2, <2>3 DEF Use, InTurn
<1> QED
  BY <1>1, <1>2, <1>3, <1>4

\* Who is alive is in the global.
LEMMA Living ==
  ASSUME MediaFacadesInv, ~ hasty, NEW m \in Manager, object[m] = "alive"
  PROVE  /\ m = manager /\ manager # NULL /\ kind \in Kind
         /\ kind = "LinkMic" => LinkMicLife(m)
         /\ kind = "VideoChat" => VideoChatLife(m)
<1>1. m = manager /\ m # NULL
  BY MediaFacadesAssumption DEF MediaFacadesInv, Orderly, OneManagerEach
<1> QED
  BY <1>1, Present DEF Use

\* A listener is called on its own manager's behalf.
LEMMA Answered ==
  ASSUME MediaFacadesInv, ~ hasty, NEW m \in Manager, Ends(m)
  PROVE  /\ m = manager /\ manager # NULL /\ object[m] = "alive" /\ kind \in Kind
         /\ callback[m] = m /\ callback[m] # NULL /\ listener = m /\ ears[m] = "alive"
         /\ kind = "LinkMic" => LinkMicLife(m)
         /\ kind = "VideoChat" => VideoChatLife(m)
         /\ app \notin {"made", "listening"}
<1>1. object[m] = "alive" /\ connection[m] = "open"
  BY DEF Ends
<1>2. /\ m = manager /\ manager # NULL /\ kind \in Kind
      /\ kind = "LinkMic" => LinkMicLife(m)
      /\ kind = "VideoChat" => VideoChatLife(m)
  BY <1>1, Living
<1>3. callback[m] = m /\ listener = m /\ ears[m] = "alive"
  BY <1>1 DEF MediaFacadesInv, Orderly, OwnListenerEach
<1>4. app \notin {"made", "listening"}
  BY <1>1, <1>2, Present DEF Use
<1> QED
  BY <1>1, <1>2, <1>3, <1>4

\* The session of one manager at a time is past its callback's first line.
LEMMA AloneLeaving ==
  ASSUME MediaFacadesInv, ~ hasty, NEW m \in Manager, session[m] \in Leaving
  PROVE  /\ manager = NULL /\ kind = "LinkMic" /\ object[m] = "deleted" /\ ~ told
         /\ connection[m] = "closed" /\ app \notin {"made", "listening"}
         /\ \A o \in Manager : object[o] # "alive" /\ session[o] \notin {"quit", "callback", "freed"}
         /\ \A o \in Manager : session[o] \in Leaving => o = m
<1>1. manager = NULL /\ kind = "LinkMic" /\ ~ told
  BY DEF MediaFacadesInv, Orderly, InTurn, Informed
<1>2. \A o \in Manager : object[o] # "alive" /\ session[o] \notin {"quit", "callback", "freed"}
  BY <1>1, MediaFacadesAssumption DEF MediaFacadesInv, Orderly, OneManagerEach, InTurn
<1>3. object[m] # "unborn"
  BY DEF MediaFacadesInv, Orderly, InTurn, Leaving
<1>4. object[m] = "deleted" /\ connection[m] = "closed"
  BY <1>2, <1>3 DEF MediaFacadesInv, MediaFacadesTypeOK, Orderly, OneManagerEach
<1>5. app \notin {"made", "listening"}
  BY <1>1 DEF MediaFacadesInv, Orderly, InUse
<1>6. \A o \in Manager : session[o] \in Leaving => o = m
  BY DEF MediaFacadesInv, Orderly, OneLeaves
<1> QED
  BY <1>1, <1>2, <1>4, <1>5, <1>6

-----------------------------------------------------------------------------
(* The application's thread.                                               *)

\* A new manager may only replace none, with no callback left to fear.
LEMMA Created ==
  ASSUME MediaFacadesInv, NEW m \in Manager, Create(m), ~ hasty, ~ hasty',
         manager = NULL, ~ quitBlock, \A o \in Manager : session[o] \notin Leaving
  PROVE  Orderly'
<1> USE MediaFacadesAssumption
<1>1. /\ object[m] = "unborn" /\ session[m] = "on" /\ block[m] = "none" /\ connection[m] = "none"
      /\ m # NULL
  BY DEF Create, MediaFacadesInv, Orderly, InTurn
<1>2. /\ manager' = m /\ object' = [object EXCEPT ![m] = "alive"] /\ app' = "made" /\ ~ told'
      /\ UNCHANGED <<kind, listener, ears, callback, connection, session, block, clock, quitBlock>>
  BY DEF Create
<1>3. OneManagerEach'
  BY <1>1, <1>2 DEF MediaFacadesInv, MediaFacadesTypeOK, Orderly, OneManagerEach
<1>4. OwnListenerEach'
  BY <1>1, <1>2 DEF MediaFacadesInv, MediaFacadesTypeOK, Orderly, OwnListenerEach
<1>5. ASSUME NEW o \in Manager PROVE InTurn(o)' /\ Deadlines(o)'
  <2>1. Deadlines(o)'
    BY <1>2 DEF MediaFacadesInv, Orderly, Deadlines, Sleeping
  <2>2. CASE o = m
    BY <1>1, <1>2, <2>1, <2>2 DEF MediaFacadesInv, MediaFacadesTypeOK, InTurn, Leaving
  <2>3. CASE o # m
    <3>1. /\ session[o] \notin {"quit", "callback", "freed"}
          /\ block[o] \notin {"queued", "closing", "freed"} /\ session[o] \notin Leaving
      BY DEF MediaFacadesInv, Orderly, InTurn
    <3> QED
      BY <1>2, <2>1, <2>3, <3>1 DEF MediaFacadesInv, MediaFacadesTypeOK, Orderly, InTurn, Leaving
  <2> QED
    BY <2>2, <2>3
<1>6. InUse'
  BY <1>1, <1>2 DEF MediaFacadesInv, MediaFacadesTypeOK, InUse, Use, LinkMicLife, VideoChatLife
<1>7. OneLeaves' /\ Waiting' /\ Informed' /\ Listened'
  BY <1>2 DEF MediaFacadesInv, Orderly, OneLeaves, Waiting, Informed, Listened
<1> QED
  BY <1>2, <1>3, <1>4, <1>5, <1>6, <1>7 DEF Orderly

LEMMA CreateTyped ==
  ASSUME MediaFacadesInv, NEW m \in Manager, Create(m), hasty' \in BOOLEAN PROVE MediaFacadesTypeOK'
BY DEF MediaFacadesInv, MediaFacadesTypeOK, Create, App

LEMMA LoginKeeps == ASSUME MediaFacadesInv, NEW m \in Manager, Login(m) PROVE MediaFacadesInv'
<1>1. MediaFacadesTypeOK'
  BY CreateTyped DEF Login, MediaFacadesInv, MediaFacadesTypeOK
<1>2. ASSUME ~ hasty' PROVE Orderly'
  <2>1. ~ hasty /\ \A o \in Manager : session[o] \notin Leaving
    BY <1>2 DEF Login
  <2>2. ~ quitBlock
    BY <2>1 DEF Login, MediaFacadesInv, Orderly, Waiting
  <2> QED
    BY <1>2, <2>1, <2>2, Created DEF Login
<1> QED
  BY <1>1, <1>2 DEF MediaFacadesInv

\* A login wakes up when the old manager is gone: nothing of its end can have taken so long.
LEMMA WakeKeeps == ASSUME MediaFacadesInv, NEW m \in Manager, Wake(m) PROVE MediaFacadesInv'
<1>1. MediaFacadesTypeOK'
  BY CreateTyped DEF Wake, MediaFacadesInv, MediaFacadesTypeOK
<1>2. ASSUME ~ hasty PROVE Orderly'
  <2>1. kind = "LinkMic" /\ app = "relogin" /\ appClock \in Nat
    BY <1>2 DEF Wake, MediaFacadesInv, MediaFacadesTypeOK, Orderly, Waiting
  <2>2. Dispatch + Answer + CloseWait["LinkMic"] + Late < appClock
    BY <2>1, MediaFacadesAssumption DEF Wake, Kind
  <2>3. Dispatch \in Nat /\ Answer \in Nat /\ CloseWait["LinkMic"] \in Nat /\ Late \in Nat
    BY MediaFacadesAssumption DEF Kind
  <2>4. ~ quitBlock
    <3>1. quitBlock => appClock <= Dispatch
      BY <1>2 DEF MediaFacadesInv, Orderly, Waiting
    <3>2. ~ (appClock <= Dispatch)
      BY <2>1, <2>2, <2>3
    <3> QED
      BY <3>1, <3>2
  <2>5. ASSUME NEW o \in Manager, o = manager \/ session[o] \in Leaving PROVE FALSE
    <3> DEFINE c == clock[o]
    <3>1. c \in Nat /\ session[o] \in Session /\ OnTheWayOut(o) /\ Deadlines(o)
      BY <1>2, <2>1, <2>5 DEF MediaFacadesInv, MediaFacadesTypeOK, Orderly, Waiting
    <3>2. session[o] \in {"quit"} \cup Ending
      <4>1. CASE session[o] \in Leaving
        BY <4>1 DEF Ending
      <4>2. CASE o = manager
        BY <1>2, <2>1, <2>4, <3>1, <4>2, Present, MediaFacadesAssumption
        DEF Use, LinkMicLife, OnTheWayOut, Ending
      <4> QED
        BY <2>5, <4>1, <4>2
    <3>3. CASE session[o] = "quit"
      <4>1. c <= Answer /\ appClock <= Dispatch + c
        BY <3>1, <3>3 DEF Deadlines, OnTheWayOut
      <4> QED
        BY <2>1, <2>2, <2>3, <3>1, <4>1
    <3>4. CASE session[o] \in Ending
      <4>1. c <= CloseWait["LinkMic"] + Late /\ appClock <= Dispatch + Answer + c
        BY <2>1, <3>1, <3>4 DEF Deadlines, Sleeping, OnTheWayOut
      <4> QED
        BY <2>1, <2>2, <2>3, <3>1, <4>1
    <3> QED
      BY <3>2, <3>3, <3>4
  <2>6. manager = NULL
    BY <2>5 DEF MediaFacadesInv, MediaFacadesTypeOK
  <2> QED
    BY <1>2, <2>4, <2>5, <2>6, Created DEF Wake
<1> QED
  BY <1>1, <1>2 DEF MediaFacadesInv, Wake

LEMMA ListenKeeps == ASSUME MediaFacadesInv, Listen PROVE MediaFacadesInv'
<1> USE MediaFacadesAssumption
<1>1. MediaFacadesTypeOK'
  BY DEF MediaFacadesInv, MediaFacadesTypeOK, Listen, Without, App
<1>2. ASSUME ~ hasty PROVE Orderly'
  <2>1. /\ manager \in Manager /\ object[manager] = "alive" /\ connection[manager] = "none"
        /\ session[manager] = "on" /\ block[manager] = "none" /\ kind \in Kind
        /\ \A o \in Manager : session[o] \notin Leaving
    BY <1>2, Present DEF Listen, Use, LinkMicLife, VideoChatLife, Kind
  <2>2. /\ app = "made" /\ app' = "listening" /\ listener' = manager
        /\ ears' \in [Manager -> {"unborn", "alive", "deleted"}] /\ ears'[manager] = "alive"
        /\ \A o \in Manager \ {manager} :
             ears'[o] = ears[o] \/ (o = listener /\ ears[o] = "alive" /\ ears'[o] = "deleted")
        /\ UNCHANGED <<kind, manager, object, callback, connection, session, block, clock, quitBlock,
                       appClock, told, toldClock, hasty>>
    <3>1. ears \in [Manager -> {"unborn", "alive", "deleted"}] /\ listener \in Manager \cup {NULL}
      BY DEF MediaFacadesInv, MediaFacadesTypeOK
    <3>2. /\ app = "made" /\ listener' = manager
          /\ UNCHANGED <<kind, manager, object, callback, connection, session, block, clock, quitBlock,
                         appClock, told, toldClock, hasty>>
      BY DEF Listen
    <3>3. ears' \in [Manager -> {"unborn", "alive", "deleted"}]
      BY <1>1 DEF MediaFacadesTypeOK
    <3>4. CASE kind = "VideoChat"
      <4>1. listener = NULL \/ ears[listener] = "alive"
        BY <1>2, <3>4 DEF MediaFacadesInv, Orderly, Listened
      <4>2. ears' = [Without(ears, listener) EXCEPT ![manager] = "alive"] /\ app' = "listening"
        BY <3>4, <4>1 DEF Listen, Gone
      <4>3. /\ ears'[manager] = "alive"
            /\ \A o \in Manager \ {manager} : ears'[o] = IF o = listener THEN "deleted" ELSE ears[o]
        BY <2>1, <4>2 DEF Without
      <4>4. \A o \in Manager \ {manager} :
              ears'[o] = ears[o] \/ (o = listener /\ ears[o] = "alive" /\ ears'[o] = "deleted")
        BY <3>1, <4>1, <4>3
      <4> QED
        BY <3>2, <3>3, <4>2, <4>3, <4>4
    <3>5. CASE kind = "LinkMic"
      <4>1. ears' = [ears EXCEPT ![manager] = "alive"] /\ app' = "listening"
        BY <3>5 DEF Listen
      <4> QED
        BY <2>1, <3>1, <3>2, <3>3, <4>1
    <3> QED
      BY <2>1, <3>4, <3>5 DEF Kind
  <2>3. OneManagerEach' /\ OneLeaves' /\ Waiting' /\ Informed'
    BY <1>2, <2>2 DEF MediaFacadesInv, Orderly, OneManagerEach, OneLeaves, Waiting, Informed
  <2>4. OwnListenerEach'
    BY <1>2, <2>1, <2>2 DEF MediaFacadesInv, Orderly, OneManagerEach, OwnListenerEach
  <2>5. ASSUME NEW o \in Manager PROVE InTurn(o)' /\ Deadlines(o)'
    <3>1. Deadlines(o)' = Deadlines(o)
      BY <2>2 DEF Deadlines, Sleeping
    <3>2. InTurn(o) /\ Deadlines(o) /\ session[o] \notin {"callback", "freed", "cleared", "doomed"}
      BY <1>2, <2>1 DEF MediaFacadesInv, Orderly, InTurn, Leaving
    <3> QED
      BY <2>1, <2>2, <3>1, <3>2 DEF InTurn
  <2>6. InUse'
    BY <1>2, <2>1, <2>2
    DEF MediaFacadesInv, Orderly, InUse, Use, LinkMicLife, VideoChatLife, GoneSoon
  <2>7. Listened'
    BY <2>2 DEF Listened
  <2> QED
    BY <2>2, <2>3, <2>4, <2>5, <2>6, <2>7 DEF Orderly
<1> QED
  BY <1>1, <1>2 DEF MediaFacadesInv, Listen

LEMMA ConnectKeeps == ASSUME MediaFacadesInv, Connect PROVE MediaFacadesInv'
<1> USE MediaFacadesAssumption
<1>1. MediaFacadesTypeOK'
  BY DEF MediaFacadesInv, MediaFacadesTypeOK, Connect, App
<1>2. ASSUME ~ hasty PROVE Orderly'
  <2>1. /\ manager \in Manager /\ object[manager] = "alive" /\ connection[manager] = "none"
        /\ session[manager] = "on" /\ listener = manager /\ ears[manager] = "alive"
    BY <1>2, Present DEF Connect, Use
  <2>2. /\ app' = "idle" /\ callback'[manager] = manager /\ connection'[manager] = "open"
        /\ \A o \in Manager \ {manager} : connection'[o] = connection[o] /\ callback'[o] = callback[o]
        /\ UNCHANGED <<kind, manager, listener, object, ears, session, block, clock, quitBlock,
                       appClock, told, toldClock, hasty>>
    BY <2>1 DEF Connect, MediaFacadesInv, MediaFacadesTypeOK
  <2>3. OneManagerEach'
    BY <1>2, <2>1, <2>2 DEF MediaFacadesInv, Orderly, OneManagerEach
  <2>4. OwnListenerEach'
    BY <1>2, <2>1, <2>2 DEF MediaFacadesInv, Orderly, OneManagerEach, OwnListenerEach
  <2>5. ASSUME NEW o \in Manager PROVE InTurn(o)' /\ Deadlines(o)'
    BY <1>2, <2>1, <2>2 DEF MediaFacadesInv, Orderly, InTurn, Deadlines, Sleeping
  <2>6. InUse'
    BY <1>2, <2>1, <2>2
    DEF MediaFacadesInv, Orderly, InUse, Use, LinkMicLife, VideoChatLife, GoneSoon
  <2>7. OneLeaves' /\ Waiting' /\ Informed' /\ Listened'
    BY <1>2, <2>2 DEF Connect, MediaFacadesInv, Orderly, OneLeaves, Waiting, Informed, Listened
  <2> QED
    BY <2>2, <2>3, <2>4, <2>5, <2>6, <2>7 DEF Orderly
<1> QED
  BY <1>1, <1>2 DEF MediaFacadesInv, Connect

\* Only a hasty login fails.
LEMMA LoginFailsKeeps == ASSUME MediaFacadesInv, LoginFails PROVE MediaFacadesInv'
<1>1. MediaFacadesTypeOK'
  BY DEF MediaFacadesInv, MediaFacadesTypeOK, LoginFails, heap, App
<1>2. hasty
  <2> SUFFICES ASSUME ~ hasty PROVE FALSE
    OBVIOUS
  <2>1. app \in {"made", "listening"}
    BY DEF LoginFails
  <2>2. manager # NULL
    BY <2>1 DEF MediaFacadesInv, Orderly, InUse
  <2>3. object[manager] = "alive"
    BY <2>1, <2>2, Present
  <2> QED
    BY <2>2, <2>3 DEF LoginFails, Gone
<1> QED
  BY <1>1, <1>2, Hasty DEF LoginFails

\* What QUITSERVER does to a manager that is there.
LEMMA Quitting ==
  ASSUME MediaFacadesInv, ~ hasty, SendQuit, app \in {"idle", "relogin"},
         UNCHANGED <<heap, connection, block, told, toldClock>>,
         app' \in {"idle", "relogin", "struck"}
  PROVE  /\ OneManagerEach' /\ OwnListenerEach' /\ OneLeaves' /\ InUse' /\ Informed' /\ Listened'
         /\ \A m \in Manager : InTurn(m)' /\ Deadlines(m)'
         /\ manager \in Manager /\ session'[manager] # "on"
         /\ \A m \in Manager : \/ session'[m] = session[m] /\ clock'[m] = clock[m]
                               \/ m = manager /\ session'[m] = "quit" /\ clock'[m] = 0
<1> USE MediaFacadesAssumption
<1>1. /\ manager # NULL /\ manager \in Manager /\ Use(manager) /\ kind \in Kind
      /\ object[manager] \in {"alive", "deleted"} /\ connection[manager] # "none"
      /\ session[manager] = "on" => object[manager] = "alive"
      /\ \A m \in Manager : session[m] \notin Leaving
  <2>1. manager # NULL
    BY DEF SendQuit
  <2>2. connection[manager] # "none"
    BY <2>1, Present DEF Use
  <2> QED
    BY <2>1, <2>2, Present
<1>2. /\ session'[manager] # "on"
      /\ \A m \in Manager : \/ session'[m] = session[m] /\ clock'[m] = clock[m]
                            \/ /\ m = manager /\ session[m] = "on"
                               /\ session'[m] = "quit" /\ clock'[m] = 0
  BY <1>1 DEF MediaFacadesInv, MediaFacadesTypeOK, SendQuit
<1>3. UNCHANGED <<kind, manager, listener, object, ears, callback, connection, block, told, toldClock>>
  BY DEF heap
<1>4. OneManagerEach'
  <2> SUFFICES ASSUME NEW m \in Manager
               PROVE  /\ object[m] = "alive" => m = manager
                      /\ m = manager => \/ object[m] = "alive" \/ session'[m] = "freed"
                                        \/ block[m] = "freed"
                      /\ object[m] = "deleted" =>
                           session'[m] \notin {"on", "quit", "callback"} /\ connection[m] = "closed"
                           /\ block[m] \in {"freed", "done"}
    BY <1>3 DEF OneManagerEach
  <2> QED
    BY <1>1, <1>2 DEF MediaFacadesInv, Orderly, OneManagerEach
<1>5. OwnListenerEach'
  BY <1>3 DEF MediaFacadesInv, Orderly, OwnListenerEach
<1>6. OneLeaves' /\ Informed' /\ Listened'
  BY <1>1, <1>2, <1>3 DEF MediaFacadesInv, Orderly, OneLeaves, Informed, Listened, Leaving
<1>7. ASSUME NEW m \in Manager PROVE InTurn(m)' /\ Deadlines(m)'
  <2>1. InTurn(m) /\ Deadlines(m)
    BY DEF MediaFacadesInv, Orderly
  <2>2. CASE session'[m] = session[m] /\ clock'[m] = clock[m]
    BY <1>3, <2>1, <2>2 DEF InTurn, Deadlines, Sleeping
  <2>3. CASE m = manager /\ session[m] = "on" /\ session'[m] = "quit" /\ clock'[m] = 0
    <3>1. object[m] = "alive" /\ block[m] = "none"
      BY <1>1, <2>3 DEF Use, LinkMicLife, VideoChatLife, Kind
    <3> QED
      BY <1>3, <2>1, <2>3, <3>1 DEF InTurn, Deadlines, Sleeping, Ending, Leaving
  <2> QED
    BY <1>2, <2>2, <2>3
<1>8. InUse'
  <2> SUFFICES Use(manager)'
    BY DEF InUse
  <2>1. CASE session'[manager] = session[manager] /\ clock'[manager] = clock[manager]
    BY <1>1, <1>3, <2>1 DEF Use, LinkMicLife, VideoChatLife, GoneSoon
  <2>2. CASE session[manager] = "on" /\ session'[manager] = "quit"
    <3>1. object[manager] = "alive" /\ block[manager] = "none"
      BY <1>1, <2>2 DEF Use, LinkMicLife, VideoChatLife, Kind
    <3> QED
      BY <1>1, <1>3, <2>2, <3>1 DEF Use, LinkMicLife, VideoChatLife, GoneSoon, Kind
  <2> QED
    BY <1>1, <1>2, <2>1, <2>2
<1> QED
  BY <1>1, <1>2, <1>4, <1>5, <1>6, <1>7, <1>8

LEMMA QuitTyped ==
  ASSUME MediaFacadesInv, SendQuit PROVE session' \in [Manager -> Session] /\ clock' \in [Manager -> Nat]
BY DEF MediaFacadesInv, MediaFacadesTypeOK, SendQuit, Session

LEMMA LogoutKeeps == ASSUME MediaFacadesInv, Logout PROVE MediaFacadesInv'
<1>1. MediaFacadesTypeOK'
  BY QuitTyped DEF MediaFacadesInv, MediaFacadesTypeOK, Logout, Or, heap, App
<1>2. ASSUME ~ hasty PROVE Orderly'
  <2>1. /\ app = "idle" /\ app' \in {"idle", "struck"} /\ SendQuit /\ ~ quitBlock'
        /\ UNCHANGED <<heap, connection, block, told, toldClock>>
    BY <1>2 DEF Logout, Or, MediaFacadesInv, Orderly, Waiting
  <2>2. Waiting'
    BY <2>1 DEF Waiting
  <2> QED
    BY <1>2, <2>1, <2>2, Quitting DEF Orderly
<1> QED
  BY <1>1, <1>2 DEF MediaFacadesInv, Logout

LEMMA ReloginLinkMicKeeps == ASSUME MediaFacadesInv, ReloginLinkMic PROVE MediaFacadesInv'
<1>1. MediaFacadesTypeOK'
  BY DEF MediaFacadesInv, MediaFacadesTypeOK, ReloginLinkMic, heap, App
<1>2. ASSUME ~ hasty PROVE Orderly'
  <2>1. /\ kind = "LinkMic" /\ app = "idle" /\ manager # NULL /\ app' = "relogin" /\ appClock' = 0
        /\ quitBlock' = TRUE
        /\ UNCHANGED <<kind, manager, listener, object, ears, callback, connection, session, block,
                       clock, told, toldClock, hasty>>
    BY DEF ReloginLinkMic, heap
  <2>2. OneManagerEach' /\ OwnListenerEach' /\ OneLeaves' /\ Informed' /\ Listened'
    BY <1>2, <2>1
    DEF MediaFacadesInv, Orderly, OneManagerEach, OwnListenerEach, OneLeaves, Informed, Listened
  <2>3. ASSUME NEW m \in Manager PROVE InTurn(m)' /\ Deadlines(m)'
    BY <1>2, <2>1 DEF MediaFacadesInv, Orderly, InTurn, Deadlines, Sleeping
  <2>4. InUse'
    BY <1>2, <2>1
    DEF MediaFacadesInv, Orderly, InUse, Use, LinkMicLife, VideoChatLife, GoneSoon
  <2>5. Waiting'
    <3>1. Dispatch \in Nat /\ Answer \in Nat /\ clock \in [Manager -> Nat]
      BY MediaFacadesAssumption DEF MediaFacadesInv, MediaFacadesTypeOK
    <3>2. ASSUME NEW m \in Manager PROVE 0 <= Dispatch + clock[m] /\ 0 <= Dispatch + Answer + clock[m]
      BY <3>1
    <3>3. ASSUME NEW m \in Manager PROVE OnTheWayOut(m)'
      BY <2>1, <3>2 DEF OnTheWayOut
    <3> QED
      BY <2>1, <3>1, <3>3 DEF Waiting
  <2> QED
    BY <2>1, <2>2, <2>3, <2>4, <2>5 DEF Orderly
<1> QED
  BY <1>1, <1>2 DEF MediaFacadesInv, ReloginLinkMic

LEMMA RunQuitBlockKeeps == ASSUME MediaFacadesInv, RunQuitBlock PROVE MediaFacadesInv'
<1>1. MediaFacadesTypeOK'
  BY QuitTyped DEF MediaFacadesInv, MediaFacadesTypeOK, RunQuitBlock, Or, heap, App
<1>2. ASSUME ~ hasty PROVE Orderly'
  <2>1. /\ app = "relogin" /\ app' \in {"relogin", "struck"} /\ ~ quitBlock'
        /\ UNCHANGED <<heap, connection, block, appClock, told, toldClock, hasty>>
    BY <1>2 DEF RunQuitBlock, Or, Alive, MediaFacadesInv, Orderly, Waiting
  <2>2. appClock <= Dispatch /\ kind = "LinkMic"
    BY <1>2, <2>1 DEF RunQuitBlock, MediaFacadesInv, Orderly, Waiting
  <2>3. CASE manager # NULL
    <3>1. SendQuit
      BY <2>3 DEF RunQuitBlock
    <3>2. /\ OneManagerEach' /\ OwnListenerEach' /\ OneLeaves' /\ InUse' /\ Informed' /\ Listened'
          /\ \A m \in Manager : InTurn(m)' /\ Deadlines(m)'
          /\ session'[manager] # "on"
          /\ \A m \in Manager : \/ session'[m] = session[m] /\ clock'[m] = clock[m]
                                \/ m = manager /\ session'[m] = "quit" /\ clock'[m] = 0
      BY <1>2, <2>1, <3>1, Quitting
    <3>3. ASSUME app' = "relogin", NEW m \in Manager, m = manager' \/ session'[m] \in Leaving
          PROVE  OnTheWayOut(m)'
      <4>1. m = manager
        BY <1>2, <2>1, <2>3, <3>2, <3>3, Present DEF heap, Leaving
      <4>2. OnTheWayOut(m)
        BY <1>2, <2>1, <4>1 DEF MediaFacadesInv, Orderly, Waiting
      <4>3. Dispatch \in Nat /\ appClock \in Nat
        BY MediaFacadesAssumption DEF MediaFacadesInv, MediaFacadesTypeOK
      <4> QED
        BY <2>1, <2>2, <3>2, <4>1, <4>2, <4>3 DEF OnTheWayOut, Ending, Leaving
    <3>4. Waiting'
      BY <2>1, <2>2, <3>3 DEF Waiting, heap
    <3> QED
      BY <2>1, <3>2, <3>4 DEF Orderly
  <2>4. CASE manager = NULL
    <3>1. UNCHANGED <<kind, manager, listener, object, ears, callback, connection, session, block, clock>>
          /\ app' = "relogin"
      BY <2>1, <2>4 DEF RunQuitBlock, Or, Gone, heap
    <3>2. OneManagerEach' /\ OwnListenerEach' /\ OneLeaves' /\ Informed' /\ Listened'
      BY <1>2, <2>1, <3>1
      DEF MediaFacadesInv, Orderly, OneManagerEach, OwnListenerEach, OneLeaves, Informed, Listened
    <3>3. ASSUME NEW m \in Manager PROVE InTurn(m)' /\ Deadlines(m)'
      BY <1>2, <3>1 DEF MediaFacadesInv, Orderly, InTurn, Deadlines, Sleeping
    <3>4. InUse'
      BY <2>4, <3>1 DEF InUse
    <3>5. Waiting'
      <4> SUFFICES ASSUME NEW m \in Manager, session[m] \in Leaving PROVE OnTheWayOut(m)'
        BY <2>1, <2>2, <2>4, <3>1, MediaFacadesAssumption DEF Waiting
      <4>1. OnTheWayOut(m)
        BY <1>2, <2>1 DEF MediaFacadesInv, Orderly, Waiting
      <4> QED
        BY <2>1, <3>1, <4>1 DEF OnTheWayOut, Leaving
    <3> QED
      BY <3>1, <3>2, <3>3, <3>4, <3>5 DEF Orderly
  <2> QED
    BY <2>3, <2>4
<1> QED
  BY <1>1, <1>2 DEF MediaFacadesInv, RunQuitBlock

LEMMA ReloginVideoChatKeeps == ASSUME MediaFacadesInv, ReloginVideoChat PROVE MediaFacadesInv'
BY Hasty, QuitTyped DEF MediaFacadesInv, MediaFacadesTypeOK, ReloginVideoChat, heap, App

-----------------------------------------------------------------------------
(* The network thread: linkMicMgr.cpp.                                     *)

LEMMA EndsUnheardKeeps ==
  ASSUME MediaFacadesInv, NEW m \in Manager, EndsUnheard(m) PROVE MediaFacadesInv'
<1>1. MediaFacadesTypeOK'
  BY DEF MediaFacadesInv, MediaFacadesTypeOK, EndsUnheard, Ends, heap, Session
<1>2. hasty
  BY Answered DEF EndsUnheard
<1> QED
  BY <1>1, <1>2, Hasty DEF EndsUnheard, Ends

LEMMA LinkMicCallbackKeeps ==
  ASSUME MediaFacadesInv, NEW m \in Manager, LinkMicCallback(m) PROVE MediaFacadesInv'
<1> USE MediaFacadesAssumption
<1>1. MediaFacadesTypeOK'
  BY DEF MediaFacadesInv, MediaFacadesTypeOK, LinkMicCallback, Ends, Called, Or, heap, Session, Block, App
<1>2. ASSUME ~ hasty PROVE Orderly'
  <2>1. /\ m = manager /\ manager # NULL /\ object[m] = "alive" /\ LinkMicLife(m) /\ Deadlines(m)
        /\ callback[m] = m /\ listener = m /\ ears[m] = "alive"
        /\ app \notin {"made", "listening", "dead"} /\ session[m] \in {"on", "quit"}
        /\ connection[m] = "open" /\ kind = "LinkMic"
    BY <1>2, Answered DEF LinkMicCallback, Ends, MediaFacadesInv, Orderly
  <2>2. app' = app
    BY <2>1 DEF LinkMicCallback, Called, Or, Gone
  <2>3. /\ session'[m] = "callback" /\ block'[m] = "queued" /\ clock'[m] = 0
        /\ \A o \in Manager \ {m} :
             session'[o] = session[o] /\ block'[o] = block[o] /\ clock'[o] = clock[o]
        /\ UNCHANGED <<kind, manager, listener, object, ears, callback, connection, quitBlock,
                       appClock, told, toldClock, hasty>>
    BY <2>1 DEF MediaFacadesInv, MediaFacadesTypeOK, LinkMicCallback, Ends, heap
  <2>4. OneManagerEach' /\ OwnListenerEach'
    BY <1>2, <2>1, <2>3 DEF MediaFacadesInv, Orderly, OneManagerEach, OwnListenerEach
  <2>5. ASSUME NEW o \in Manager PROVE InTurn(o)' /\ Deadlines(o)'
    <3>1. InTurn(o) /\ Deadlines(o)
      BY <1>2 DEF MediaFacadesInv, Orderly
    <3>2. CASE o = m
      BY <2>1, <2>3, <3>1, <3>2 DEF InTurn, Deadlines, Sleeping, Ending, Leaving,
        MediaFacadesInv, MediaFacadesTypeOK
    <3>3. CASE o # m
      BY <2>3, <3>1, <3>3 DEF InTurn, Deadlines, Sleeping
    <3> QED
      BY <3>2, <3>3
  <2>6. InUse'
    BY <2>1, <2>2, <2>3 DEF InUse, Use, LinkMicLife
  <2>7. \A o \in Manager : session[o] \notin Leaving
    BY <1>2, <2>1, Present
  <2>8. Waiting'
    <3>1. ASSUME app = "relogin" PROVE OnTheWayOut(m)'
      <4>1. Dispatch \in Nat /\ Answer \in Nat /\ appClock \in Nat /\ clock[m] \in Nat
        BY DEF MediaFacadesInv, MediaFacadesTypeOK
      <4>2. \/ appClock <= Dispatch
            \/ appClock <= Dispatch + clock[m] /\ clock[m] <= Answer
        BY <1>2, <2>1, <3>1 DEF OnTheWayOut, Deadlines, MediaFacadesInv, Orderly, Waiting
      <4>3. appClock <= Dispatch + Answer + 0
        BY <4>1, <4>2
      <4> QED
        BY <2>3, <4>3 DEF OnTheWayOut
    <3> QED
      BY <1>2, <2>1, <2>2, <2>3, <2>7, <3>1 DEF MediaFacadesInv, Orderly, Waiting, Leaving
  <2>9. OneLeaves' /\ Informed' /\ Listened'
    BY <1>2, <2>1, <2>3, <2>7 DEF MediaFacadesInv, Orderly, OneLeaves, Informed, Listened, Leaving
  <2> QED
    BY <2>1, <2>2, <2>4, <2>5, <2>6, <2>8, <2>9 DEF Orderly
<1> QED
  BY <1>1, <1>2 DEF MediaFacadesInv, LinkMicCallback, Ends

LEMMA LinkMicBlockKeeps ==
  ASSUME MediaFacadesInv, NEW m \in Manager, LinkMicBlock(m) PROVE MediaFacadesInv'
<1> USE MediaFacadesAssumption
<1>1. MediaFacadesTypeOK'
  BY DEF MediaFacadesInv, MediaFacadesTypeOK, LinkMicBlock, heap, Block, App
<1>2. ASSUME ~ hasty PROVE Orderly'
  <2>1. m = manager /\ manager # NULL
    BY <1>2 DEF LinkMicBlock, MediaFacadesInv, Orderly, InTurn
  <2>2. object[m] = "alive"
    BY <1>2, <2>1, Present DEF LinkMicBlock
  <2>3. LinkMicLife(m) /\ session[m] = "callback" /\ connection[m] = "open" /\ kind = "LinkMic"
        /\ app \notin {"made", "listening"}
    <3>1. Use(m) /\ LinkMicLife(m)
      BY <1>2, <2>1, <2>2, Present, Living DEF LinkMicBlock
    <3> QED
      BY <3>1 DEF LinkMicBlock, LinkMicLife, Use, MediaFacadesInv, MediaFacadesTypeOK
  <2>4. /\ block'[m] = "done" /\ connection'[m] = "closed" /\ app' = app
        /\ \A o \in Manager \ {m} : block'[o] = block[o] /\ connection'[o] = connection[o]
        /\ UNCHANGED <<kind, manager, listener, object, ears, callback, session, clock, quitBlock,
                       appClock, told, toldClock, hasty>>
    BY <2>1, <2>2 DEF MediaFacadesInv, MediaFacadesTypeOK, LinkMicBlock, Gone, heap
  <2>5. OneManagerEach' /\ OwnListenerEach'
    BY <1>2, <2>1, <2>2, <2>4 DEF MediaFacadesInv, Orderly, OneManagerEach, OwnListenerEach
  <2>6. ASSUME NEW o \in Manager PROVE InTurn(o)' /\ Deadlines(o)'
    <3>1. InTurn(o) /\ Deadlines(o)
      BY <1>2 DEF MediaFacadesInv, Orderly
    <3> QED
      BY <2>1, <2>2, <2>4, <3>1 DEF InTurn, Deadlines, Sleeping
  <2>7. InUse'
    BY <2>1, <2>2, <2>3, <2>4 DEF InUse, Use, LinkMicLife
  <2>8. OneLeaves' /\ Informed' /\ Listened'
    BY <1>2, <2>4 DEF MediaFacadesInv, Orderly, OneLeaves, Informed, Listened
  <2>9. Waiting'
    BY <1>2, <2>4 DEF MediaFacadesInv, Orderly, Waiting, OnTheWayOut
  <2> QED
    BY <1>2, <2>4, <2>5, <2>6, <2>7, <2>8, <2>9 DEF MediaFacadesInv, Orderly
<1> QED
  BY <1>1, <1>2 DEF MediaFacadesInv, LinkMicBlock

\* A line of the callback of m, once the manager is gone.
LEMMA Passed ==
  ASSUME MediaFacadesInv, ~ hasty, NEW m \in Manager, NEW from \in Leaving,
         NEW to \in Leaving \cup {"over"}, Passes(m, from, to),
         UNCHANGED <<manager, object>>, app' = app,
         \A o \in Manager : ears'[o] = ears[o] \/ (o = m /\ ears'[o] # "unborn"),
         to = "over" \/ (told' = told /\ toldClock' = toldClock),
         to \in {"cleared", "doomed"} => listener' = m /\ ears'[m] = "alive"
  PROVE  Orderly'
<1> USE MediaFacadesAssumption
<1>1. /\ session[m] = from /\ session'[m] = to
      /\ \A o \in Manager \ {m} : session'[o] = session[o]
      /\ UNCHANGED <<kind, callback, connection, block, clock, quitBlock, appClock, hasty>>
  BY DEF Passes, MediaFacadesInv, MediaFacadesTypeOK
<1>2. /\ manager = NULL /\ kind = "LinkMic" /\ object[m] = "deleted" /\ ~ told
      /\ app \notin {"made", "listening"}
      /\ \A o \in Manager : object[o] # "alive" /\ session[o] \notin {"quit", "callback", "freed"}
      /\ \A o \in Manager : session[o] \in Leaving => o = m
  BY <1>1, AloneLeaving
<1>3. OneManagerEach' /\ OwnListenerEach'
  BY <1>1, <1>2 DEF MediaFacadesInv, Orderly, OneManagerEach, OwnListenerEach, Leaving
<1>4. ASSUME NEW o \in Manager PROVE InTurn(o)' /\ Deadlines(o)'
  <2>1. InTurn(o) /\ Deadlines(o)
    BY DEF MediaFacadesInv, Orderly
  <2>2. CASE o = m
    BY <1>1, <1>2, <2>1, <2>2 DEF InTurn, Deadlines, Sleeping, Ending, Leaving
  <2>3. CASE o # m
    BY <1>1, <1>2, <2>1, <2>3 DEF InTurn, Deadlines, Sleeping, Leaving
  <2> QED
    BY <2>2, <2>3
<1>5. InUse'
  BY <1>2 DEF InUse
<1>6. OneLeaves'
  BY <1>1, <1>2 DEF OneLeaves
<1>7. Informed'
  BY <1>1, <1>2 DEF Informed, Leaving
<1>8. Waiting'
  <2>1. \A o \in Manager : session'[o] \in Leaving => o = m /\ to \in Leaving
    BY <1>1, <1>2
  <2>2. app = "relogin" => OnTheWayOut(m)
    BY <1>1 DEF MediaFacadesInv, Orderly, Waiting
  <2>3. app = "relogin" /\ to \in Leaving => OnTheWayOut(m)'
    BY <1>1, <2>2 DEF OnTheWayOut, Ending, Leaving
  <2> QED
    BY <1>1, <1>2, <2>1, <2>3 DEF MediaFacadesInv, Orderly, Waiting
<1>9. Listened'
  BY <1>1, <1>2 DEF Listened
<1> QED
  BY <1>3, <1>4, <1>5, <1>6, <1>7, <1>8, <1>9 DEF MediaFacadesInv, Orderly

LEMMA PassTyped ==
  ASSUME MediaFacadesInv, NEW m \in Manager, NEW from \in Session, NEW to \in Session,
         Passes(m, from, to), manager' \in Manager \cup {NULL}, listener' \in Manager \cup {NULL},
         object' \in [Manager -> {"unborn", "alive", "deleted"}],
         ears' \in [Manager -> {"unborn", "alive", "deleted"}],
         app' \in App, told' \in BOOLEAN, toldClock' \in Nat
  PROVE  MediaFacadesTypeOK' /\ hasty' = hasty
BY DEF MediaFacadesInv, MediaFacadesTypeOK, Passes

\* The block that disconnects has had half a second: it has run.
LEMMA DeleteManagerKeeps ==
  ASSUME MediaFacadesInv, NEW m \in Manager, DeleteManager(m) PROVE MediaFacadesInv'
<1> USE MediaFacadesAssumption
<1>1. MediaFacadesTypeOK' /\ hasty' = hasty
  BY PassTyped DEF DeleteManager, MediaFacadesInv, MediaFacadesTypeOK, Without, Or, Session, App
<1>2. ASSUME ~ hasty PROVE Orderly'
  <2>1. m = manager /\ manager # NULL /\ session[m] = "callback" /\ listener = m /\ ears[m] = "alive"
    BY <1>2 DEF DeleteManager, Passes, MediaFacadesInv, Orderly, InTurn
  <2>2. object[m] = "alive"
    BY <1>2, <2>1, Present
  <2>3. LinkMicLife(m) /\ kind = "LinkMic"
    BY <1>2, <2>1, <2>2, Living DEF VideoChatLife, Kind
  <2>4. block[m] = "done" /\ connection[m] = "closed"
    <3>1. Dispatch < clock[m]
      BY <2>3 DEF DeleteManager, Kind, MediaFacadesInv, MediaFacadesTypeOK
    <3>2. ~ (clock[m] <= Dispatch)
      BY <3>1 DEF MediaFacadesInv, MediaFacadesTypeOK
    <3> QED
      BY <1>2, <2>1, <2>3, <3>2 DEF LinkMicLife, Deadlines, MediaFacadesInv, Orderly
  <2>5. app \notin {"made", "listening"}
    BY <1>2, <2>1, <2>4, Present DEF Use
  <2>6. /\ session'[m] = "freed" /\ \A o \in Manager \ {m} : session'[o] = session[o]
        /\ object'[m] = "deleted" /\ \A o \in Manager \ {m} : object'[o] = object[o]
        /\ app' = app
        /\ UNCHANGED <<kind, manager, listener, ears, callback, connection, block, clock, quitBlock,
                       appClock, told, toldClock, hasty>>
    BY <2>1, <2>2 DEF DeleteManager, Passes, Without, Or, Gone, MediaFacadesInv, MediaFacadesTypeOK
  <2>7. OneManagerEach' /\ OwnListenerEach'
    BY <1>2, <2>1, <2>4, <2>6 DEF MediaFacadesInv, Orderly, OneManagerEach, OwnListenerEach
  <2>8. ASSUME NEW o \in Manager PROVE InTurn(o)' /\ Deadlines(o)'
    <3>1. InTurn(o) /\ Deadlines(o)
      BY <1>2 DEF MediaFacadesInv, Orderly
    <3>2. CASE o = m
      BY <2>1, <2>3, <2>4, <2>6, <3>1, <3>2 DEF InTurn, Deadlines, Sleeping, Ending, Leaving
    <3>3. CASE o # m
      BY <2>6, <3>1, <3>3 DEF InTurn, Deadlines, Sleeping
    <3> QED
      BY <3>2, <3>3
  <2>9. InUse'
    BY <2>1, <2>3, <2>4, <2>5, <2>6 DEF InUse, Use
  <2>10. Waiting'
    <3>1. ASSUME NEW o \in Manager, app = "relogin", o = manager \/ session'[o] \in Leaving
          PROVE  OnTheWayOut(o)'
      <4>1. OnTheWayOut(o)
        BY <1>2, <2>6, <3>1 DEF MediaFacadesInv, Orderly, Waiting, Leaving
      <4> QED
        BY <2>1, <2>6, <4>1 DEF OnTheWayOut, Ending
    <3> QED
      BY <1>2, <2>6, <3>1 DEF MediaFacadesInv, Orderly, Waiting
  <2>11. OneLeaves' /\ Informed' /\ Listened'
    BY <1>2, <2>1, <2>3, <2>6 DEF MediaFacadesInv, Orderly, OneLeaves, Informed, Listened, Leaving
  <2> QED
    BY <1>2, <2>6, <2>7, <2>8, <2>9, <2>10, <2>11 DEF MediaFacadesInv, Orderly
<1> QED
  BY <1>1, <1>2 DEF MediaFacadesInv

LEMMA ClearManagerKeeps ==
  ASSUME MediaFacadesInv, NEW m \in Manager, ClearManager(m) PROVE MediaFacadesInv'
<1> USE MediaFacadesAssumption
<1>1. MediaFacadesTypeOK' /\ hasty' = hasty
  BY PassTyped DEF ClearManager, MediaFacadesInv, MediaFacadesTypeOK, Session
<1>2. ASSUME ~ hasty PROVE Orderly'
  <2>1. /\ m = manager /\ manager # NULL /\ session[m] = "freed" /\ listener = m /\ ears[m] = "alive"
        /\ kind = "LinkMic"
    BY <1>2 DEF ClearManager, Passes, MediaFacadesInv, Orderly, InTurn
  <2>2. object[m] # "alive"
    BY <1>2, <2>1, Living DEF LinkMicLife
  <2>3. object[m] = "deleted" /\ app \notin {"made", "listening"} /\ block[m] = "done"
        /\ \A o \in Manager : session[o] \notin Leaving
    BY <1>2, <2>1, <2>2, Present
  <2>4. /\ session'[m] = "cleared" /\ \A o \in Manager \ {m} : session'[o] = session[o]
        /\ manager' = NULL /\ app' = app
        /\ UNCHANGED <<kind, listener, object, ears, callback, connection, block, clock, quitBlock,
                       appClock, told, toldClock, hasty>>
    BY DEF ClearManager, Passes, MediaFacadesInv, MediaFacadesTypeOK
  <2>5. OneManagerEach' /\ OwnListenerEach'
    BY <1>2, <2>1, <2>2, <2>4 DEF MediaFacadesInv, Orderly, OneManagerEach, OwnListenerEach
  <2>6. ASSUME NEW o \in Manager PROVE InTurn(o)' /\ Deadlines(o)'
    <3>1. InTurn(o) /\ Deadlines(o)
      BY <1>2 DEF MediaFacadesInv, Orderly
    <3>2. CASE o = m
      BY <2>1, <2>3, <2>4, <3>1, <3>2 DEF InTurn, Deadlines, Sleeping, Ending, Leaving
    <3>3. CASE o # m
      BY <2>1, <2>3, <2>4, <3>1, <3>3 DEF InTurn, Deadlines, Sleeping, Leaving
    <3> QED
      BY <3>2, <3>3
  <2>7. InUse'
    BY <2>3, <2>4 DEF InUse
  <2>8. Waiting'
    <3>1. ASSUME NEW o \in Manager, app = "relogin", session'[o] \in Leaving PROVE OnTheWayOut(o)'
      <4>1. o = m
        BY <2>3, <2>4, <3>1
      <4>2. OnTheWayOut(o)
        BY <1>2, <2>1, <3>1, <4>1 DEF MediaFacadesInv, Orderly, Waiting
      <4> QED
        BY <2>1, <2>4, <4>1, <4>2 DEF OnTheWayOut, Ending
    <3> QED
      BY <1>2, <2>4, <3>1 DEF MediaFacadesInv, Orderly, Waiting
  <2>9. OneLeaves' /\ Informed' /\ Listened'
    BY <1>2, <2>1, <2>3, <2>4 DEF MediaFacadesInv, Orderly, OneLeaves, Informed, Listened
  <2> QED
    BY <1>2, <2>4, <2>5, <2>6, <2>7, <2>8, <2>9 DEF MediaFacadesInv, Orderly
<1> QED
  BY <1>1, <1>2 DEF MediaFacadesInv

\* The listener in the global is still the one of m.
LEMMA TestListenerKeeps ==
  ASSUME MediaFacadesInv, NEW m \in Manager, TestListener(m) PROVE MediaFacadesInv'
<1>1. MediaFacadesTypeOK' /\ hasty' = hasty
  BY PassTyped DEF TestListener, MediaFacadesInv, MediaFacadesTypeOK, Session
<1>2. ASSUME ~ hasty PROVE Orderly'
  <2>1. session[m] = "cleared" /\ listener = m /\ ears[m] = "alive"
    BY <1>2 DEF TestListener, Passes, MediaFacadesInv, Orderly, InTurn
  <2>2. Passes(m, "cleared", "doomed") /\ UNCHANGED <<manager, listener, object, ears, app, told, toldClock>>
    BY <2>1, MediaFacadesAssumption DEF TestListener
  <2>3. "cleared" \in Leaving /\ "doomed" \in Leaving
    BY DEF Leaving
  <2> QED
    BY <1>2, <2>1, <2>2, <2>3, Passed
<1> QED
  BY <1>1, <1>2 DEF MediaFacadesInv

LEMMA DeleteListenerKeeps ==
  ASSUME MediaFacadesInv, NEW m \in Manager, DeleteListener(m) PROVE MediaFacadesInv'
<1>1. MediaFacadesTypeOK' /\ hasty' = hasty
  BY PassTyped DEF DeleteListener, MediaFacadesInv, MediaFacadesTypeOK, Session, Without, Or, App
<1>2. ASSUME ~ hasty PROVE Orderly'
  <2>1. listener = m /\ ears[m] = "alive"
    BY <1>2 DEF DeleteListener, Passes, MediaFacadesInv, Orderly, InTurn
  <2>2. /\ Passes(m, "doomed", "unheard") /\ app' = app
        /\ \A o \in Manager : ears'[o] = ears[o] \/ (o = m /\ ears'[o] # "unborn")
        /\ UNCHANGED <<manager, object, told, toldClock>>
    BY <2>1 DEF DeleteListener, Without, Or, Gone
  <2>3. "doomed" \in Leaving /\ "unheard" \in Leaving \cup {"over"}
    BY DEF Leaving
  <2> QED
    BY <1>2, <2>2, <2>3, Passed
<1> QED
  BY <1>1, <1>2 DEF MediaFacadesInv

LEMMA ClearListenerKeeps ==
  ASSUME MediaFacadesInv, NEW m \in Manager, ClearListener(m) PROVE MediaFacadesInv'
<1>1. MediaFacadesTypeOK' /\ hasty' = hasty
  BY PassTyped DEF ClearListener, MediaFacadesInv, MediaFacadesTypeOK, Session
<1>2. ASSUME ~ hasty PROVE Orderly'
  <2>1. "unheard" \in Leaving /\ "telling" \in Leaving \cup {"over"}
    BY DEF Leaving
  <2> QED
    BY <1>2, <2>1, Passed DEF ClearListener
<1> QED
  BY <1>1, <1>2 DEF MediaFacadesInv

LEMMA TellApplicationKeeps ==
  ASSUME MediaFacadesInv, NEW m \in Manager, TellApplication(m) PROVE MediaFacadesInv'
<1>1. MediaFacadesTypeOK' /\ hasty' = hasty
  BY PassTyped DEF TellApplication, Tells, MediaFacadesInv, MediaFacadesTypeOK, Session
<1>2. ASSUME ~ hasty PROVE Orderly'
  <2>1. "telling" \in Leaving
    BY DEF Leaving
  <2> QED
    BY <1>2, <2>1, Passed DEF TellApplication
<1> QED
  BY <1>1, <1>2 DEF MediaFacadesInv

LEMMA LinkMicCallbackEndsKeeps ==
  ASSUME MediaFacadesInv, NEW m \in Manager, LinkMicCallbackEnds(m) PROVE MediaFacadesInv'
BY DeleteManagerKeeps, ClearManagerKeeps, TestListenerKeeps, DeleteListenerKeeps,
   ClearListenerKeeps, TellApplicationKeeps DEF LinkMicCallbackEnds

-----------------------------------------------------------------------------
(* The network thread and the blocks: VideoChatMgr.c.                      *)

LEMMA VideoChatCallbackKeeps ==
  ASSUME MediaFacadesInv, NEW m \in Manager, VideoChatCallback(m) PROVE MediaFacadesInv'
<1> USE MediaFacadesAssumption
<1>1. MediaFacadesTypeOK'
  BY DEF MediaFacadesInv, MediaFacadesTypeOK, VideoChatCallback, Ends, Called, Tells, Or, heap,
         Session, Block, App
<1>2. ASSUME ~ hasty PROVE Orderly'
  <2>1. /\ m = manager /\ manager # NULL /\ object[m] = "alive" /\ VideoChatLife(m)
        /\ callback[m] = m /\ listener = m /\ ears[m] = "alive"
        /\ app \notin {"made", "listening", "dead"} /\ session[m] \in {"on", "quit"}
        /\ connection[m] = "open" /\ kind = "VideoChat" /\ kind # "LinkMic"
    BY <1>2, Answered DEF VideoChatCallback, Ends, MediaFacadesInv, Orderly
  <2>2. app' = app
    BY <2>1 DEF VideoChatCallback, Called, Or, Gone
  <2>3. /\ session'[m] = "over" /\ block'[m] = "queued" /\ clock'[m] = 0 /\ told' /\ toldClock' = 0
        /\ \A o \in Manager \ {m} :
             session'[o] = session[o] /\ block'[o] = block[o] /\ clock'[o] = clock[o]
        /\ UNCHANGED <<kind, manager, listener, object, ears, callback, connection, quitBlock,
                       appClock, hasty>>
    BY <2>1 DEF MediaFacadesInv, MediaFacadesTypeOK, VideoChatCallback, Ends, Tells, heap
  <2>4. OneManagerEach' /\ OwnListenerEach'
    BY <1>2, <2>1, <2>3 DEF MediaFacadesInv, Orderly, OneManagerEach, OwnListenerEach
  <2>5. ASSUME NEW o \in Manager PROVE InTurn(o)' /\ Deadlines(o)'
    <3>1. InTurn(o) /\ Deadlines(o)
      BY <1>2 DEF MediaFacadesInv, Orderly
    <3>2. CASE o = m
      BY <2>1, <2>3, <3>1, <3>2 DEF InTurn, Deadlines, Sleeping, Ending, Leaving
    <3>3. CASE o # m
      BY <2>3, <3>1, <3>3 DEF InTurn, Deadlines, Sleeping
    <3> QED
      BY <3>2, <3>3
  <2>6. InUse'
    BY <2>1, <2>2, <2>3 DEF InUse, Use, VideoChatLife, GoneSoon
  <2>7. OneLeaves' /\ Waiting' /\ Informed' /\ Listened'
    BY <1>2, <2>1, <2>2, <2>3
    DEF MediaFacadesInv, Orderly, OneLeaves, Waiting, Informed, Listened, Leaving
  <2> QED
    BY <2>1, <2>2, <2>4, <2>5, <2>6, <2>7 DEF Orderly
<1> QED
  BY <1>1, <1>2 DEF MediaFacadesInv, VideoChatCallback, Ends

LEMMA VideoChatBlockKeeps ==
  ASSUME MediaFacadesInv, NEW m \in Manager, VideoChatBlock(m) PROVE MediaFacadesInv'
<1> USE MediaFacadesAssumption
<1>1. MediaFacadesTypeOK'
  BY DEF MediaFacadesInv, MediaFacadesTypeOK, VideoChatBlock, Block, App
<1>2. ASSUME ~ hasty PROVE Orderly'
  <2>1. m = manager /\ manager # NULL /\ kind = "VideoChat" /\ kind # "LinkMic"
    BY <1>2 DEF VideoChatBlock, MediaFacadesInv, Orderly, InTurn
  <2>2. object[m] = "alive"
    BY <1>2, <2>1, Present DEF VideoChatBlock
  <2>3. /\ VideoChatLife(m) /\ session[m] = "over" /\ connection[m] = "open" /\ Use(m)
        /\ app \notin {"made", "listening"}
    <3>1. Use(m) /\ VideoChatLife(m)
      BY <1>2, <2>1, <2>2, Present, Living
    <3> QED
      BY <3>1 DEF VideoChatBlock, VideoChatLife, Use, MediaFacadesInv, MediaFacadesTypeOK
  <2>4. /\ block'[m] = "closing" /\ connection'[m] = "closed" /\ clock'[m] = 0 /\ app' = app
        /\ \A o \in Manager \ {m} :
             /\ block'[o] = block[o] /\ connection'[o] = connection[o]
             /\ clock'[o] = clock[o] /\ callback'[o] = callback[o]
        /\ UNCHANGED <<kind, manager, listener, object, ears, session, quitBlock,
                       appClock, told, toldClock, hasty>>
    BY <2>1, <2>2 DEF MediaFacadesInv, MediaFacadesTypeOK, VideoChatBlock, Gone
  <2>5. OneManagerEach' /\ OwnListenerEach'
    BY <1>2, <2>1, <2>2, <2>4 DEF MediaFacadesInv, Orderly, OneManagerEach, OwnListenerEach
  <2>6. ASSUME NEW o \in Manager PROVE InTurn(o)' /\ Deadlines(o)'
    <3>1. InTurn(o) /\ Deadlines(o)
      BY <1>2 DEF MediaFacadesInv, Orderly
    <3>2. CASE o = m
      <4>1. 0 <= CloseWait[kind] + Late
        BY DEF MediaFacadesInv, MediaFacadesTypeOK
      <4> QED
        BY <2>1, <2>2, <2>3, <2>4, <3>1, <3>2, <4>1 DEF InTurn, Deadlines, Sleeping, Ending, Leaving
    <3>3. CASE o # m
      BY <2>4, <3>1, <3>3 DEF InTurn, Deadlines, Sleeping
    <3> QED
      BY <3>2, <3>3
  <2>7. told => toldClock <= Dispatch + 0
    <3>1. told => toldClock <= clock[m] /\ clock[m] <= Dispatch
      BY <1>2, <2>1, <2>3 DEF VideoChatBlock, Use, GoneSoon, Deadlines, MediaFacadesInv, Orderly
    <3>2. clock[m] \in Nat /\ toldClock \in Nat /\ Dispatch \in Nat
      BY DEF MediaFacadesInv, MediaFacadesTypeOK
    <3> QED
      BY <3>1, <3>2
  <2>8. InUse'
    BY <2>1, <2>2, <2>3, <2>4, <2>7 DEF InUse, Use, VideoChatLife, GoneSoon
  <2>9. OneLeaves' /\ Waiting' /\ Informed' /\ Listened'
    BY <1>2, <2>1, <2>4 DEF MediaFacadesInv, Orderly, OneLeaves, Waiting, Informed, Listened
  <2> QED
    BY <1>2, <2>4, <2>5, <2>6, <2>8, <2>9 DEF MediaFacadesInv, Orderly
<1> QED
  BY <1>1, <1>2 DEF MediaFacadesInv, VideoChatBlock

LEMMA VideoChatDeletesKeeps ==
  ASSUME MediaFacadesInv, NEW m \in Manager, VideoChatDeletes(m) PROVE MediaFacadesInv'
<1> USE MediaFacadesAssumption
<1>1. MediaFacadesTypeOK'
  BY DEF MediaFacadesInv, MediaFacadesTypeOK, VideoChatDeletes, Without, Or, Block, App
<1>2. ASSUME ~ hasty PROVE Orderly'
  <2>1. m = manager /\ manager # NULL /\ kind = "VideoChat" /\ kind # "LinkMic"
    BY <1>2 DEF VideoChatDeletes, MediaFacadesInv, Orderly, InTurn
  <2>2. object[m] = "alive"
    BY <1>2, <2>1, Present DEF VideoChatDeletes
  <2>3. /\ VideoChatLife(m) /\ session[m] = "over" /\ connection[m] = "closed" /\ Use(m)
        /\ app \notin {"made", "listening"} /\ block[m] = "closing"
    <3>1. Use(m) /\ VideoChatLife(m)
      BY <1>2, <2>1, <2>2, Present, Living
    <3> QED
      BY <3>1 DEF VideoChatDeletes, VideoChatLife, Use
  <2>4. /\ block'[m] = "freed" /\ object'[m] = "deleted" /\ app' = app
        /\ \A o \in Manager \ {m} : block'[o] = block[o] /\ object'[o] = object[o]
        /\ UNCHANGED <<kind, manager, listener, ears, callback, connection, session, clock, quitBlock,
                       appClock, told, toldClock, hasty>>
    BY <2>1, <2>2 DEF MediaFacadesInv, MediaFacadesTypeOK, VideoChatDeletes, Without, Or, Gone
  <2>5. OneManagerEach' /\ OwnListenerEach'
    BY <1>2, <2>1, <2>3, <2>4 DEF MediaFacadesInv, Orderly, OneManagerEach, OwnListenerEach
  <2>6. ASSUME NEW o \in Manager PROVE InTurn(o)' /\ Deadlines(o)'
    <3>1. InTurn(o) /\ Deadlines(o)
      BY <1>2 DEF MediaFacadesInv, Orderly
    <3>2. CASE o = m
      BY <2>1, <2>3, <2>4, <3>1, <3>2 DEF InTurn, Deadlines, Sleeping, Ending, Leaving
    <3>3. CASE o # m
      BY <2>4, <3>1, <3>3 DEF InTurn, Deadlines, Sleeping
    <3> QED
      BY <3>2, <3>3
  <2>7. InUse'
    BY <2>1, <2>3, <2>4 DEF InUse, Use, GoneSoon
  <2>8. OneLeaves' /\ Waiting' /\ Informed' /\ Listened'
    BY <1>2, <2>1, <2>4 DEF MediaFacadesInv, Orderly, OneLeaves, Waiting, Informed, Listened
  <2> QED
    BY <1>2, <2>4, <2>5, <2>6, <2>7, <2>8 DEF MediaFacadesInv, Orderly
<1> QED
  BY <1>1, <1>2 DEF MediaFacadesInv, VideoChatDeletes

LEMMA VideoChatClearsKeeps ==
  ASSUME MediaFacadesInv, NEW m \in Manager, VideoChatClears(m) PROVE MediaFacadesInv'
<1> USE MediaFacadesAssumption
<1>1. MediaFacadesTypeOK'
  BY DEF MediaFacadesInv, MediaFacadesTypeOK, VideoChatClears, appVars, Block
<1>2. ASSUME ~ hasty PROVE Orderly'
  <2>1. m = manager /\ manager # NULL /\ kind = "VideoChat" /\ kind # "LinkMic"
    BY <1>2 DEF VideoChatClears, MediaFacadesInv, Orderly, InTurn
  <2>2. object[m] # "alive"
    BY <1>2, <2>1, Living DEF VideoChatClears, VideoChatLife
  <2>3. object[m] = "deleted" /\ app \notin {"made", "listening"} /\ session[m] = "over"
    BY <1>2, <2>1, <2>2, Present
  <2>4. /\ block'[m] = "done" /\ manager' = NULL
        /\ \A o \in Manager \ {m} : block'[o] = block[o]
        /\ UNCHANGED <<kind, listener, object, ears, callback, connection, session, clock, quitBlock,
                       app, appClock, told, toldClock, hasty>>
    BY <2>1 DEF MediaFacadesInv, MediaFacadesTypeOK, VideoChatClears, appVars
  <2>5. OneManagerEach' /\ OwnListenerEach'
    BY <1>2, <2>1, <2>2, <2>4 DEF MediaFacadesInv, Orderly, OneManagerEach, OwnListenerEach
  <2>6. ASSUME NEW o \in Manager PROVE InTurn(o)' /\ Deadlines(o)'
    <3>1. InTurn(o) /\ Deadlines(o)
      BY <1>2 DEF MediaFacadesInv, Orderly
    <3>2. CASE o = m
      BY <2>3, <2>4, <3>1, <3>2 DEF InTurn, Deadlines, Sleeping, Ending, Leaving
    <3>3. CASE o # m
      BY <2>1, <2>4, <3>1, <3>3 DEF InTurn, Deadlines, Sleeping
    <3> QED
      BY <3>2, <3>3
  <2>7. InUse'
    BY <2>3, <2>4 DEF InUse
  <2>8. OneLeaves' /\ Waiting' /\ Informed' /\ Listened'
    BY <1>2, <2>1, <2>4 DEF MediaFacadesInv, Orderly, OneLeaves, Waiting, Informed, Listened
  <2> QED
    BY <1>2, <2>4, <2>5, <2>6, <2>7, <2>8 DEF MediaFacadesInv, Orderly
<1> QED
  BY <1>1, <1>2 DEF MediaFacadesInv, VideoChatClears, appVars

-----------------------------------------------------------------------------
(* Time, and the theorems.                                                 *)

\* What has a deadline is timed, and nothing is overdue.
LEMMA TickKeeps == ASSUME MediaFacadesInv, Tick PROVE MediaFacadesInv'
<1>1. /\ clock' \in [Manager -> Nat] /\ appClock' \in Nat /\ toldClock' \in Nat
      /\ appClock' \in {appClock, appClock + 1} /\ toldClock' \in {toldClock, toldClock + 1}
      /\ \A m \in Manager : clock'[m] = IF Timed(m) THEN clock[m] + 1 ELSE clock[m]
      /\ UNCHANGED <<kind, manager, listener, object, ears, callback, connection, session, block,
                     quitBlock, app, told, hasty>>
  BY DEF MediaFacadesInv, MediaFacadesTypeOK, Tick, heap
<1>2. MediaFacadesTypeOK'
  BY <1>1 DEF MediaFacadesInv, MediaFacadesTypeOK
<1>3. ASSUME ~ hasty PROVE Orderly'
  <2>1. OneManagerEach' /\ OwnListenerEach' /\ OneLeaves' /\ Informed' /\ Listened'
    BY <1>1, <1>3
    DEF MediaFacadesInv, Orderly, OneManagerEach, OwnListenerEach, OneLeaves, Informed, Listened
  <2>2. quitBlock => appClock' <= Dispatch
    <3>1. quitBlock => appClock < Dispatch
      BY DEF Tick
    <3>2. appClock \in Nat /\ Dispatch \in Nat
      BY MediaFacadesAssumption DEF MediaFacadesInv, MediaFacadesTypeOK
    <3> QED
      BY <1>1, <3>1, <3>2
  <2>3. ASSUME NEW m \in Manager
        PROVE  /\ InTurn(m)' /\ Deadlines(m)'
               /\ OnTheWayOut(m) => OnTheWayOut(m)'
               /\ GoneSoon(m) => GoneSoon(m)'
    <3> DEFINE c == clock[m]
               c1 == clock'[m]
    <3>1. InTurn(m) /\ Deadlines(m) /\ InTime(m) /\ kind \in Kind
      BY <1>3 DEF Tick, MediaFacadesInv, MediaFacadesTypeOK, Orderly
    <3>2. /\ c \in Nat /\ appClock \in Nat /\ toldClock \in Nat
          /\ Dispatch \in Nat /\ Answer \in Nat /\ CloseWait[kind] + Late \in Nat
      BY <3>1, MediaFacadesAssumption DEF MediaFacadesInv, MediaFacadesTypeOK
    <3>3. /\ Timed(m) => c1 = c + 1
          /\ ~ Timed(m) => c1 = c
      BY <1>1
    <3>4. session[m] = "quit" => Answering(m)
      <4> SUFFICES ASSUME session[m] = "quit" PROVE object[m] = "alive" /\ connection[m] = "open"
        BY DEF Answering
      <4>1. m = manager /\ manager # NULL
        BY <3>1, MediaFacadesAssumption DEF InTurn
      <4>2. object[m] = "alive" /\ Use(m)
        BY <1>3, <4>1, Present
      <4>3. connection[m] # "closed" /\ connection[m] # "none"
        BY <3>1, <4>2 DEF Use, LinkMicLife, VideoChatLife, Kind
      <4> QED
        BY <4>2, <4>3 DEF MediaFacadesInv, MediaFacadesTypeOK
    <3>5. Deadlines(m)'
      <4>1. session[m] = "quit" => c < Answer /\ c1 = c + 1
        BY <3>1, <3>3, <3>4 DEF InTime, Timed
      <4>2. block[m] = "queued" => c < Dispatch /\ c1 = c + 1
        BY <3>1, <3>3 DEF InTime, Timed
      <4>3. Sleeping(m) => c < CloseWait[kind] + Late /\ c1 = c + 1
        BY <3>1, <3>3 DEF InTime, Timed
      <4>4. \A d \in Nat : c < d => c + 1 <= d
        BY <3>2
      <4>5. /\ session[m] = "quit" => c1 <= Answer
            /\ block[m] = "queued" => c1 <= Dispatch
            /\ Sleeping(m) => c1 <= CloseWait[kind] + Late
        BY <3>2, <4>1, <4>2, <4>3, <4>4
      <4> QED
        BY <1>1, <4>5 DEF Deadlines, Sleeping
    <3>6. ASSUME OnTheWayOut(m) PROVE OnTheWayOut(m)'
      <4>1. session[m] = "quit" => appClock <= Dispatch + c /\ c1 = c + 1
        BY <3>3, <3>4, <3>6 DEF OnTheWayOut, Timed
      <4>2. session[m] \in Ending => appClock <= Dispatch + Answer + c /\ c1 = c + 1
        BY <3>3, <3>6 DEF OnTheWayOut, Timed, Sleeping
      <4>3. /\ appClock <= Dispatch + c => \A t \in {appClock, appClock + 1} : t <= Dispatch + (c + 1)
            /\ appClock <= Dispatch + Answer + c =>
                 \A t \in {appClock, appClock + 1} : t <= Dispatch + Answer + (c + 1)
        BY <3>2
      <4> QED
        BY <1>1, <3>6, <4>1, <4>2, <4>3 DEF OnTheWayOut
    <3>7. ASSUME GoneSoon(m) PROVE GoneSoon(m)'
      <4>1. block[m] = "queued" => toldClock <= c /\ c1 = c + 1
        BY <3>3, <3>7 DEF GoneSoon, Timed
      <4>2. block[m] \in {"closing", "freed"} => toldClock <= Dispatch + c /\ c1 = c + 1
        BY <3>3, <3>7 DEF GoneSoon, Timed, Sleeping
      <4>3. /\ toldClock <= c => \A t \in {toldClock, toldClock + 1} : t <= c + 1
            /\ toldClock <= Dispatch + c => \A t \in {toldClock, toldClock + 1} : t <= Dispatch + (c + 1)
        BY <3>2
      <4> QED
        BY <1>1, <3>7, <4>1, <4>2, <4>3 DEF GoneSoon
    <3>8. InTurn(m)'
      BY <1>1, <3>1 DEF InTurn
    <3> QED
      BY <3>5, <3>6, <3>7, <3>8
  <2>4. InUse'
    <3>1. manager # NULL => Use(manager)'
      BY <1>1, <1>3, <2>3, Present DEF Use, LinkMicLife, VideoChatLife
    <3> QED
      BY <1>1, <1>3, <3>1 DEF MediaFacadesInv, Orderly, InUse
  <2>5. Waiting'
    BY <1>1, <1>3, <2>2, <2>3 DEF MediaFacadesInv, Orderly, Waiting
  <2> QED
    BY <1>1, <1>3, <2>1, <2>3, <2>4, <2>5 DEF MediaFacadesInv, Orderly
<1> QED
  BY <1>1, <1>2, <1>3 DEF MediaFacadesInv

LEMMA MediaFacadesNext == MediaFacadesInv /\ [Next]_vars => MediaFacadesInv'
<1> SUFFICES ASSUME MediaFacadesInv, [Next]_vars PROVE MediaFacadesInv'
  OBVIOUS
<1>1. CASE UNCHANGED vars
  <2>1. UNCHANGED <<kind, manager, listener, object, ears, callback, connection, session, block,
                    clock, quitBlock, app, appClock, told, toldClock, hasty>>
    BY <1>1 DEF vars, heap, appVars
  <2>2. MediaFacadesTypeOK'
    BY <2>1 DEF MediaFacadesInv, MediaFacadesTypeOK
  <2>3. /\ OneManagerEach' = OneManagerEach /\ OwnListenerEach' = OwnListenerEach
        /\ OneLeaves' = OneLeaves /\ Informed' = Informed /\ Listened' = Listened
    BY <2>1 DEF OneManagerEach, OwnListenerEach, OneLeaves, Informed, Listened
  <2>4. Waiting' = Waiting /\ InUse' = InUse
    BY <2>1 DEF Waiting, OnTheWayOut, InUse, Use, LinkMicLife, VideoChatLife, GoneSoon
  <2>5. \A m \in Manager : InTurn(m)' = InTurn(m) /\ Deadlines(m)' = Deadlines(m)
    BY <2>1 DEF InTurn, Deadlines, Sleeping
  <2> QED
    BY <2>1, <2>2, <2>3, <2>4, <2>5 DEF MediaFacadesInv, Orderly
<1>2. CASE Logout \/ ReloginLinkMic \/ RunQuitBlock \/ ReloginVideoChat \/ Tick
  BY <1>2, LogoutKeeps, ReloginLinkMicKeeps, RunQuitBlockKeeps, ReloginVideoChatKeeps, TickKeeps
<1>3. CASE Listen \/ Connect \/ LoginFails
  BY <1>3, ListenKeeps, ConnectKeeps, LoginFailsKeeps
<1>4. CASE \E m \in Manager : Login(m) \/ Wake(m) \/ EndsUnheard(m)
  BY <1>4, LoginKeeps, WakeKeeps, EndsUnheardKeeps
<1>5. CASE \E m \in Manager : LinkMicCallback(m) \/ LinkMicBlock(m) \/ LinkMicCallbackEnds(m)
  BY <1>5, LinkMicCallbackKeeps, LinkMicBlockKeeps, LinkMicCallbackEndsKeeps
<1>6. CASE \E m \in Manager :
             VideoChatCallback(m) \/ VideoChatBlock(m) \/ VideoChatDeletes(m) \/ VideoChatClears(m)
  BY <1>6, VideoChatCallbackKeeps, VideoChatBlockKeeps, VideoChatDeletesKeeps, VideoChatClearsKeeps
<1> QED
  BY <1>1, <1>2, <1>3, <1>4, <1>5, <1>6 DEF Next

\* The types, and, unless a login was hasty, all that Orderly says.
THEOREM MediaFacadesInvariant == Spec => []MediaFacadesInv
BY MediaFacadesInit, MediaFacadesNext, PTL DEF Spec

\* There is one manager, and it is deleted by the end of its own session (linkMicMgr.cpp:39-59,
\* 190-239; VideoChatMgr.c:127-139, 313-357).
THEOREM OneManagerForEachSession == Spec => []OneManagerEach
<1>1. MediaFacadesInv => OneManagerEach
  BY DEF MediaFacadesInv, Orderly, OneManagerEach
<1> QED
  BY <1>1, MediaFacadesInvariant, PTL

\* A connected manager keeps its own listener until it is deleted (linkMicMgr.cpp:56-58,
\* 227-229; VideoChatMgr.c:344-352).
THEOREM OwnListenerForEachSession == Spec => []OwnListenerEach
<1>1. MediaFacadesInv => OwnListenerEach
  BY DEF MediaFacadesInv, Orderly, OwnListenerEach
<1> QED
  BY <1>1, MediaFacadesInvariant, PTL

\* An application that waits for its Patience after it was told finds no manager, and no
\* callback or block that has anything left to do (linkMicMgr.cpp:39-67; VideoChatMgr.c:127-158).
THEOREM WaitingIsEnough == Spec => []PatienceIsEnough
<1>1. ASSUME MediaFacadesInv PROVE PatienceIsEnough
  <2> SUFFICES ASSUME told, toldClock >= Patience[kind], ~ hasty
               PROVE  manager = NULL /\ \A m \in Manager : ~ Timed(m)
    BY DEF PatienceIsEnough
  <2>1. ASSUME manager # NULL PROVE FALSE
    <3>1. /\ kind = "VideoChat" /\ kind # "LinkMic" /\ manager \in Manager /\ Use(manager)
          /\ GoneSoon(manager) /\ Deadlines(manager)
      BY <1>1, <2>1, Present DEF MediaFacadesInv, Orderly, Informed, Use, Kind
    <3>2. /\ clock[manager] \in Nat /\ toldClock \in Nat /\ Dispatch \in Nat /\ Late \in Nat
          /\ CloseWait["VideoChat"] \in Nat
          /\ Dispatch + CloseWait["VideoChat"] + Late < toldClock
      BY <1>1, <3>1, MediaFacadesAssumption DEF MediaFacadesInv, MediaFacadesTypeOK, Kind
    <3>3. block[manager] \in {"queued", "closing", "freed"}
      BY <1>1, <2>1, <3>1, Present DEF Use, VideoChatLife, GoneSoon
    <3>4. CASE block[manager] = "queued"
      <4>1. toldClock <= clock[manager] /\ clock[manager] <= Dispatch
        BY <3>1, <3>4 DEF GoneSoon, Deadlines
      <4> QED
        BY <3>2, <4>1
    <3>5. CASE block[manager] \in {"closing", "freed"}
      <4>1. toldClock <= Dispatch + clock[manager] /\ clock[manager] <= CloseWait["VideoChat"] + Late
        BY <3>1, <3>5 DEF GoneSoon, Deadlines, Sleeping
      <4> QED
        BY <3>2, <4>1
    <3> QED
      BY <3>3, <3>4, <3>5
  <2>2. ASSUME NEW m \in Manager PROVE ~ Timed(m)
    <3>1. InTurn(m) /\ m # manager
      BY <1>1, <2>1, MediaFacadesAssumption DEF MediaFacadesInv, Orderly
    <3>2. session[m] \notin Leaving
      BY <1>1, <3>1 DEF MediaFacadesInv, Orderly, Informed, InTurn
    <3> QED
      BY <3>1, <3>2 DEF InTurn, Timed, Answering, Sleeping, Ending
  <2> QED
    BY <2>1, <2>2
<1> QED
  BY <1>1, MediaFacadesInvariant, PTL
=============================================================================
