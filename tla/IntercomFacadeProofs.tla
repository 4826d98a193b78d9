------------------------ MODULE IntercomFacadeProofs ------------------------
(***************************************************************************)
(* The sleeps of the facade are long enough: from what FacadeAssumption    *)
(* says of the answer and of the block, there is one manager at a time,    *)
(* each with its own listener unless its login was hasty, and the facade   *)
(* implements Slot.                                                        *)
(***************************************************************************)
EXTENDS IntercomFacade, TLAPS

LEMMA FacadeInit == Init => FacadeInv
BY FacadeAssumption
DEF Init, FacadeInv, FacadeTypeOK, OneManager, OwnListener, Deaf, NoNullCall, Busy, Haste,
    Listeners, Life, Deadlines, Session, InCallback, Leaving, Ending, Past93, App, Creating

-----------------------------------------------------------------------------
(* What the invariant says of one manager.                                 *)

\* A manager with a listener, whose session has not been deleted with it yet, is
\* the one in use.
LEMMA InUse ==
  ASSUME FacadeInv, NEW m \in Manager, connection[m] # "none", callback[m] # NULL,
         session[m] \notin Past93
  PROVE  m = manager /\ manager # NULL /\ object[m] = "alive"
<1>1. object[m] = "alive"
  BY DEF FacadeInv, FacadeTypeOK, Life
<1> QED
  BY <1>1, FacadeAssumption DEF FacadeInv, OneManager, Deaf

\* So is one in its callback, up to line 94.
LEMMA InCallbackIsCurrent ==
  ASSUME FacadeInv, NEW m \in Manager, session[m] \in InCallback \cup {"freed"}
  PROVE  /\ m = manager /\ manager # NULL
         /\ connection[m] # "none" /\ callback[m] # NULL
         /\ object[m] = IF session[m] = "freed" THEN "deleted" ELSE "alive"
<1>1. Life(m) /\ m = manager /\ m # NULL
  BY FacadeAssumption DEF FacadeInv, Life
<1>2. connection[m] # "none" /\ callback[m] # NULL
  BY <1>1 DEF Life, InCallback
<1>3. object[m] \in {"unborn", "alive", "deleted"}
  BY DEF FacadeInv, FacadeTypeOK
<1> QED
  BY <1>1, <1>2, <1>3 DEF Life, InCallback, Past93

\* A manager in use without haste has no callback of another to fear.
LEMMA NobodyLeaves ==
  ASSUME FacadeInv, NEW m \in Manager \ hasty, object[m] = "alive", connection[m] # "none"
  PROVE  m = manager /\ \A o \in Manager : session[o] \notin Leaving
<1>1. m = manager
  BY DEF FacadeInv, OneManager
<1> QED
  BY <1>1, FacadeAssumption DEF FacadeInv, Haste

-----------------------------------------------------------------------------
(* The application's thread.                                               *)

\* When line 299 finds no manager, or the sleep is over, nobody is in a callback
\* before line 94, and what is left in the global will not be deleted any more.
Free ==
  \A m \in Manager : /\ session[m] \notin InCallback \cup {"freed"}
                     /\ m = manager => Deaf(m) /\ m \in hasty /\ session[m] = "over"

LEMMA Created ==
  ASSUME FacadeInv, NEW m \in Manager, Create(m), Free,
         app \in {"idle", "relogin"}, hasty' \in SUBSET Manager,
         hasty \subseteq hasty', hasty' \subseteq hasty \cup {m},
         m \in hasty' \/ \A o \in Manager : session[o] \notin Leaving
  PROVE  FacadeInv'
<1> USE FacadeAssumption
<1>1. FacadeTypeOK' /\ NoNullCall'
  BY DEF Create, FacadeInv, FacadeTypeOK, NoNullCall, App, Creating
<1>2. object[m] = "unborn" /\ connection[m] = "none" /\ callback[m] = NULL /\ session[m] = "on"
      /\ m # manager
  BY DEF Create, FacadeInv, FacadeTypeOK, Life, Free, Deaf
<1>3. OneManager' /\ OwnListener'
  BY <1>2 DEF Create, FacadeInv, FacadeTypeOK, OneManager, OwnListener, Deaf, Free
<1>4. Busy'
  BY <1>2 DEF Create, FacadeInv, FacadeTypeOK, Busy, Creating
<1>5. Haste'
  BY DEF Create, FacadeInv, FacadeTypeOK, Haste
<1>6. Listeners'
  BY DEF Create, FacadeInv, FacadeTypeOK, Listeners
<1>7. ASSUME NEW o \in Manager PROVE Life(o)'
  <2>1. CASE o = m
    BY <1>2, <2>1 DEF Create, FacadeInv, FacadeTypeOK, Life, Creating, InCallback, Leaving
  <2>2. CASE o # m
    BY <1>2, <2>2 DEF Create, FacadeInv, FacadeTypeOK, Life, Free, Deaf
  <2> QED
    BY <2>1, <2>2
<1>8. ASSUME NEW o \in Manager PROVE Deadlines(o)'
  BY DEF Create, FacadeInv, Deadlines
<1> QED
  BY <1>1, <1>3, <1>4, <1>5, <1>6, <1>7, <1>8 DEF FacadeInv

LEMMA LoginKeeps == ASSUME FacadeInv, NEW m \in Manager, Login(m) PROVE FacadeInv'
<1>1. Free
  BY FacadeAssumption DEF Login, Free, FacadeInv, Life
<1>2. hasty' \in SUBSET Manager /\ hasty \subseteq hasty' /\ hasty' \subseteq hasty \cup {m}
  BY DEF Login, FacadeInv, FacadeTypeOK
<1> QED
  BY <1>1, <1>2, Created DEF Login

\* The old manager is gone by the end of the sleep, with its callback, or nobody will
\* ever call it.
LEMMA GoneByThen ==
  ASSUME FacadeInv, NEW m \in Manager, Wake(m)
  PROVE  Free /\ \A o \in Manager : session[o] \notin Ending
<1>1. ASSUME NEW o \in Manager PROVE session[o] \notin {"quit"} \cup Ending
  <2>1. OnTheWayOut(o) /\ Deadlines(o) /\ clock[o] \in Nat /\ appClock \in Nat
    BY DEF Wake, FacadeInv, FacadeTypeOK, Busy
  <2>2. appClock >= ReloginWait
    BY DEF Wake
  <2> QED
    BY <2>1, <2>2, FacadeAssumption DEF OnTheWayOut, Deadlines
<1>2. ASSUME NEW o \in Manager, o = manager PROVE Deaf(o) /\ o \in hasty /\ session[o] = "over"
  <2>1. session[o] = "over"
    BY <1>1, <1>2 DEF Wake, FacadeInv, FacadeTypeOK, Busy, OnTheWayOut, Session, Ending, InCallback,
                      Leaving
  <2>2. object[o] = "alive"
    BY <1>2, <2>1 DEF FacadeInv, OneManager
  <2>3. connection[o] # "none"
    BY <2>1 DEF FacadeInv, Life
  <2>4. callback[o] = NULL
    BY <2>1, <2>2, <2>3 DEF FacadeInv, Life, Past93
  <2>5. o \in hasty
    BY <2>2, <2>3, <2>4, FacadeAssumption DEF FacadeInv, OwnListener
  <2> QED
    BY <2>1, <2>2, <2>3, <2>4, <2>5 DEF Deaf
<1> QED
  BY <1>1, <1>2 DEF Free, Ending

LEMMA WakeKeeps == ASSUME FacadeInv, NEW m \in Manager, Wake(m) PROVE FacadeInv'
<1>1. Free /\ \A o \in Manager : session[o] \notin Leaving
  BY GoneByThen DEF Ending
<1>2. hasty' \in SUBSET Manager /\ hasty \subseteq hasty' /\ hasty' \subseteq hasty \cup {m}
  BY DEF Wake, FacadeInv, FacadeTypeOK
<1> QED
  BY <1>1, <1>2, Created DEF Wake

\* A listener is deleted twice only after a hasty login.
LEMMA DropListenerKeeps == ASSUME FacadeInv, DropListener PROVE FacadeInv'
<1> USE FacadeAssumption
<1>1. app = "made" /\ manager # NULL /\ object[manager] = "alive" /\ connection[manager] = "none"
  BY DEF DropListener, FacadeInv, Busy, Creating
<1>2. /\ app' \in {"empty", "dropped", "torn"}
      /\ app' = "empty" => listener = NULL
      /\ app' = "torn" => listener # NULL /\ ears[listener] = "deleted"
      /\ ears' = [o \in Manager |-> IF o = listener THEN "deleted" ELSE ears[o]]
      /\ UNCHANGED <<manager, listener, object, callback, connection, session, block, clock,
                     appClock, hasty>>
  BY DEF DropListener, Torn, EarsWithout, FacadeInv, FacadeTypeOK
<1>3. FacadeTypeOK' /\ NoNullCall'
  BY <1>2 DEF FacadeInv, FacadeTypeOK, NoNullCall, App, Creating
<1>4. OneManager'
  BY <1>2 DEF FacadeInv, OneManager, Deaf
<1>5. OwnListener'
  <2> SUFFICES ASSUME NEW m \in Manager \ hasty, object[m] = "alive", connection[m] # "none"
               PROVE  FALSE
    BY <1>2 DEF OwnListener
  <2>1. m = manager
    BY NobodyLeaves
  <2> QED
    BY <1>1, <2>1
<1>6. Busy' /\ Haste'
  BY <1>1, <1>2 DEF FacadeInv, Busy, Haste, Creating
<1>7. app' = "torn" => hasty # {}
  <2> SUFFICES ASSUME listener # NULL, ears[listener] = "deleted", hasty = {} PROVE FALSE
    BY <1>2
  <2>1. PICK m \in Manager : session[m] = "unheard"
    BY <1>1 DEF FacadeInv, Listeners
  <2> QED
    BY <1>1, <2>1 DEF FacadeInv, Haste, Leaving
<1>8. Listeners'
  <2>1. \A m \in Manager : ears'[m] = "alive" /\ m \notin hasty => listener = m
    BY <1>2 DEF FacadeInv, FacadeTypeOK, Listeners
  <2>2. listener = NULL \/ ears'[listener] = "deleted"
    BY <1>2 DEF FacadeInv, FacadeTypeOK
  <2>3. listener = NULL \/ hasty # {} \/ app' = "dropped"
    BY <1>2, <1>7
  <2> QED
    BY <1>2, <1>7, <2>1, <2>2, <2>3 DEF FacadeInv, Listeners
<1>9. ASSUME NEW o \in Manager PROVE Life(o)' /\ Deadlines(o)'
  <2>1. ears[o] = "unborn" => ears'[o] = "unborn"
    BY <1>2 DEF FacadeInv, FacadeTypeOK, Listeners
  <2> QED
    BY <1>1, <1>2, <2>1 DEF FacadeInv, FacadeTypeOK, Life, Deadlines, Creating
<1> QED
  BY <1>3, <1>4, <1>5, <1>6, <1>8, <1>9 DEF FacadeInv

LEMMA ForgetListenerKeeps == ASSUME FacadeInv, ForgetListener PROVE FacadeInv'
<1> USE FacadeAssumption
<1>1. manager # NULL /\ object[manager] = "alive" /\ connection[manager] = "none"
  BY DEF ForgetListener, FacadeInv, Busy, Creating
<1>2. app = "dropped" /\ app' = "empty" /\ listener' = NULL
      /\ UNCHANGED <<manager, object, ears, callback, connection, session, block, clock,
                     appClock, hasty>>
  BY DEF ForgetListener
<1>3. FacadeTypeOK' /\ NoNullCall'
  BY <1>2 DEF FacadeInv, FacadeTypeOK, NoNullCall, App, Creating
<1>4. OneManager'
  BY <1>2 DEF FacadeInv, OneManager, Deaf
<1>5. OwnListener'
  <2> SUFFICES ASSUME NEW m \in Manager \ hasty, object[m] = "alive", connection[m] # "none"
               PROVE  FALSE
    BY <1>2 DEF OwnListener
  <2>1. m = manager
    BY NobodyLeaves
  <2> QED
    BY <1>1, <2>1
<1>6. Busy' /\ Haste'
  BY <1>1, <1>2 DEF FacadeInv, Busy, Haste, Creating
<1>7. Listeners'
  BY <1>2 DEF FacadeInv, FacadeTypeOK, Listeners
<1>8. ASSUME NEW o \in Manager PROVE Life(o)' /\ Deadlines(o)'
  BY <1>1, <1>2 DEF FacadeInv, FacadeTypeOK, Life, Deadlines, Creating
<1> QED
  BY <1>3, <1>4, <1>5, <1>6, <1>7, <1>8 DEF FacadeInv

LEMMA NewListenerKeeps == ASSUME FacadeInv, NewListener PROVE FacadeInv'
<1> USE FacadeAssumption
<1>1. manager \in Manager /\ object[manager] = "alive" /\ connection[manager] = "none"
  BY DEF NewListener, FacadeInv, FacadeTypeOK, Busy, Creating
<1>2. app = "empty" /\ app' = "listening" /\ listener' = manager
      /\ ears' = [ears EXCEPT ![manager] = "alive"]
      /\ UNCHANGED <<manager, object, callback, connection, session, block, clock, appClock, hasty>>
  BY DEF NewListener
<1>3. FacadeTypeOK' /\ NoNullCall'
  BY <1>1, <1>2 DEF FacadeInv, FacadeTypeOK, NoNullCall, App, Creating
<1>4. OneManager'
  BY <1>2 DEF FacadeInv, OneManager, Deaf
<1>5. OwnListener'
  <2> SUFFICES ASSUME NEW m \in Manager \ hasty, object[m] = "alive", connection[m] # "none"
               PROVE  FALSE
    BY <1>2 DEF OwnListener
  <2>1. m = manager
    BY NobodyLeaves
  <2> QED
    BY <1>1, <2>1
<1>6. Busy' /\ Haste'
  BY <1>1, <1>2 DEF FacadeInv, Busy, Haste, Creating
<1>7. listener = NULL
  BY <1>2 DEF FacadeInv, Listeners
<1>8. Listeners'
  BY <1>1, <1>2, <1>7 DEF FacadeInv, FacadeTypeOK, Listeners, Haste, Leaving
<1>9. ASSUME NEW o \in Manager PROVE Life(o)' /\ Deadlines(o)'
  BY <1>1, <1>2 DEF FacadeInv, FacadeTypeOK, Life, Deadlines, Creating
<1> QED
  BY <1>3, <1>4, <1>5, <1>6, <1>8, <1>9 DEF FacadeInv

\* A hasty manager may get no listener here.
LEMMA ConnectKeeps == ASSUME FacadeInv, Connect PROVE FacadeInv'
<1> USE FacadeAssumption
<1>1. /\ manager \in Manager /\ object[manager] = "alive" /\ connection[manager] = "none"
      /\ session[manager] = "on" /\ block[manager] = "none"
  BY DEF Connect, FacadeInv, FacadeTypeOK, Busy, Creating, Life
<1>2. app = "listening" /\ app' = "idle"
      /\ callback' = [callback EXCEPT ![manager] = listener]
      /\ connection' = [connection EXCEPT ![manager] = "open"]
      /\ UNCHANGED <<manager, listener, object, ears, session, block, clock, appClock, hasty>>
  BY DEF Connect
<1>3. FacadeTypeOK' /\ NoNullCall'
  BY <1>1, <1>2 DEF FacadeInv, FacadeTypeOK, NoNullCall, App
<1>4. OneManager'
  BY <1>1, <1>2 DEF FacadeInv, FacadeTypeOK, OneManager, Deaf
<1>5. manager \notin hasty => listener = manager /\ ears[manager] = "alive"
  BY <1>2 DEF FacadeInv, Listeners
<1>6. OwnListener'
  BY <1>1, <1>2, <1>5 DEF FacadeInv, FacadeTypeOK, OneManager, Deaf, OwnListener
<1>7. Busy' /\ Haste' /\ Listeners'
  BY <1>2 DEF FacadeInv, Busy, Haste, Creating, Listeners
<1>8. listener \in {manager, NULL}
  BY <1>2 DEF FacadeInv, Listeners
<1>9. ASSUME NEW o \in Manager PROVE Life(o)' /\ Deadlines(o)'
  <2>1. CASE o = manager
    BY <1>1, <1>2, <1>8, <2>1
    DEF FacadeInv, FacadeTypeOK, Life, Deadlines, InCallback, Leaving, Past93
  <2>2. CASE o # manager
    BY <1>1, <1>2, <2>2 DEF FacadeInv, FacadeTypeOK, Life, Deadlines, Creating
  <2> QED
    BY <2>1, <2>2
<1> QED
  BY <1>3, <1>4, <1>6, <1>7, <1>9 DEF FacadeInv

\* What QUITSERVER does to the manager in use.
LEMMA Quitting ==
  ASSUME FacadeInv, SendQuit, app = "idle", app' \in {"idle", "relogin"},
         UNCHANGED <<heap, connection, block, hasty>>
  PROVE  /\ OneManager' /\ OwnListener' /\ NoNullCall' /\ Haste' /\ Listeners'
         /\ \A m \in Manager : Life(m)' /\ Deadlines(m)'
         /\ session' \in [Manager -> Session] /\ clock' \in [Manager -> Nat]
         /\ session'[manager] # "on"
         /\ manager \in Manager /\ connection[manager] # "none"
<1> USE FacadeAssumption
<1>1. manager \in Manager /\ object[manager] = "alive"
  BY DEF FacadeInv, FacadeTypeOK, SendQuit
<1>2. connection[manager] # "none"
  BY <1>1 DEF FacadeInv, Life, Creating
<1>3. /\ session' \in [Manager -> Session] /\ clock' \in [Manager -> Nat]
      /\ session'[manager] # "on"
      /\ \A m \in Manager : \/ session'[m] = session[m] /\ clock'[m] = clock[m]
                            \/ m = manager /\ session[m] = "on" /\ session'[m] = "quit" /\ clock'[m] = 0
  BY <1>1 DEF FacadeInv, FacadeTypeOK, SendQuit, Session
<1>4. OneManager' /\ OwnListener' /\ NoNullCall'
  BY <1>1, <1>3 DEF FacadeInv, OneManager, OwnListener, Deaf, NoNullCall, heap
<1>5. Haste' /\ Listeners'
  BY <1>3 DEF FacadeInv, Haste, Listeners, heap, Leaving
<1>6. ASSUME NEW m \in Manager PROVE Life(m)' /\ Deadlines(m)'
  <2>1. CASE session'[m] = session[m] /\ clock'[m] = clock[m]
    BY <2>1 DEF FacadeInv, Life, Deadlines, heap, Creating
  <2>2. CASE m = manager /\ session[m] = "on" /\ session'[m] = "quit" /\ clock'[m] = 0
    BY <1>1, <1>2, <2>2
    DEF FacadeInv, FacadeTypeOK, Life, Deadlines, heap, InCallback, Leaving, Ending, Past93
  <2> QED
    BY <1>3, <2>1, <2>2
<1> QED
  BY <1>1, <1>2, <1>3, <1>4, <1>5, <1>6

LEMMA LogoutKeeps == ASSUME FacadeInv, Logout PROVE FacadeInv'
<1>1. app = "idle" /\ app' = "idle" /\ SendQuit
      /\ UNCHANGED <<heap, connection, block, appClock, hasty>>
  BY DEF Logout
<1>2. FacadeTypeOK'
  BY <1>1, Quitting DEF FacadeInv, FacadeTypeOK, heap
<1>3. Busy'
  BY <1>1 DEF Busy, Creating
<1> QED
  BY <1>1, <1>2, <1>3, Quitting DEF FacadeInv

LEMMA ReloginKeeps == ASSUME FacadeInv, Relogin PROVE FacadeInv'
<1>1. app = "idle" /\ app' = "relogin" /\ appClock' = 0 /\ SendQuit
      /\ UNCHANGED <<heap, connection, block, hasty>>
  BY DEF Relogin
<1>2. FacadeTypeOK'
  BY <1>1, Quitting DEF FacadeInv, FacadeTypeOK, heap, App
<1>3. ASSUME NEW m \in Manager PROVE OnTheWayOut(m)'
  <2>1. clock'[m] \in Nat
    BY <1>2 DEF FacadeTypeOK
  <2>2. m = manager' => session'[m] # "on"
    BY <1>1, Quitting DEF heap
  <2> QED
    BY <1>1, <2>1, <2>2, FacadeAssumption DEF OnTheWayOut
<1>4. Busy'
  BY <1>1, <1>3 DEF Busy, Creating
<1> QED
  BY <1>1, <1>2, <1>4, Quitting DEF FacadeInv

\* The steps of the application's thread that touch neither the managers nor their
\* sessions.
LEMMA AppMoves ==
  ASSUME FacadeInv, UNCHANGED <<heap, connection, session, block, clock, hasty>>,
         app \in App \ (Creating \cup {"torn"}), app' \in App \ (Creating \cup {"torn", "null"}),
         appClock' \in Nat
  PROVE  /\ FacadeTypeOK' /\ OneManager' /\ OwnListener' /\ NoNullCall' /\ Haste' /\ Listeners'
         /\ \A m \in Manager : Life(m)' /\ Deadlines(m)'
<1>1. FacadeTypeOK' /\ NoNullCall'
  BY DEF FacadeInv, FacadeTypeOK, NoNullCall, heap
<1>2. OneManager' /\ OwnListener' /\ Haste'
  BY DEF FacadeInv, OneManager, OwnListener, Deaf, Haste, heap
<1>3. Listeners'
  BY DEF FacadeInv, Listeners, heap, Creating
<1>4. ASSUME NEW m \in Manager PROVE Life(m)' /\ Deadlines(m)'
  BY DEF FacadeInv, Life, Deadlines, heap
<1> QED
  BY <1>1, <1>2, <1>3, <1>4

LEMMA CallDeletedKeeps == ASSUME FacadeInv, CallDeleted PROVE FacadeInv'
<1>1. app = "idle" /\ app' \in {"idle", "relogin", "dead"} /\ appClock' = 0
      /\ UNCHANGED <<heap, connection, session, block, clock, hasty>>
  BY DEF CallDeleted
<1>2. /\ FacadeTypeOK' /\ OneManager' /\ OwnListener' /\ NoNullCall' /\ Haste' /\ Listeners'
      /\ \A m \in Manager : Life(m)' /\ Deadlines(m)'
  BY <1>1, AppMoves DEF App, Creating
<1>3. ASSUME NEW m \in Manager PROVE OnTheWayOut(m)'
  <2>1. clock'[m] \in Nat
    BY <1>2 DEF FacadeTypeOK
  <2>2. m = manager' => session'[m] # "on"
    BY <1>1 DEF CallDeleted, FacadeInv, OneManager, heap
  <2> QED
    BY <1>1, <2>1, <2>2, FacadeAssumption DEF OnTheWayOut
<1>4. Busy'
  BY <1>1, <1>3 DEF Busy, Creating
<1> QED
  BY <1>2, <1>4 DEF FacadeInv

LEMMA StuckKeeps == ASSUME FacadeInv, NEW state \in App, Stuck(state) PROVE FacadeInv'
<1>1. app = "idle" /\ app' \in {"stuck", "stuck_relogin"} /\ session[manager] = "locked"
      /\ UNCHANGED <<heap, connection, session, block, clock, appClock, hasty>>
  BY DEF Stuck
<1>2. /\ FacadeTypeOK' /\ OneManager' /\ OwnListener' /\ NoNullCall' /\ Haste' /\ Listeners'
      /\ \A m \in Manager : Life(m)' /\ Deadlines(m)'
  BY <1>1, AppMoves DEF App, Creating, FacadeInv, FacadeTypeOK
<1>3. Busy'
  BY <1>1 DEF Busy, Creating, heap
<1> QED
  BY <1>2, <1>3 DEF FacadeInv

LEMMA UnstuckKeeps == ASSUME FacadeInv, Unstuck PROVE FacadeInv'
<1>1. app \in {"stuck", "stuck_relogin"} /\ app' \in {"idle", "relogin", "dead"} /\ appClock' = 0
      /\ UNCHANGED <<heap, connection, session, block, clock, hasty>>
  BY DEF Unstuck
<1>2. /\ FacadeTypeOK' /\ OneManager' /\ OwnListener' /\ NoNullCall' /\ Haste' /\ Listeners'
      /\ \A m \in Manager : Life(m)' /\ Deadlines(m)'
  BY <1>1, AppMoves DEF App, Creating
<1>3. ASSUME NEW m \in Manager PROVE OnTheWayOut(m)'
  <2>1. clock'[m] \in Nat
    BY <1>2 DEF FacadeTypeOK
  <2>2. m = manager' => session'[m] # "on"
    BY <1>1 DEF FacadeInv, Busy, heap
  <2> QED
    BY <1>1, <2>1, <2>2, FacadeAssumption DEF OnTheWayOut
<1>4. Busy'
  BY <1>1, <1>3 DEF Busy, Creating
<1> QED
  BY <1>2, <1>4 DEF FacadeInv

-----------------------------------------------------------------------------
(* The network thread and the block.                                       *)

LEMMA CallbackBeginsKeeps ==
  ASSUME FacadeInv, NEW m \in Manager, session[m] \in {"on", "quit"},
         NEW how \in InCallback, CallbackBegins(m, how)
  PROVE  FacadeInv'
<1> USE FacadeAssumption
<1>1. m = manager /\ manager # NULL /\ object[m] = "alive" /\ clock[m] \in Nat /\ appClock \in Nat
      /\ connection[m] # "none"
  BY InUse DEF CallbackBegins, FacadeInv, FacadeTypeOK, Past93, Leaving
<1>2. /\ session' = [session EXCEPT ![m] = how]
      /\ block' = [block EXCEPT ![m] = "queued"]
      /\ clock' = [clock EXCEPT ![m] = 0]
      /\ app' \in {app, "torn"}
      /\ UNCHANGED <<heap, connection, appClock, hasty>>
  BY <1>1 DEF CallbackBegins
<1>3. app' # app => app' = "torn" /\ hasty # {}
  <2> SUFFICES ASSUME app' # app, hasty = {} PROVE FALSE
    BY <1>2
  <2>1. callback[m] = m /\ ears[m] = "alive"
    BY <1>1 DEF FacadeInv, OwnListener
  <2> QED
    BY <2>1 DEF CallbackBegins
<1>4. app \notin Creating
  BY <1>1 DEF FacadeInv, Busy
<1>5. FacadeTypeOK' /\ NoNullCall'
  BY <1>2 DEF FacadeInv, FacadeTypeOK, NoNullCall, Session, InCallback, App, heap
<1>6. OneManager' /\ OwnListener' /\ Haste'
  BY <1>1, <1>2
  DEF FacadeInv, FacadeTypeOK, OneManager, OwnListener, Deaf, Haste, heap, InCallback, Leaving
<1>7. Listeners'
  BY <1>2, <1>3 DEF FacadeInv, FacadeTypeOK, Listeners, heap, InCallback
<1>8. ASSUME app' = "relogin" PROVE OnTheWayOut(m)'
  <2>1. OnTheWayOut(m) /\ Deadlines(m) /\ session[m] = "quit"
    BY <1>1, <1>3, <1>8 DEF FacadeInv, Busy, OnTheWayOut
  <2>2. appClock <= Answer
    BY <2>1, <1>1 DEF OnTheWayOut, Deadlines
  <2>3. session'[m] = how /\ clock'[m] = 0 /\ appClock' = appClock
    BY <1>2 DEF FacadeInv, FacadeTypeOK
  <2> QED
    BY <2>2, <2>3, <1>1 DEF OnTheWayOut, InCallback
<1>9. ASSUME app' = "relogin", NEW o \in Manager, o # m PROVE OnTheWayOut(o)'
  BY <1>1, <1>2, <1>3, <1>9 DEF FacadeInv, FacadeTypeOK, Busy, OnTheWayOut, heap
<1>10. Busy'
  <2>1. app' \in {"stuck", "stuck_relogin"} => FALSE
    BY <1>1, <1>3 DEF FacadeInv, Busy
  <2> QED
    BY <1>3, <1>4, <1>8, <1>9, <2>1 DEF Busy, Creating
<1>11. ASSUME NEW o \in Manager PROVE Life(o)' /\ Deadlines(o)'
  <2>1. CASE o = m
    BY <1>1, <1>2, <2>1
    DEF CallbackBegins, FacadeInv, FacadeTypeOK, Life, Deadlines, InCallback, Leaving, Ending, Past93,
        heap
  <2>2. CASE o # m
    BY <1>2, <1>4, <2>2 DEF FacadeInv, FacadeTypeOK, Life, Deadlines, heap
  <2> QED
    BY <2>1, <2>2
<1> QED
  BY <1>5, <1>6, <1>7, <1>10, <1>11 DEF FacadeInv

LEMMA EndsUnheardKeeps == ASSUME FacadeInv, NEW m \in Manager, EndsUnheard(m) PROVE FacadeInv'
<1> USE FacadeAssumption
<1>1. /\ connection[m] # "none" /\ callback[m] = NULL /\ session[m] \in {"on", "quit"}
      /\ session' = [session EXCEPT ![m] = "over"]
      /\ UNCHANGED <<heap, connection, block, clock, app, appClock, hasty>>
  BY DEF EndsUnheard
<1>2. FacadeTypeOK' /\ NoNullCall'
  BY <1>1 DEF FacadeInv, FacadeTypeOK, NoNullCall, Session, heap
<1>3. OneManager' /\ OwnListener' /\ Haste' /\ Listeners'
  BY <1>1
  DEF FacadeInv, FacadeTypeOK, OneManager, OwnListener, Deaf, Haste, Listeners, heap, Leaving
<1>4. Busy'
  BY <1>1 DEF FacadeInv, FacadeTypeOK, Busy, OnTheWayOut, heap, Ending, InCallback, Leaving
<1>5. ASSUME NEW o \in Manager PROVE Life(o)' /\ Deadlines(o)'
  <2>1. CASE o = m
    BY <1>1, <2>1
    DEF FacadeInv, FacadeTypeOK, Life, Deadlines, InCallback, Leaving, Ending, Past93, heap
  <2>2. CASE o # m
    BY <1>1, <2>2 DEF FacadeInv, FacadeTypeOK, Life, Deadlines, heap
  <2> QED
    BY <2>1, <2>2
<1> QED
  BY <1>2, <1>3, <1>4, <1>5 DEF FacadeInv

\* A block that has not run is the block of the manager in use.
LEMMA BlockFindsItsOwn ==
  ASSUME FacadeInv, NEW m \in Manager, RunBlock(m)
  PROVE  /\ session[m] \in InCallback /\ m = manager /\ manager # NULL
         /\ connection[m] = "open" /\ object[m] = "alive" /\ callback[m] # NULL
         /\ block' = [block EXCEPT ![m] = "done"]
         /\ connection' = [connection EXCEPT ![m] = "closed"]
         /\ UNCHANGED <<heap, session, clock, app, appClock, hasty>>
<1>1. session[m] \in InCallback /\ block[m] = "queued"
  BY DEF RunBlock, FacadeInv, Deadlines
<1>2. m = manager /\ manager # NULL /\ object[m] = "alive" /\ connection[m] # "none"
      /\ callback[m] # NULL
  BY <1>1, InCallbackIsCurrent DEF InCallback
<1>3. connection[m] = "open"
  BY <1>1, <1>2 DEF FacadeInv, FacadeTypeOK, Life
<1> QED
  BY <1>1, <1>2, <1>3 DEF RunBlock

LEMMA RunBlockKeeps == ASSUME FacadeInv, NEW m \in Manager, RunBlock(m) PROVE FacadeInv'
<1> USE FacadeAssumption, BlockFindsItsOwn
<1>1. FacadeTypeOK' /\ NoNullCall'
  BY DEF FacadeInv, FacadeTypeOK, NoNullCall, heap
<1>2. OneManager' /\ OwnListener'
  BY DEF FacadeInv, FacadeTypeOK, OneManager, OwnListener, Deaf, heap
<1>3. app \notin Creating
  BY DEF FacadeInv, Busy
<1>4. Busy' /\ Haste' /\ Listeners'
  BY <1>3 DEF FacadeInv, Busy, OnTheWayOut, Haste, Listeners, heap
<1>5. ASSUME NEW o \in Manager PROVE Life(o)' /\ Deadlines(o)'
  BY DEF FacadeInv, FacadeTypeOK, Life, Deadlines, InCallback, heap, Past93, Leaving
<1> QED
  BY <1>1, <1>2, <1>4, <1>5 DEF FacadeInv

-----------------------------------------------------------------------------
(* The end of the callback.                                                *)

\* By the end of the callback's sleep its block has run.
LEMMA ClosedByThen ==
  ASSUME FacadeInv, NEW m \in Manager, DeleteManager(m)
  PROVE  connection[m] = "closed"
<1>1. clock[m] >= CallbackWait /\ session[m] \in InCallback /\ clock[m] \in Nat
  BY DEF DeleteManager, CallbackDeletes, Passes, FacadeInv, FacadeTypeOK
<1>2. block[m] # "queued"
  BY <1>1, FacadeAssumption DEF FacadeInv, Deadlines
<1>3. connection[m] # "none" /\ callback[m] # NULL
  BY <1>1, InCallbackIsCurrent
<1> QED
  BY <1>1, <1>2, <1>3 DEF FacadeInv, FacadeTypeOK, Life, InCallback

LEMMA DeleteManagerKeeps ==
  ASSUME FacadeInv, NEW m \in Manager, DeleteManager(m) PROVE FacadeInv'
<1> USE FacadeAssumption
<1>1. session[m] \in InCallback
  BY DEF DeleteManager, CallbackDeletes, Passes
<1>2. m = manager /\ manager # NULL /\ connection[m] = "closed" /\ callback[m] # NULL
  BY <1>1, ClosedByThen, InCallbackIsCurrent
<1>3. /\ session' = [session EXCEPT ![m] = "freed"]
      /\ object' = [object EXCEPT ![m] = "deleted"]
      /\ UNCHANGED <<manager, listener, ears, callback, connection, block, clock, app, appClock, hasty>>
  <2>1. [o \in Manager |-> IF o = manager THEN "deleted" ELSE object[o]]
          = [object EXCEPT ![m] = "deleted"]
    BY <1>2 DEF FacadeInv, FacadeTypeOK
  <2> QED
    BY <2>1 DEF DeleteManager, CallbackDeletes, Passes
<1>4. app \notin Creating
  BY <1>2 DEF FacadeInv, Busy
<1>5. FacadeTypeOK' /\ NoNullCall'
  BY <1>3 DEF FacadeInv, FacadeTypeOK, NoNullCall, Session
<1>6. OneManager' /\ OwnListener'
  BY <1>2, <1>3 DEF FacadeInv, FacadeTypeOK, OneManager, OwnListener, Deaf
<1>7. Haste' /\ Listeners'
  BY <1>1, <1>3 DEF FacadeInv, FacadeTypeOK, Haste, Listeners, InCallback, Leaving
<1>8. Busy'
  BY <1>1, <1>2, <1>3, <1>4
  DEF FacadeInv, FacadeTypeOK, Busy, OnTheWayOut, Ending, InCallback
<1>9. ASSUME NEW o \in Manager PROVE Life(o)' /\ Deadlines(o)'
  <2>1. CASE o = m
    BY <1>1, <1>2, <1>3, <2>1
    DEF FacadeInv, FacadeTypeOK, Life, Deadlines, InCallback, Leaving, Ending, Past93
  <2>2. CASE o # m
    BY <1>3, <2>2 DEF FacadeInv, FacadeTypeOK, Life, Deadlines
  <2> QED
    BY <2>1, <2>2
<1> QED
  BY <1>5, <1>6, <1>7, <1>8, <1>9 DEF FacadeInv

LEMMA ClearManagerKeeps ==
  ASSUME FacadeInv, NEW m \in Manager, ClearManager(m) PROVE FacadeInv'
<1> USE FacadeAssumption
<1>1. session[m] = "freed"
  BY DEF ClearManager, Passes
<1>2. m = manager /\ manager # NULL /\ connection[m] # "none" /\ callback[m] # NULL
      /\ object[m] = "deleted"
  BY <1>1, InCallbackIsCurrent
<1>3. /\ session' = [session EXCEPT ![m] = "cleared"]
      /\ manager' = NULL
      /\ UNCHANGED <<listener, object, ears, callback, connection, block, clock, app, appClock, hasty>>
  BY DEF ClearManager, Passes
<1>4. app \notin Creating
  BY <1>2 DEF FacadeInv, Busy
<1>5. FacadeTypeOK' /\ NoNullCall'
  BY <1>3 DEF FacadeInv, FacadeTypeOK, NoNullCall, Session
<1>6. OneManager' /\ OwnListener'
  BY <1>2, <1>3 DEF FacadeInv, FacadeTypeOK, OneManager, OwnListener, Deaf
<1>7. Haste'
  BY <1>2, <1>3 DEF FacadeInv, FacadeTypeOK, Haste
<1>8. Listeners'
  <2>1. ASSUME NEW o \in Manager PROVE session'[o] = "unheard" <=> session[o] = "unheard"
    BY <1>1, <1>3 DEF FacadeInv, FacadeTypeOK
  <2> QED
    BY <1>3, <1>4, <2>1 DEF FacadeInv, FacadeTypeOK, Listeners, Creating
<1>9. Busy'
  BY <1>1, <1>2, <1>3, <1>4
  DEF FacadeInv, FacadeTypeOK, Busy, OnTheWayOut, Ending, InCallback, Leaving
<1>10. ASSUME NEW o \in Manager PROVE Life(o)' /\ Deadlines(o)'
  <2>1. CASE o = m
    BY <1>1, <1>2, <1>3, <2>1
    DEF FacadeInv, FacadeTypeOK, Life, Deadlines, InCallback, Leaving, Ending, Past93
  <2>2. CASE o # m
    BY <1>2, <1>3, <2>2 DEF FacadeInv, FacadeTypeOK, Life, Deadlines
  <2> QED
    BY <2>1, <2>2
<1> QED
  BY <1>5, <1>6, <1>7, <1>8, <1>9, <1>10 DEF FacadeInv

\* What lines 96-98 leave alone: all but the listener, and the session that goes on.
LEMMA LeavingMoves ==
  ASSUME FacadeInv, NEW m \in Manager, session[m] \in Leaving, NEW to \in Leaving \cup {"over"},
         session' = [session EXCEPT ![m] = to],
         UNCHANGED <<manager, object, callback, connection, block, clock, appClock, hasty>>,
         listener' \in Manager \cup {NULL},
         ears' \in [Manager -> {"unborn", "alive", "deleted"}],
         \A o \in Manager : ears[o] = "unborn" => ears'[o] = "unborn",
         app' \in {app, "torn"}
  PROVE  /\ FacadeTypeOK' /\ OneManager' /\ OwnListener' /\ NoNullCall' /\ Busy' /\ Haste'
         /\ \A o \in Manager : Life(o)' /\ Deadlines(o)'
         /\ manager # NULL => manager \in hasty
<1> USE FacadeAssumption
<1>1. FacadeTypeOK' /\ NoNullCall'
  BY DEF FacadeInv, FacadeTypeOK, NoNullCall, Session, App, Leaving
<1>2. manager # NULL => manager \in hasty
  BY DEF FacadeInv, Haste
<1>3. OneManager'
  BY DEF FacadeInv, FacadeTypeOK, OneManager, Deaf, Leaving
<1>4. OwnListener'
  <2> SUFFICES ASSUME NEW o \in Manager \ hasty, object[o] = "alive", connection[o] # "none"
               PROVE  FALSE
    BY DEF OwnListener
  <2> QED
    BY NobodyLeaves
<1>5. Busy'
  BY DEF FacadeInv, FacadeTypeOK, Busy, OnTheWayOut, Ending, Leaving, InCallback, Creating
<1>6. Haste'
  BY <1>2 DEF FacadeInv, FacadeTypeOK, Haste, Leaving
<1>7. ASSUME NEW o \in Manager PROVE Life(o)' /\ Deadlines(o)'
  <2>1. CASE o = m
    BY <2>1 DEF FacadeInv, FacadeTypeOK, Life, Deadlines, InCallback, Leaving, Ending, Past93, Creating
  <2>2. CASE o # m
    BY <2>2 DEF FacadeInv, FacadeTypeOK, Life, Deadlines, Creating
  <2> QED
    BY <2>1, <2>2
<1> QED
  BY <1>1, <1>2, <1>3, <1>4, <1>5, <1>6, <1>7

LEMMA TestListenerKeeps ==
  ASSUME FacadeInv, NEW m \in Manager, TestListener(m) PROVE FacadeInv'
<1>1. session[m] = "cleared" /\ UNCHANGED <<manager, listener, object, ears, callback, connection,
                                            block, clock, app, appClock, hasty>>
  BY DEF TestListener, Passes
<1>2. PICK to \in {"over", "doomed"} : session' = [session EXCEPT ![m] = to]
  BY DEF TestListener, Passes
<1>3. /\ FacadeTypeOK' /\ OneManager' /\ OwnListener' /\ NoNullCall' /\ Busy' /\ Haste'
      /\ \A o \in Manager : Life(o)' /\ Deadlines(o)'
  BY <1>1, <1>2, LeavingMoves DEF FacadeInv, FacadeTypeOK, Leaving
<1>4. Listeners'
  <2>1. ASSUME NEW o \in Manager PROVE session'[o] = "unheard" <=> session[o] = "unheard"
    BY <1>1, <1>2 DEF FacadeInv, FacadeTypeOK
  <2> QED
    BY <1>1, <2>1 DEF FacadeInv, Listeners
<1> QED
  BY <1>3, <1>4 DEF FacadeInv

LEMMA DeleteListenerKeeps ==
  ASSUME FacadeInv, NEW m \in Manager, DeleteListener(m) PROVE FacadeInv'
<1> USE FacadeAssumption
<1>1. /\ session[m] = "doomed" /\ session' = [session EXCEPT ![m] = "unheard"]
      /\ ears' = [o \in Manager |-> IF o = listener THEN "deleted" ELSE ears[o]]
      /\ app' \in {app, "torn"}
      /\ app' # app => listener # NULL /\ ears[listener] = "deleted"
      /\ UNCHANGED <<manager, listener, object, callback, connection, block, clock, appClock, hasty>>
  BY DEF DeleteListener, Passes, Torn, EarsWithout
<1>2. /\ ears' \in [Manager -> {"unborn", "alive", "deleted"}]
      /\ \A o \in Manager : ears[o] = "unborn" => ears'[o] = "unborn"
      /\ \A o \in Manager : ears'[o] = "alive" => ears[o] = "alive"
      /\ listener # NULL => ears'[listener] = "deleted"
  BY <1>1 DEF FacadeInv, FacadeTypeOK, Listeners
<1>3. /\ FacadeTypeOK' /\ OneManager' /\ OwnListener' /\ NoNullCall' /\ Busy' /\ Haste'
      /\ \A o \in Manager : Life(o)' /\ Deadlines(o)'
      /\ manager # NULL => manager \in hasty
  BY <1>1, <1>2, LeavingMoves DEF FacadeInv, FacadeTypeOK, Leaving
<1>4. app' # app => app' = "torn" /\ hasty # {}
  <2> SUFFICES ASSUME listener # NULL, ears[listener] = "deleted", hasty = {} PROVE FALSE
    BY <1>1
  <2>1. CASE app = "dropped"
    BY <1>3, <2>1 DEF FacadeInv, Busy, Creating
  <2>2. ASSUME NEW o \in Manager, session[o] = "unheard" PROVE FALSE
    BY <1>1, <2>2 DEF FacadeInv, Haste, Leaving
  <2> QED
    BY <2>1, <2>2 DEF FacadeInv, Listeners
<1>5. app \in Creating => manager \in hasty
  BY <1>3 DEF FacadeInv, Busy
<1>6. session'[m] = "unheard"
  BY <1>1 DEF FacadeInv, FacadeTypeOK
<1>7. Listeners'
  BY <1>1, <1>2, <1>4, <1>5, <1>6 DEF FacadeInv, Listeners, Creating
<1> QED
  BY <1>3, <1>7 DEF FacadeInv

LEMMA ClearListenerKeeps ==
  ASSUME FacadeInv, NEW m \in Manager, ClearListener(m) PROVE FacadeInv'
<1> USE FacadeAssumption
<1>1. /\ session[m] = "unheard" /\ session' = [session EXCEPT ![m] = "over"]
      /\ listener' = NULL
      /\ UNCHANGED <<manager, object, ears, callback, connection, block, clock, app, appClock, hasty>>
  BY DEF ClearListener, Passes
<1>2. /\ FacadeTypeOK' /\ OneManager' /\ OwnListener' /\ NoNullCall' /\ Busy' /\ Haste'
      /\ \A o \in Manager : Life(o)' /\ Deadlines(o)'
      /\ manager # NULL => manager \in hasty
  BY <1>1, LeavingMoves DEF FacadeInv, FacadeTypeOK, Leaving
<1>3. app \in Creating => manager \in hasty
  BY <1>2 DEF FacadeInv, Busy
<1>4. Listeners'
  BY <1>1, <1>3 DEF FacadeInv, FacadeTypeOK, Listeners, Creating
<1> QED
  BY <1>2, <1>4 DEF FacadeInv

-----------------------------------------------------------------------------
(* Time.                                                                   *)

LEMMA TickKeeps == ASSUME FacadeInv, Tick PROVE FacadeInv'
<1> USE FacadeAssumption
<1>0. UNCHANGED <<heap, connection, session, block, app, hasty>>
  BY DEF Tick
<1>1. FacadeTypeOK'
  BY DEF Tick, FacadeInv, FacadeTypeOK, heap
<1>2. OneManager' /\ OwnListener' /\ NoNullCall' /\ Haste' /\ Listeners'
  BY <1>0 DEF FacadeInv, OneManager, OwnListener, Deaf, NoNullCall, Haste, Listeners, heap
<1>3. ASSUME NEW m \in Manager PROVE Life(m)'
  BY <1>0 DEF FacadeInv, Life, heap
<1>4. ASSUME NEW m \in Manager
      PROVE  /\ clock[m] \in Nat /\ InTime(m)
             /\ clock'[m] = IF session[m] \in {"quit"} \cup Ending THEN clock[m] + 1 ELSE clock[m]
  BY DEF Tick, FacadeInv, FacadeTypeOK
<1>5. ASSUME NEW m \in Manager PROVE Deadlines(m)'
  <2>1. Deadlines(m)
    BY DEF FacadeInv
  <2> QED
    BY <1>0, <1>4, <2>1 DEF Deadlines, InTime, Ending
<1>6. ASSUME NEW m \in Manager, app' = "relogin" PROVE OnTheWayOut(m)'
  <2>1. OnTheWayOut(m) /\ appClock \in Nat
    BY <1>0, <1>6 DEF FacadeInv, FacadeTypeOK, Busy
  <2>2. appClock' \in Nat /\ appClock' <= appClock + 1
    BY <2>1 DEF Tick
  <2> QED
    BY <1>0, <1>4, <2>1, <2>2 DEF OnTheWayOut, heap
<1>7. Busy'
  BY <1>0, <1>6 DEF FacadeInv, Busy, heap
<1> QED
  BY <1>1, <1>2, <1>3, <1>5, <1>7 DEF FacadeInv

-----------------------------------------------------------------------------
(* Theorems.                                                               *)

LEMMA FacadeStep == FacadeInv /\ [Next]_vars => FacadeInv'
<1> SUFFICES ASSUME FacadeInv, [Next]_vars PROVE FacadeInv'
  OBVIOUS
<1>1. CASE Logout BY <1>1, LogoutKeeps
<1>2. CASE Relogin BY <1>2, ReloginKeeps
<1>3. CASE CallDeleted BY <1>3, CallDeletedKeeps
<1>4. CASE Unstuck BY <1>4, UnstuckKeeps
<1>5. CASE Finish
  BY <1>5, DropListenerKeeps, ForgetListenerKeeps, NewListenerKeeps, ConnectKeeps DEF Finish
<1>6. CASE Tick BY <1>6, TickKeeps
<1>7. CASE \E state \in App : Stuck(state) BY <1>7, StuckKeeps
<1>8. ASSUME NEW m \in Manager, Login(m) PROVE FacadeInv' BY <1>8, LoginKeeps
<1>9. ASSUME NEW m \in Manager, Wake(m) PROVE FacadeInv' BY <1>9, WakeKeeps
<1>10. ASSUME NEW m \in Manager, UserQuit(m) \/ Ended(m) PROVE FacadeInv'
  BY <1>10, CallbackBeginsKeeps DEF UserQuit, Ended, InCallback
<1>11. ASSUME NEW m \in Manager, EndsUnheard(m) PROVE FacadeInv' BY <1>11, EndsUnheardKeeps
<1>12. ASSUME NEW m \in Manager, RunBlock(m) PROVE FacadeInv' BY <1>12, RunBlockKeeps
<1>13. ASSUME NEW m \in Manager, CallbackEnds(m) PROVE FacadeInv'
  BY <1>13, DeleteManagerKeeps, ClearManagerKeeps, TestListenerKeeps, DeleteListenerKeeps,
     ClearListenerKeeps DEF CallbackEnds
<1>14. CASE UNCHANGED vars
  <2>1. UNCHANGED <<heap, connection, session, block, clock, app, appClock, hasty>>
    BY <1>14 DEF vars, heap
  <2>2. FacadeTypeOK' /\ OneManager' /\ OwnListener' /\ NoNullCall'
    BY <2>1 DEF FacadeInv, FacadeTypeOK, OneManager, OwnListener, Deaf, NoNullCall, heap
  <2>3. Busy' /\ Haste' /\ Listeners'
    BY <2>1 DEF FacadeInv, Busy, OnTheWayOut, Haste, Listeners, heap
  <2>4. ASSUME NEW m \in Manager PROVE Life(m)' /\ Deadlines(m)'
    BY <2>1 DEF FacadeInv, Life, Deadlines, heap
  <2> QED
    BY <2>2, <2>3, <2>4 DEF FacadeInv
<1> QED
  BY <1>1, <1>2, <1>3, <1>4, <1>5, <1>6, <1>7, <1>8, <1>9, <1>10, <1>11, <1>12, <1>13, <1>14 DEF Next

\* The sleeps of loginIntercomServer and of the callback order the three threads, but
\* for a login that comes before the callback's last lines.
THEOREM FacadeInvariant == Spec => []FacadeInv
BY FacadeInit, FacadeStep, PTL DEF Spec

\* No manager is forgotten but one that a hasty login left without a listener, and
\* none is deleted while it is in use.
THEOREM OneManagerAtATime == Spec => []OneManager
<1>1. FacadeInv => OneManager
  BY DEF FacadeInv
<1> QED
  BY <1>1, FacadeInvariant, PTL

\* A manager that was not made in haste has its own listener until its session ends.
THEOREM OwnListenerKept == Spec => []OwnListener
<1>1. FacadeInv => OwnListener
  BY DEF FacadeInv
<1> QED
  BY <1>1, FacadeInvariant, PTL

LEMMA ClosedAtItsEnd ==
  ASSUME FacadeInv, NEW m \in Manager, object[m] = "deleted"
  PROVE  session[m] \in Past93 /\ connection[m] = "closed"
<1>1. connection[m] # "none" /\ callback[m] # NULL /\ session[m] \in Past93
  BY DEF FacadeInv, Life
<1>2. block[m] # "none" /\ block[m] # "queued"
  BY <1>1 DEF FacadeInv, Life, Deadlines, Past93, InCallback, Leaving
<1> QED
  BY <1>1, <1>2 DEF FacadeInv, FacadeTypeOK, Life

\* A manager is deleted by its own callback, after its connection was closed.
THEOREM DeletedAtItsEnd == Spec => []OwnEnd
<1>1. FacadeInv => OwnEnd
  BY ClosedAtItsEnd DEF OwnEnd
<1> QED
  BY <1>1, FacadeInvariant, PTL

\* The block that closes the connection never finds the global empty, nor deleted.
THEOREM NoNullCalls == Spec => []NoNullCall
<1>1. FacadeInv => NoNullCall
  BY DEF FacadeInv
<1> QED
  BY <1>1, FacadeInvariant, PTL

-----------------------------------------------------------------------------
(* Refinement.  These are what S!Spec sees of the managers.                *)

InSlot == IF manager # NULL /\ Deaf(manager) THEN NULL ELSE manager
Opened == \E m \in Manager : m = manager /\ ~ Deaf(m) /\ connection[m] # "closed"
Used == {m \in Manager : object[m] # "unborn"}
Early == \E m \in hasty : m = manager /\ ~ Deaf(m)
Going == \E m \in Manager : session[m] \in Leaving
SlotState == <<InSlot, Opened, Used, Early, Going>>

LEMMA SlotInit == Init => S!Init
BY FacadeAssumption DEF Init, S!Init, Leaving

\* A manager is taken when the slot is empty; by Wake only when nothing is going.
LEMMA TakesOne ==
  ASSUME FacadeInv, NEW m \in Manager, Create(m), Free, hasty \subseteq hasty',
         hasty' = IF Going THEN hasty \cup {m} ELSE hasty
  PROVE  /\ InSlot = NULL /\ m \notin Used
         /\ InSlot' = m /\ Opened' = TRUE /\ Used' = Used \cup {m}
         /\ Early' = Going /\ Going' = Going
<1> USE FacadeAssumption
<1>1. InSlot = NULL /\ m \notin Used
  BY DEF Free, InSlot, Create, Used, FacadeInv, FacadeTypeOK
<1>2. manager' = m /\ connection' = connection /\ session' = session /\ connection[m] = "none"
      /\ ~ Deaf(m)'
  BY DEF Create, Deaf, FacadeInv, Life
<1>3. InSlot' = m /\ Opened'
  BY <1>2 DEF InSlot, Opened
<1>4. Used' = Used \cup {m}
  BY DEF Create, Used, FacadeInv, FacadeTypeOK
<1>5. Going' = Going
  BY <1>2 DEF Going
<1>6. m \notin hasty
  BY DEF Create, FacadeInv, Life
<1>7. Early' = Going
  <2>1. Early' <=> m \in hasty'
    BY <1>2 DEF Early
  <2>2. Early' <=> Going
    BY <1>6, <2>1
  <2> QED
    BY <2>2 DEF Early, Going
<1> QED
  BY <1>1, <1>3, <1>4, <1>5, <1>7

\* A step that leaves the managers, their connections and the last lines of the
\* callbacks alone is a stutter.
LEMMA Stutters ==
  ASSUME UNCHANGED <<manager, object, callback, connection, hasty>>,
         \A m \in Manager : session'[m] \in Leaving <=> session[m] \in Leaving
  PROVE  UNCHANGED SlotState
<1>1. UNCHANGED <<InSlot, Opened, Used, Early>>
  BY DEF InSlot, Opened, Used, Early, Deaf
<1>2. Going' = Going
  BY DEF Going
<1> QED
  BY <1>1, <1>2 DEF SlotState

\* A manager that gets its listener stays in the slot.  One that does not was taken
\* early, and is lost.
LEMMA Connects ==
  ASSUME FacadeInv, Connect
  PROVE  \/ UNCHANGED SlotState
         \/ Early /\ InSlot' = NULL /\ Opened' = FALSE /\ Early' = FALSE
            /\ UNCHANGED <<Used, Going>>
<1> USE FacadeAssumption
<1>1. /\ manager \in Manager /\ object[manager] = "alive" /\ connection[manager] = "none"
      /\ listener \in {manager, NULL} /\ (manager \notin hasty => listener = manager)
  BY DEF Connect, FacadeInv, FacadeTypeOK, Busy, Creating, Listeners
<1>2. /\ callback' = [callback EXCEPT ![manager] = listener]
      /\ connection' = [connection EXCEPT ![manager] = "open"]
      /\ UNCHANGED <<manager, object, session, hasty>>
  BY DEF Connect
<1>3. ~ Deaf(manager) /\ (Deaf(manager)' <=> listener = NULL)
  BY <1>1, <1>2 DEF FacadeInv, FacadeTypeOK, Deaf
<1>4. connection'[manager] = "open"
  BY <1>1, <1>2 DEF FacadeInv, FacadeTypeOK
<1>5. UNCHANGED <<Used, Going>>
  BY <1>2 DEF Used, Going
<1>6. CASE listener = manager
  <2>1. UNCHANGED <<InSlot, Opened, Early>>
    BY <1>1, <1>2, <1>3, <1>4, <1>6 DEF InSlot, Opened, Early
  <2> QED
    BY <1>5, <2>1 DEF SlotState
<1>7. CASE listener = NULL
  <2>1. manager \in hasty /\ Deaf(manager)'
    BY <1>1, <1>3, <1>7
  <2>2. Early
    BY <1>1, <1>3, <2>1 DEF Early
  <2>3. InSlot' = NULL /\ Opened' = FALSE /\ Early' = FALSE
    BY <1>1, <1>2, <2>1 DEF InSlot, Opened, Early
  <2> QED
    BY <1>5, <2>2, <2>3
<1> QED
  BY <1>1, <1>6, <1>7

LEMMA Closes ==
  ASSUME FacadeInv, NEW m \in Manager, RunBlock(m)
  PROVE  InSlot # NULL /\ Opened /\ Opened' = FALSE /\ UNCHANGED <<InSlot, Used, Early, Going>>
<1>1. /\ m = manager /\ manager # NULL /\ callback[m] # NULL /\ connection[m] = "open"
      /\ UNCHANGED <<manager, object, callback, session, hasty>>
  BY BlockFindsItsOwn DEF heap
<1>2. connection'[m] = "closed"
  BY BlockFindsItsOwn DEF FacadeInv, FacadeTypeOK
<1>3. ~ Deaf(m) /\ ~ Deaf(m)'
  BY <1>1 DEF Deaf
<1>4. Opened /\ ~ Opened'
  BY <1>1, <1>2, <1>3 DEF Opened
<1>5. UNCHANGED <<Used, Going>>
  BY <1>1 DEF Used, Going
<1>6. UNCHANGED <<InSlot, Early>> /\ InSlot # NULL
  BY <1>1, <1>3 DEF InSlot, Early
<1> QED
  BY <1>4, <1>5, <1>6

LEMMA Deletes ==
  ASSUME FacadeInv, NEW m \in Manager, DeleteManager(m)
  PROVE  UNCHANGED SlotState
<1>1. session[m] \in InCallback
  BY DEF DeleteManager, CallbackDeletes, Passes
<1>2. m = manager /\ manager # NULL /\ connection[m] = "closed" /\ callback[m] # NULL
      /\ object[m] = "alive"
  BY <1>1, ClosedByThen, InCallbackIsCurrent DEF InCallback
<1>3. /\ session' = [session EXCEPT ![m] = "freed"]
      /\ object' = [o \in Manager |-> IF o = manager THEN "deleted" ELSE object[o]]
      /\ UNCHANGED <<manager, callback, connection, hasty>>
  BY DEF DeleteManager, CallbackDeletes, Passes
<1>4. ~ Deaf(m) /\ ~ Deaf(m)'
  BY <1>2, <1>3 DEF Deaf
<1>5. UNCHANGED <<InSlot, Opened, Early>>
  BY <1>2, <1>3, <1>4 DEF InSlot, Opened, Early
<1>6. Used' = Used
  BY <1>2, <1>3 DEF Used
<1>7. Going' = Going
  BY <1>1, <1>3 DEF Going, Leaving, InCallback, FacadeInv, FacadeTypeOK
<1> QED
  BY <1>5, <1>6, <1>7 DEF SlotState

LEMMA LetsGo ==
  ASSUME FacadeInv, NEW m \in Manager, ClearManager(m)
  PROVE  /\ InSlot # NULL /\ ~ Opened
         /\ InSlot' = NULL /\ Early' = FALSE /\ Going' = TRUE /\ UNCHANGED <<Opened, Used>>
<1> USE FacadeAssumption
<1>1. session[m] = "freed"
  BY DEF ClearManager, Passes
<1>2. m = manager /\ manager # NULL /\ object[m] = "deleted"
  BY <1>1, InCallbackIsCurrent
<1>3. connection[m] = "closed"
  BY <1>2, ClosedAtItsEnd
<1>4. manager' = NULL /\ session' = [session EXCEPT ![m] = "cleared"] /\ hasty' = hasty /\ object' = object
  BY DEF ClearManager, Passes
<1>5. InSlot # NULL /\ ~ Opened
  BY <1>2, <1>3 DEF InSlot, Opened, Deaf
<1>6. InSlot' = NULL /\ ~ Opened' /\ ~ Early'
  BY <1>4 DEF InSlot, Opened, Early, FacadeInv, FacadeTypeOK
<1>7. Going'
  BY <1>4 DEF Going, Leaving, FacadeInv, FacadeTypeOK
<1>8. Used' = Used
  BY <1>4 DEF Used
<1> QED
  BY <1>5, <1>6, <1>7, <1>8 DEF Opened, Early, Going

\* The last lines of the callback: it is going, or gone.
LEMMA Leaves ==
  ASSUME FacadeInv, NEW m \in Manager, TestListener(m) \/ DeleteListener(m) \/ ClearListener(m)
  PROVE  Going /\ Going' \in BOOLEAN /\ UNCHANGED <<InSlot, Opened, Used, Early>>
<1>1. session[m] \in Leaving /\ UNCHANGED <<manager, object, callback, connection, hasty>>
  BY DEF TestListener, DeleteListener, ClearListener, Passes, Leaving
<1>2. Going
  BY <1>1 DEF Going
<1>3. UNCHANGED <<InSlot, Opened, Used, Early>>
  BY <1>1 DEF InSlot, Opened, Used, Early, Deaf
<1> QED
  BY <1>2, <1>3 DEF Going

LEMMA SlotStep == FacadeInv /\ [Next]_vars => [S!Next]_S!vars
<1> SUFFICES ASSUME FacadeInv, [Next]_vars PROVE [S!Next]_S!vars
  OBVIOUS
<1>1. UNCHANGED SlotState => UNCHANGED S!vars
  BY DEF SlotState, S!vars, InSlot, Opened, Used, Early, Going
<1>2. CASE UNCHANGED vars \/ DropListener \/ ForgetListener \/ NewListener \/ CallDeleted \/ Unstuck \/ Tick
           \/ \E state \in App : Stuck(state)
  <2>1. UNCHANGED <<manager, object, callback, connection, session, hasty>>
    BY <1>2 DEF vars, heap, DropListener, ForgetListener, NewListener, CallDeleted, Unstuck, Tick, Stuck
  <2> QED
    BY <1>1, <2>1, Stutters
<1>3. CASE Logout \/ Relogin
  <2>1. UNCHANGED <<manager, object, callback, connection, hasty>> /\ SendQuit
    BY <1>3 DEF Logout, Relogin, heap
  <2>2. ASSUME NEW m \in Manager PROVE session'[m] \in Leaving <=> session[m] \in Leaving
    BY <2>1 DEF SendQuit, FacadeInv, FacadeTypeOK, Leaving
  <2> QED
    BY <1>1, <2>1, <2>2, Stutters
<1>4. ASSUME NEW m \in Manager, UserQuit(m) \/ Ended(m) \/ EndsUnheard(m) PROVE UNCHANGED S!vars
  <2>1. UNCHANGED <<manager, object, callback, connection, hasty>>
    BY <1>4 DEF UserQuit, Ended, EndsUnheard, CallbackBegins, heap
  <2>2. session[m] \notin Leaving
    BY <1>4 DEF UserQuit, Ended, EndsUnheard, Leaving
  <2>3. PICK to \in InCallback \cup {"over"} : session' = [session EXCEPT ![m] = to]
    <3>1. CASE UserQuit(m) \/ Ended(m)
      <4>1. manager # NULL
        BY <3>1, InUse DEF UserQuit, Ended, CallbackBegins, Past93, Leaving
      <4> QED
        BY <3>1, <4>1 DEF UserQuit, Ended, CallbackBegins, InCallback
    <3>2. CASE EndsUnheard(m)
      BY <3>2 DEF EndsUnheard
    <3> QED
      BY <1>4, <3>1, <3>2
  <2>4. ASSUME NEW o \in Manager PROVE session'[o] \in Leaving <=> session[o] \in Leaving
    BY <2>2, <2>3 DEF FacadeInv, FacadeTypeOK, Leaving, InCallback
  <2> QED
    BY <1>1, <2>1, <2>4, Stutters
<1>5. ASSUME NEW m \in Manager, Login(m) PROVE S!Next
  <2>1. Free
    BY <1>5, FacadeAssumption DEF Login, Free, FacadeInv, Life
  <2>2. hasty' = (IF Going THEN hasty \cup {m} ELSE hasty) /\ hasty \subseteq hasty' /\ Create(m)
    BY <1>5 DEF Login, Going
  <2> QED
    BY <2>1, <2>2, TakesOne DEF S!Next, S!Take, InSlot, Opened, Used, Early, Going
<1>6. ASSUME NEW m \in Manager, Wake(m) PROVE S!Next
  <2>1. Free /\ ~ Going
    BY <1>6, GoneByThen DEF Going, Ending
  <2>2. hasty' = (IF Going THEN hasty \cup {m} ELSE hasty) /\ hasty \subseteq hasty' /\ Create(m)
    BY <1>6, <2>1 DEF Wake
  <2> QED
    BY <2>1, <2>2, TakesOne DEF S!Next, S!Take, InSlot, Opened, Used, Early, Going
<1>7. CASE Connect
  BY <1>1, <1>7, Connects DEF S!Next, S!Lose, S!vars, InSlot, Opened, Used, Early, Going
<1>8. ASSUME NEW m \in Manager, RunBlock(m) PROVE S!Next
  BY <1>8, Closes DEF S!Next, S!Close, InSlot, Opened, Used, Early, Going
<1>9. ASSUME NEW m \in Manager, DeleteManager(m) PROVE UNCHANGED S!vars
  BY <1>1, <1>9, Deletes
<1>10. ASSUME NEW m \in Manager, ClearManager(m) PROVE S!Next
  BY <1>10, LetsGo DEF S!Next, S!LetGo, InSlot, Opened, Used, Early, Going
<1>11. ASSUME NEW m \in Manager, TestListener(m) \/ DeleteListener(m) \/ ClearListener(m)
       PROVE  S!Next \/ UNCHANGED S!vars
  <2>1. Going' = Going => UNCHANGED SlotState
    BY <1>11, Leaves DEF SlotState
  <2>2. Going' # Going => Going' = FALSE
    BY <1>11, Leaves
  <2>3. CASE Going' = Going
    BY <1>1, <2>1, <2>3
  <2>4. CASE Going' = FALSE
    BY <1>11, <2>4, Leaves DEF S!Next, S!Gone, InSlot, Opened, Used, Early, Going
  <2> QED
    BY <2>2, <2>3, <2>4
<1> QED
  BY <1>2, <1>3, <1>4, <1>5, <1>6, <1>7, <1>8, <1>9, <1>10, <1>11 DEF Next, Finish, CallbackEnds

\* One manager at a time: taken when there is none, let go when it is closed.
THEOREM SlotImplemented == Spec => ImplementsSlot
<1>1. Init => S!Init
  BY SlotInit
<1>2. FacadeInv /\ [Next]_vars => [S!Next]_S!vars
  BY SlotStep
<1> QED
  BY <1>1, <1>2, FacadeInvariant, PTL DEF Spec, ImplementsSlot, S!Spec
=============================================================================
