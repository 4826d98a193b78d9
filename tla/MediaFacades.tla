---------------------------- MODULE MediaFacades ----------------------------
(***************************************************************************)
(* The lives of the managers behind the C interfaces of the room with      *)
(* anchors (linkMicMgr.cpp) and of the video meeting (VideoChatMgr.c).     *)
(*                                                                         *)
(* Each keeps its manager in a global, as IntercomMgr.m does, but shares   *)
(* it with blocks that read it when they run.  linkMicMgr.cpp deletes the  *)
(* manager in the callback that ends its session, and a login sleeps long  *)
(* enough for that.  VideoChatMgr.c deletes it in a block, after the       *)
(* application was told, and a login sleeps 10 ms: it is the application   *)
(* that has to wait.  How long is what this module is about.               *)
(* Nothing orders the last lines of the callback of linkMicMgr.cpp (54-58) *)
(* against a login that finds no manager any more: such a login is hasty.  *)
(***************************************************************************)
EXTENDS Naturals

CONSTANTS Manager,     \* the objects that new can return
          NULL,
          ReloginWait, \* by kind, the usleep of a login that finds a manager
          CloseWait,   \* by kind, the usleep between disconnect and delete
          Patience,    \* by kind, how long an application waits after it was told
          Answer,      \* longest from QUITSERVER to the callback
          Dispatch,    \* longest from dispatch_async to the block
          Late         \* longest a sleep takes too long

Kind == {"LinkMic", "VideoChat"}

ASSUME MediaFacadesAssumption ==
  /\ NULL \notin Manager
  /\ ReloginWait \in [Kind -> Nat] /\ CloseWait \in [Kind -> Nat] /\ Patience \in [Kind -> Nat]
  /\ Answer \in Nat /\ Dispatch \in Nat /\ Late \in Nat
  /\ Dispatch < CloseWait["LinkMic"]
  /\ Dispatch + Answer + CloseWait["LinkMic"] + Late < ReloginWait["LinkMic"]
  /\ Dispatch + CloseWait["VideoChat"] + Late < Patience["VideoChat"]

VARIABLES
  kind,       \* which of the two this is
  manager,    \* m_LinkMicManage, m_CVideoChat
  listener,   \* m_ILinkMic, m_IVideoChat, as the manager it was made for
  object,     \* the manager objects
  ears,       \* the listener objects, each by the manager it was made for
  callback,   \* the listener that each manager was given
  connection, \* the connection of each
  session,    \* how far the session of each has ended: see Session
  block,      \* the block dispatched by the callback of each: see Block
  clock,      \* time since session or block changed, while that matters
  quitBlock,  \* the block of loginLinkMicServer that logs out waits to run
  app,        \* the application's thread: see App
  appClock,   \* time since it went to sleep
  told,       \* the application has been told the end of the session it knows of
  toldClock,  \* how long ago, at most Patience
  hasty       \* history: it logged in before the last manager was gone, with its callback

heap == <<kind, manager, listener, object, ears, callback>>
appVars == <<app, appClock, told, toldClock, hasty>>
vars == <<heap, connection, session, block, clock, quitBlock, appVars>>

\* "quit": QUITSERVER was sent.  "callback": in the usleep of the callback.  Then the
\* callback of linkMicMgr.cpp has passed line 53 ("freed"), 54 ("cleared"), the test
\* of 56 ("doomed"), 57 ("unheard") and 58 ("telling").
Session == {"on", "quit", "callback", "freed", "cleared", "doomed", "unheard", "telling", "over"}
Leaving == {"cleared", "doomed", "unheard", "telling"}

\* "closing": in the usleep of the block.  "freed": past line 137 of VideoChatMgr.c.
Block == {"none", "queued", "closing", "freed", "done"}

\* "relogin": in the usleep of a login, which then has passed line 224 or 342 ("made")
\* and 227 or 349 ("listening").  "dead": a block called a manager, or a manager a
\* listener, that is not there, or one of them was deleted twice.  "struck": the
\* application logged out of a manager that was deleted under it.
App == {"idle", "relogin", "made", "listening", "dead", "struck"}
Alive == app \notin {"dead", "struck"}

MediaFacadesTypeOK ==
  /\ kind \in Kind
  /\ manager \in Manager \cup {NULL} /\ listener \in Manager \cup {NULL}
  /\ object \in [Manager -> {"unborn", "alive", "deleted"}]
  /\ ears \in [Manager -> {"unborn", "alive", "deleted"}]
  /\ callback \in [Manager -> Manager \cup {NULL}]
  /\ connection \in [Manager -> {"none", "open", "closed"}]
  /\ session \in [Manager -> Session]
  /\ block \in [Manager -> Block]
  /\ clock \in [Manager -> Nat]
  /\ quitBlock \in BOOLEAN
  /\ app \in App /\ appClock \in Nat
  /\ told \in BOOLEAN /\ toldClock \in Nat /\ hasty \in BOOLEAN

Init ==
  /\ kind \in Kind
  /\ manager = NULL /\ listener = NULL
  /\ object = [m \in Manager |-> "unborn"]
  /\ ears = [m \in Manager |-> "unborn"]
  /\ callback = [m \in Manager |-> NULL]
  /\ connection = [m \in Manager |-> "none"]
  /\ session = [m \in Manager |-> "on"]
  /\ block = [m \in Manager |-> "none"]
  /\ clock = [m \in Manager |-> 0]
  /\ quitBlock = FALSE
  /\ app = "idle" /\ appClock = 0
  /\ told = FALSE /\ toldClock = 0 /\ hasty = FALSE

\* The object that a global or a manager points to was deleted.
Gone(objects, m) == m # NULL /\ objects[m] = "deleted"

\* Deleting or calling what was deleted may go unnoticed or kill the program.
Or(fate, wrong) == IF wrong THEN {app, fate} ELSE {app}

Without(objects, m) == [o \in Manager |-> IF o = m THEN "deleted" ELSE objects[o]]

-----------------------------------------------------------------------------
(* The application's thread.                                               *)

\* The end of a login begins with a new manager.
Create(m) ==
  /\ object[m] = "unborn"
  /\ manager' = m
  /\ object' = [object EXCEPT ![m] = "alive"]
  /\ app' = "made"
  /\ told' = FALSE /\ toldClock' = 0
  /\ UNCHANGED <<kind, listener, ears, callback, connection, session, block, clock, quitBlock, appClock>>

Login(m) ==
  /\ app = "idle" /\ manager = NULL
  /\ Create(m)
  /\ hasty' = (hasty \/ \E o \in Manager : session[o] \in Leaving)

\* Mutant: a login does not sleep.
WakeAtOnce(m) == app = "relogin" /\ Create(m) /\ UNCHANGED hasty

\* The sleep is over.  The new manager replaces whatever is in the global.
Wake(m) == app = "relogin" /\ appClock >= ReloginWait[kind] /\ Create(m) /\ UNCHANGED hasty

\* A new listener.  The old one is deleted in VideoChatMgr.c, where only this thread
\* uses the global, and forgotten in linkMicMgr.cpp.
Listen ==
  /\ app = "made" /\ manager # NULL
  /\ listener' = manager
  /\ ears' = [(IF kind = "VideoChat" THEN Without(ears, listener) ELSE ears) EXCEPT ![manager] = "alive"]
  /\ app' \in {"listening"} \cup
       (IF kind = "VideoChat" /\ Gone(ears, listener) THEN {"dead"} ELSE {})
  /\ UNCHANGED <<kind, manager, object, callback, connection, session, block, clock, quitBlock,
                 appClock, told, toldClock, hasty>>

\* The manager gets the listener that is in the global by now, and connects.
Connect ==
  /\ app = "listening" /\ manager # NULL /\ object[manager] = "alive"
  /\ callback' = [callback EXCEPT ![manager] = listener]
  /\ connection' = [connection EXCEPT ![manager] = "open"]
  /\ app' = "idle"
  /\ UNCHANGED <<kind, manager, listener, object, ears, session, block, clock, quitBlock,
                 appClock, told, toldClock, hasty>>

\* A late block took the manager away, after line 342.
LoginFails ==
  /\ \/ app \in {"made", "listening"} /\ manager = NULL
     \/ app = "listening" /\ Gone(object, manager)
  /\ app' \in {"dead"} \cup (IF manager = NULL THEN {} ELSE {"idle"})
  /\ UNCHANGED <<heap, connection, session, block, clock, quitBlock, appClock, told, toldClock, hasty>>

\* logoutServer sends QUITSERVER, if the connection is still there.
SendQuit ==
  /\ manager # NULL
  /\ IF session[manager] = "on"
       THEN /\ session' = [session EXCEPT ![manager] = "quit"]
            /\ clock' = [clock EXCEPT ![manager] = 0]
       ELSE UNCHANGED <<session, clock>>

Logout ==
  /\ app = "idle"
  /\ SendQuit
  /\ app' \in Or("struck", Gone(object, manager))
  /\ UNCHANGED <<heap, connection, block, quitBlock, appClock, told, toldClock, hasty>>

\* loginLinkMicServer with a manager: a block will log out.
ReloginLinkMic ==
  /\ kind = "LinkMic" /\ app = "idle" /\ manager # NULL /\ ~ quitBlock
  /\ quitBlock' = TRUE
  /\ app' = "relogin" /\ appClock' = 0
  /\ UNCHANGED <<heap, connection, session, block, clock, told, toldClock, hasty>>

\* Mutant: logoutLinkMicServer does not look whether there is a manager.
RunQuitBlockUnchecked ==
  /\ quitBlock
  /\ quitBlock' = FALSE
  /\ IF manager # NULL THEN SendQuit /\ UNCHANGED app ELSE app' = "dead" /\ UNCHANGED <<session, clock>>
  /\ UNCHANGED <<heap, connection, block, appClock, told, toldClock, hasty>>

RunQuitBlock ==
  /\ quitBlock /\ Alive
  /\ quitBlock' = FALSE
  /\ IF manager # NULL THEN SendQuit ELSE UNCHANGED <<session, clock>>
  /\ app' \in Or("struck", Gone(object, manager))
  /\ UNCHANGED <<heap, connection, block, appClock, told, toldClock, hasty>>

\* loginVideoChatServer with a manager logs out itself.
ReloginVideoChat ==
  /\ kind = "VideoChat" /\ app = "idle"
  /\ SendQuit
  /\ app' \in {"relogin"} \cup (IF Gone(object, manager) THEN {"struck"} ELSE {})
  /\ appClock' = 0
  /\ hasty' = TRUE
  /\ UNCHANGED <<heap, connection, block, quitBlock, told, toldClock>>

-----------------------------------------------------------------------------
(* The network thread of manager m: IConnectStatusCallback with CS_LOGOUT, *)
(* CS_LOGINFAILED or CS_RELOGIN.  Only a manager that a late block took    *)
(* out of the connection calls nobody any more.                            *)

Ends(m) ==
  /\ Alive /\ object[m] = "alive" /\ connection[m] = "open"
  /\ session[m] \in {"on", "quit"}
  /\ clock' = [clock EXCEPT ![m] = 0]
  /\ UNCHANGED <<heap, connection, quitBlock, appClock, hasty>>

\* A manager without a listener tells nobody.
EndsUnheard(m) ==
  /\ Ends(m) /\ callback[m] = NULL
  /\ session' = [session EXCEPT ![m] = "over"]
  /\ UNCHANGED <<block, app, told, toldClock>>

\* The listener that is called may be deleted.
Called(m) == callback[m] # NULL /\ app' \in Or("dead", Gone(ears, callback[m]))

\* In linkMicMgr.cpp it dispatches disconnect, and sleeps; with no manager it has
\* only the listener to delete.
LinkMicCallback(m) ==
  /\ kind = "LinkMic" /\ Ends(m) /\ Called(m)
  /\ IF manager # NULL
       THEN /\ session' = [session EXCEPT ![m] = "callback"]
            /\ block' = [block EXCEPT ![m] = "queued"]
       ELSE /\ session' = [session EXCEPT ![m] = "cleared"]
            /\ UNCHANGED block
  /\ UNCHANGED <<told, toldClock>>

\* The block reads the global when it runs.
LinkMicBlock(m) ==
  /\ kind = "LinkMic" /\ Alive /\ block[m] = "queued"
  /\ block' = [block EXCEPT ![m] = "done"]
  /\ IF manager = NULL \/ Gone(object, manager) THEN app' = "dead" /\ UNCHANGED connection
     ELSE connection' = [connection EXCEPT ![manager] = "closed"] /\ UNCHANGED app
  /\ UNCHANGED <<heap, session, clock, quitBlock, appClock, told, toldClock, hasty>>

Tells == told' = TRUE /\ toldClock' = 0

\* The callback of m goes on to the next of its lines.
Passes(m, from, to) ==
  /\ Alive /\ session[m] = from
  /\ session' = [session EXCEPT ![m] = to]
  /\ UNCHANGED <<kind, callback, connection, block, clock, quitBlock, appClock, hasty>>

\* Line 53, after the sleep: whoever is in the global is deleted.
DeleteManager(m) ==
  /\ clock[m] >= CloseWait[kind]
  /\ Passes(m, "callback", "freed")
  /\ object' = Without(object, manager)
  /\ app' \in Or("dead", Gone(object, manager))
  /\ UNCHANGED <<manager, listener, ears, told, toldClock>>

\* Mutant: the application is told when the manager is deleted, and not after the listener.
ClearAndTell(m) ==
  /\ Passes(m, "freed", "cleared")
  /\ manager' = NULL
  /\ Tells
  /\ UNCHANGED <<listener, object, ears, app>>

\* Line 54.
ClearManager(m) ==
  /\ Passes(m, "freed", "cleared")
  /\ manager' = NULL
  /\ UNCHANGED <<listener, object, ears, app, told, toldClock>>

\* Line 56.
TestListener(m) ==
  /\ Passes(m, "cleared", IF listener = NULL THEN "telling" ELSE "doomed")
  /\ UNCHANGED <<manager, listener, object, ears, app, told, toldClock>>

\* Line 57: whichever listener is in the global by now.
DeleteListener(m) ==
  /\ Passes(m, "doomed", "unheard")
  /\ ears' = Without(ears, listener)
  /\ app' \in Or("dead", Gone(ears, listener))
  /\ UNCHANGED <<manager, listener, object, told, toldClock>>

\* Line 58.
ClearListener(m) ==
  /\ Passes(m, "unheard", "telling")
  /\ listener' = NULL
  /\ UNCHANGED <<manager, object, ears, app, told, toldClock>>

\* Lines 61-65.
TellApplication(m) ==
  /\ Passes(m, "telling", "over")
  /\ Tells
  /\ UNCHANGED <<manager, listener, object, ears, app>>

LinkMicCallbackEnds(m) ==
  \/ DeleteManager(m) \/ ClearManager(m) \/ TestListener(m)
  \/ DeleteListener(m) \/ ClearListener(m) \/ TellApplication(m)

\* In VideoChatMgr.c a block will disconnect and delete, if there is a manager, and
\* another tells the application.
VideoChatCallback(m) ==
  /\ kind = "VideoChat" /\ Ends(m) /\ Called(m)
  /\ session' = [session EXCEPT ![m] = "over"]
  /\ IF manager # NULL THEN block' = [block EXCEPT ![m] = "queued"] ELSE UNCHANGED block
  /\ Tells

VideoChatBlock(m) ==
  /\ kind = "VideoChat" /\ Alive /\ block[m] = "queued"
  /\ IF manager = NULL \/ Gone(object, manager)
       THEN app' = "dead" /\ UNCHANGED <<connection, block, clock, callback>>
       ELSE /\ connection' = [connection EXCEPT ![manager] = "closed"]
            /\ callback' = [callback EXCEPT ![manager] = NULL]
            /\ block' = [block EXCEPT ![m] = "closing"]
            /\ clock' = [clock EXCEPT ![m] = 0]
            /\ UNCHANGED app
  /\ UNCHANGED <<kind, manager, listener, object, ears, session, quitBlock, appClock, told, toldClock, hasty>>

\* Line 137, after the sleep.
VideoChatDeletes(m) ==
  /\ kind = "VideoChat" /\ Alive
  /\ block[m] = "closing" /\ clock[m] >= CloseWait[kind]
  /\ block' = [block EXCEPT ![m] = "freed"]
  /\ object' = Without(object, manager)
  /\ app' \in Or("dead", Gone(object, manager))
  /\ UNCHANGED <<kind, manager, listener, ears, callback, connection, session, clock, quitBlock,
                 appClock, told, toldClock, hasty>>

\* Line 138.
VideoChatClears(m) ==
  /\ kind = "VideoChat" /\ Alive
  /\ block[m] = "freed"
  /\ block' = [block EXCEPT ![m] = "done"]
  /\ manager' = NULL
  /\ UNCHANGED <<kind, listener, object, ears, callback, connection, session, clock, quitBlock, appVars>>

-----------------------------------------------------------------------------
(* Time.                                                                   *)

Ending == {"callback", "freed"} \cup Leaving
Answering(m) == session[m] = "quit" /\ object[m] = "alive" /\ connection[m] = "open"
Sleeping(m) == session[m] \in Ending \/ block[m] \in {"closing", "freed"}
Timed(m) == Answering(m) \/ Sleeping(m) \/ block[m] = "queued"

\* No answer, block or wake-up is overdue.
InTime(m) ==
  /\ Answering(m) => clock[m] < Answer
  /\ block[m] = "queued" => clock[m] < Dispatch
  /\ Sleeping(m) => clock[m] < CloseWait[kind] + Late

Tick ==
  /\ Alive
  /\ \A m \in Manager : InTime(m)
  /\ quitBlock => appClock < Dispatch
  /\ clock' = [m \in Manager |-> IF Timed(m) THEN clock[m] + 1 ELSE clock[m]]
  /\ appClock' = IF app = "relogin" /\ appClock < ReloginWait[kind] THEN appClock + 1 ELSE appClock
  /\ toldClock' = IF told /\ toldClock < Patience[kind] THEN toldClock + 1 ELSE toldClock
  /\ UNCHANGED <<heap, connection, session, block, quitBlock, app, told, hasty>>

Next ==
  \/ Logout \/ ReloginLinkMic \/ RunQuitBlock \/ ReloginVideoChat \/ Tick
  \/ Listen \/ Connect \/ LoginFails
  \/ \E m \in Manager :
       \/ Login(m) \/ Wake(m) \/ EndsUnheard(m)
       \/ LinkMicCallback(m) \/ LinkMicBlock(m) \/ LinkMicCallbackEnds(m)
       \/ VideoChatCallback(m) \/ VideoChatBlock(m) \/ VideoChatDeletes(m) \/ VideoChatClears(m)

Spec == Init /\ [][Next]_vars

-----------------------------------------------------------------------------
(* Properties.                                                             *)

\* An application that waits for its Patience after it was told finds no manager, and
\* no callback that could still delete its next listener: at once with linkMicMgr.cpp,
\* and in VideoChatMgr.c when the block has had its time to close and delete (39-67;
\* 127-158).
PatienceIsEnough ==
  told /\ toldClock >= Patience[kind] /\ ~ hasty =>
    manager = NULL /\ \A m \in Manager : ~ Timed(m)

\* There is one manager: none is forgotten with its connection open, the global points to
\* a deleted one for no longer than from line 53 to 54, or 137 to 138, and each is deleted
\* by the end of its own session, when its connection is closed (39-59, 190-239; 127-139,
\* 313-357).
OneManagerEach ==
  ~ hasty => \A m \in Manager :
    /\ object[m] = "alive" => m = manager
    /\ m = manager => object[m] = "alive" \/ session[m] = "freed" \/ block[m] = "freed"
    /\ object[m] = "deleted" =>
         session[m] \notin {"on", "quit", "callback"} /\ connection[m] = "closed"
         /\ block[m] \in {"freed", "done"}

\* A connected manager has its listener until it is deleted: no callback of the one before
\* deletes it, nor clears the global before the manager is given it (56-58, 227-229).
OwnListenerEach ==
  ~ hasty => \A m \in Manager :
    object[m] = "alive" /\ connection[m] = "open" =>
      callback[m] = m /\ listener = m /\ ears[m] = "alive"

-----------------------------------------------------------------------------
(* The inductive invariant.                                                *)

\* How far the session, the block and the connection of a live manager m have come.
LinkMicLife(m) ==
  /\ session[m] \in {"on", "quit", "callback"}
  /\ session[m] = "callback" <=> block[m] # "none"
  /\ block[m] \in {"none", "queued", "done"}
  /\ connection[m] = "closed" <=> block[m] = "done"

VideoChatLife(m) ==
  /\ session[m] \in {"on", "quit", "over"}
  /\ session[m] = "over" <=> block[m] # "none"
  /\ block[m] \in {"none", "queued", "closing"}
  /\ connection[m] = "closed" <=> block[m] = "closing"

\* No deadline of m has passed.
Deadlines(m) ==
  /\ session[m] = "quit" => clock[m] <= Answer
  /\ block[m] = "queued" => clock[m] <= Dispatch
  /\ Sleeping(m) => clock[m] <= CloseWait[kind] + Late

\* A login with linkMicMgr.cpp sleeps no longer than the old manager needs to go.
OnTheWayOut(m) ==
  /\ session[m] = "on" => quitBlock
  /\ session[m] = "quit" => appClock <= Dispatch + clock[m]
  /\ session[m] \in Ending => appClock <= Dispatch + Answer + clock[m]

\* With VideoChatMgr.c who was told finds the manager on its way out.
GoneSoon(m) ==
  /\ block[m] # "none"
  /\ block[m] = "queued" => toldClock <= clock[m]
  /\ block[m] \in {"closing", "freed"} => toldClock <= Dispatch + clock[m]

\* What is timed is the manager in use, or the one that just left.
InTurn(m) ==
  /\ object[m] = "unborn" =>
       session[m] = "on" /\ block[m] = "none" /\ connection[m] = "none" /\ ears[m] = "unborn"
  /\ session[m] \in {"quit", "callback", "freed"} \/ block[m] \in {"queued", "closing", "freed"} =>
       m = manager
  /\ session[m] \in Leaving => manager = NULL
  /\ session[m] \in {"freed"} \cup Leaving => kind = "LinkMic"
  /\ session[m] \in {"callback", "freed", "cleared", "doomed"} => listener = m /\ ears[m] = "alive"

\* What the manager in use has come to.
Use(m) ==
  /\ connection[m] = "none" => app \in {"made", "listening"} /\ session[m] = "on"
  /\ app \in {"made", "listening"} => connection[m] = "none"
  /\ app = "listening" => listener = m /\ ears[m] = "alive"
  /\ object[m] = "alive" => IF kind = "LinkMic" THEN LinkMicLife(m) ELSE VideoChatLife(m)
  /\ object[m] = "deleted" => block[m] = IF kind = "LinkMic" THEN "done" ELSE "freed"
  /\ kind = "VideoChat" /\ told => GoneSoon(m)

InUse ==
  /\ app \in {"made", "listening"} => manager # NULL
  /\ manager # NULL => Use(manager)

\* One callback at a time has yet to delete a listener.
OneLeaves == \A m, n \in Manager : session[m] \in Leaving /\ session[n] \in Leaving => m = n

\* What a login that sleeps waits for.
Waiting ==
  /\ quitBlock => app \in {"relogin", "struck"} /\ appClock <= Dispatch
  /\ app = "relogin" =>
       kind = "LinkMic" /\ \A m \in Manager : m = manager \/ session[m] \in Leaving => OnTheWayOut(m)

\* linkMicMgr.cpp tells the application when all is over.
Informed == kind = "LinkMic" /\ told => manager = NULL /\ \A m \in Manager : session[m] \notin Leaving

Listened == kind = "VideoChat" => listener = NULL \/ ears[listener] = "alive"

\* What the sleeps of 218, 51 and 136 and the patience of an application are for.
Orderly ==
  /\ app # "dead"
  /\ OneManagerEach /\ OwnListenerEach
  /\ \A m \in Manager : InTurn(m) /\ Deadlines(m)
  /\ OneLeaves /\ InUse /\ Waiting /\ Informed /\ Listened

MediaFacadesInv == MediaFacadesTypeOK /\ (~ hasty => Orderly)
=============================================================================
