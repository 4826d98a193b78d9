--------------------------- MODULE IntercomFacade ---------------------------
(***************************************************************************)
(* The lives of the managers behind the C interface (IntercomMgr.m).       *)
(*                                                                         *)
(* The interface keeps its one CIntercomManage, and the INetWork that      *)
(* listens to it, in two globals that three threads use without a lock:    *)
(* the application's thread (login, logout), the network thread of a       *)
(* manager (the callback that ends its session), and the block that the    *)
(* callback dispatches to close the connection.  Sleeps alone order them,  *)
(* so the module has a clock: Tick is a unit of time, and a step with a    *)
(* deadline happens before the unit that would miss it.                    *)
(* Nothing orders the last lines of the callback (94-98) against a login   *)
(* that finds no manager any more: such a login is hasty, and the listener *)
(* of its manager may be deleted, or never reach the manager.              *)
(***************************************************************************)
EXTENDS Naturals

CONSTANTS Manager,      \* the objects that new can return
          NULL,
          ReloginWait,  \* the usleep of loginIntercomServer
          CallbackWait, \* the usleep of IConnectStatusCallback
          Answer,       \* longest from QUITSERVER to the callback
          Dispatch,     \* longest from dispatch_async to the block
          Late          \* longest from the end of the callback's sleep to its line 98

\* What the two constants of the code stand for: half a second is enough for
\* the block, a second and a half for the answer and the half second.
ASSUME FacadeAssumption ==
  /\ NULL \notin Manager
  /\ {ReloginWait, CallbackWait, Answer, Dispatch, Late} \subseteq Nat
  /\ Dispatch < CallbackWait
  /\ Answer + CallbackWait + Late < ReloginWait

VARIABLES
  manager,    \* m_intercomManage
  listener,   \* m_INetWork, as the manager it was made for
  object,     \* the CIntercomManage objects
  ears,       \* the INetWork objects, each by the manager it was made for
  callback,   \* m_pINetWorkCallback of each manager
  connection, \* the connection of each (m_ConnectServer)
  session,    \* how far the session of each has ended: see Session
  block,      \* the block dispatched by the callback of each
  clock,      \* time since session changed, while that matters
  app,        \* the application's thread: see App
  appClock,   \* time since it went to sleep
  hasty       \* history: the managers made while a callback was in lines 94-98

vars == <<manager, listener, object, ears, callback, connection, session, block, clock,
          app, appClock, hasty>>
heap == <<manager, listener, object, ears, callback>>

\* "quit": QUITSERVER was sent.  "callback" and "locked" are in the usleep of
\* the callback, "locked" with m_mutex held, as USERQUIT and RELOGIN run it.  Then
\* the callback has passed line 93 ("freed"), 94 ("cleared"), the test of 96
\* ("doomed") and 97 ("unheard").
Session == {"on", "quit", "callback", "locked", "freed", "cleared", "doomed", "unheard", "over"}
InCallback == {"callback", "locked"}
Leaving == {"cleared", "doomed", "unheard"}
Ending == InCallback \cup {"freed"} \cup Leaving
Past93 == {"freed", "over"} \cup Leaving

\* "relogin": in the usleep of loginIntercomServer, which then has passed line
\* 307 ("made"), 310 ("dropped"), 311 ("empty") and 314 ("listening").  "stuck": in
\* logoutServer, which waits for the m_mutex that the callback holds.  "dead": it
\* used a manager that was deleted meanwhile, or its mutex, and did not survive
\* it.  "torn": a listener was deleted twice, or called when deleted, with that
\* end.  "null": the block called a manager that is not there.
Creating == {"made", "dropped", "empty", "listening"}
App == {"idle", "relogin", "stuck", "stuck_relogin", "dead", "torn", "null"} \cup Creating
Alive == app \notin {"dead", "torn", "null"}

FacadeTypeOK ==
  /\ manager \in Manager \cup {NULL} /\ listener \in Manager \cup {NULL}
  /\ object \in [Manager -> {"unborn", "alive", "deleted"}]
  /\ ears \in [Manager -> {"unborn", "alive", "deleted"}]
  /\ callback \in [Manager -> Manager \cup {NULL}]
  /\ connection \in [Manager -> {"none", "open", "closed"}]
  /\ session \in [Manager -> Session]
  /\ block \in [Manager -> {"none", "queued", "done"}]
  /\ clock \in [Manager -> Nat]
  /\ app \in App /\ appClock \in Nat
  /\ hasty \subseteq Manager

Init ==
  /\ manager = NULL /\ listener = NULL
  /\ object = [m \in Manager |-> "unborn"]
  /\ ears = [m \in Manager |-> "unborn"]
  /\ callback = [m \in Manager |-> NULL]
  /\ connection = [m \in Manager |-> "none"]
  /\ session = [m \in Manager |-> "on"]
  /\ block = [m \in Manager |-> "none"]
  /\ clock = [m \in Manager |-> 0]
  /\ app = "idle" /\ appClock = 0
  /\ hasty = {}

\* Deleting m_INetWork, or calling it, when it is already deleted may go unnoticed
\* or kill the program.
Torn == IF listener # NULL /\ ears[listener] = "deleted" THEN {app, "torn"} ELSE {app}
EarsWithout(m) == [o \in Manager |-> IF o = m THEN "deleted" ELSE ears[o]]

-----------------------------------------------------------------------------
(* The application's thread.                                               *)

\* loginIntercomServer at line 307: whatever is in the global is replaced.
Create(m) ==
  /\ object[m] = "unborn"
  /\ manager' = m
  /\ object' = [object EXCEPT ![m] = "alive"]
  /\ app' = "made"
  /\ UNCHANGED <<listener, ears, callback, connection, session, block, clock, appClock>>

\* The test of line 299 finds no manager.
Login(m) ==
  /\ app = "idle" /\ manager = NULL
  /\ Create(m)
  /\ hasty' = IF \E o \in Manager : session[o] \in Leaving THEN hasty \cup {m} ELSE hasty

\* Mutant: loginIntercomServer does not sleep.
WakeAtOnce(m) == app = "relogin" /\ Create(m) /\ UNCHANGED hasty

\* The sleep is over.
Wake(m) == app = "relogin" /\ appClock >= ReloginWait /\ Create(m) /\ UNCHANGED hasty

\* Lines 309-310: the old listener is deleted, if there is one.
DropListener ==
  /\ app = "made"
  /\ IF listener = NULL
       THEN app' = "empty" /\ UNCHANGED ears
       ELSE app' \in (Torn \ {app}) \cup {"dropped"} /\ ears' = EarsWithout(listener)
  /\ UNCHANGED <<manager, listener, object, callback, connection, session, block, clock,
                 appClock, hasty>>

\* Line 311.
ForgetListener ==
  /\ app = "dropped"
  /\ listener' = NULL
  /\ app' = "empty"
  /\ UNCHANGED <<manager, object, ears, callback, connection, session, block, clock,
                 appClock, hasty>>

\* Line 314.
NewListener ==
  /\ app = "empty"
  /\ listener' = manager
  /\ ears' = [ears EXCEPT ![manager] = "alive"]
  /\ app' = "listening"
  /\ UNCHANGED <<manager, object, callback, connection, session, block, clock, appClock, hasty>>

\* Lines 316-320: the manager gets the listener that is in the global by now, and
\* connects.
Connect ==
  /\ app = "listening"
  /\ callback' = [callback EXCEPT ![manager] = listener]
  /\ connection' = [connection EXCEPT ![manager] = "open"]
  /\ app' = "idle"
  /\ UNCHANGED <<manager, listener, object, ears, session, block, clock, appClock, hasty>>

\* logoutServer sends QUITSERVER, if the connection is still there.
SendQuit ==
  /\ manager # NULL /\ object[manager] = "alive" /\ session[manager] # "locked"
  /\ IF session[manager] = "on"
       THEN /\ session' = [session EXCEPT ![manager] = "quit"]
            /\ clock' = [clock EXCEPT ![manager] = 0]
       ELSE UNCHANGED <<session, clock>>

Logout ==
  /\ app = "idle"
  /\ SendQuit
  /\ UNCHANGED <<heap, connection, block, app, appClock, hasty>>

\* loginIntercomServer with a manager: logoutServer, then the sleep.
Relogin ==
  /\ app = "idle"
  /\ SendQuit
  /\ app' = "relogin"
  /\ appClock' = 0
  /\ UNCHANGED <<heap, connection, block, hasty>>

\* logoutServer of a manager that line 93 has deleted and line 94 not yet cleared,
\* called by a logout or a login.
CallDeleted ==
  /\ app = "idle" /\ manager # NULL /\ object[manager] = "deleted"
  /\ app' \in {"idle", "relogin", "dead"}
  /\ appClock' = 0
  /\ UNCHANGED <<heap, connection, session, block, clock, hasty>>

\* logoutServer waits for m_mutex in closeMediaSender.
Stuck(state) ==
  /\ app = "idle" /\ manager # NULL /\ session[manager] = "locked"
  /\ state \in {"stuck", "stuck_relogin"}
  /\ app' = state
  /\ UNCHANGED <<heap, connection, session, block, clock, appClock, hasty>>

\* The manager is gone, with its mutex: the lock may succeed or kill.
Unstuck ==
  /\ app \in {"stuck", "stuck_relogin"} /\ \A m \in Manager : session[m] # "locked"
  /\ app' \in {IF app = "stuck" THEN "idle" ELSE "relogin", "dead"}
  /\ appClock' = 0
  /\ UNCHANGED <<heap, connection, session, block, clock, hasty>>

-----------------------------------------------------------------------------
(* The network thread of manager m: IConnectStatusCallback with CS_LOGOUT, *)
(* CS_LOGINFAILED, CS_RELOGIN or CS_DISCONNECTED.                          *)

\* With no manager, line 83, there is only the listener to delete.  The callback of a
\* listener that was deleted may run like any other.
CallbackBegins(m, how) ==
  /\ Alive /\ connection[m] # "none" /\ callback[m] # NULL
  /\ IF manager # NULL
       THEN /\ session' = [session EXCEPT ![m] = how]
            /\ block' = [block EXCEPT ![m] = "queued"]
       ELSE session' = [session EXCEPT ![m] = "cleared"] /\ UNCHANGED block
  /\ clock' = [clock EXCEPT ![m] = 0]
  /\ app' \in IF ears[callback[m]] = "deleted" THEN {app, "torn"} ELSE {app}
  /\ UNCHANGED <<heap, connection, appClock, hasty>>

\* USERQUIT, the answer to QUITSERVER.
UserQuit(m) == session[m] = "quit" /\ CallbackBegins(m, "locked")

\* The network or a refused login ends the session first, or a login elsewhere
\* does, which is RELOGIN.
Ended(m) == session[m] \in {"on", "quit"} /\ \E how \in InCallback : CallbackBegins(m, how)

\* Any of these, in a manager without a listener: nobody is told.
EndsUnheard(m) ==
  /\ Alive /\ connection[m] # "none" /\ callback[m] = NULL
  /\ session[m] \in {"on", "quit"}
  /\ session' = [session EXCEPT ![m] = "over"]
  /\ UNCHANGED <<heap, connection, block, clock, app, appClock, hasty>>

\* The block reads the global when it runs: disconnect, of whoever is there.
RunBlock(m) ==
  /\ Alive /\ block[m] = "queued"
  /\ block' = [block EXCEPT ![m] = "done"]
  /\ IF manager = NULL \/ object[manager] = "deleted"
       THEN app' = "null" /\ UNCHANGED connection
       ELSE connection' = [connection EXCEPT ![manager] = "closed"] /\ UNCHANGED app
  /\ UNCHANGED <<heap, session, clock, appClock, hasty>>

\* The callback of m goes on to the next of its lines.
Passes(m, from, to) ==
  /\ Alive /\ session[m] = from
  /\ session' = [session EXCEPT ![m] = to]
  /\ UNCHANGED <<callback, connection, block, clock, appClock, hasty>>

\* Line 93, after the sleep: whoever is in the global is deleted.
CallbackDeletes(m) ==
  /\ \E how \in InCallback : Passes(m, how, "freed")
  /\ object' = [o \in Manager |-> IF o = manager THEN "deleted" ELSE object[o]]
  /\ UNCHANGED <<manager, listener, ears, app>>

\* Mutant: the callback does not sleep.
DeleteAtOnce(m) == CallbackDeletes(m)

\* Mutant: the destructor of the manager takes m_mutex.
DeleteWithMutex(m) == clock[m] >= CallbackWait /\ session[m] # "locked" /\ CallbackDeletes(m)

DeleteManager(m) == clock[m] >= CallbackWait /\ CallbackDeletes(m)

\* Line 94.
ClearManager(m) ==
  /\ Passes(m, "freed", "cleared")
  /\ manager' = NULL
  /\ UNCHANGED <<listener, object, ears, app>>

\* Line 96.
TestListener(m) ==
  /\ Passes(m, "cleared", IF listener = NULL THEN "over" ELSE "doomed")
  /\ UNCHANGED <<manager, listener, object, ears, app>>

\* Line 97: whichever listener is in the global by now.
DeleteListener(m) ==
  /\ Passes(m, "doomed", "unheard")
  /\ ears' = EarsWithout(listener)
  /\ app' \in Torn
  /\ UNCHANGED <<manager, listener, object>>

\* Mutant: the global still points to the deleted listener.
KeepListener(m) == Passes(m, "unheard", "over") /\ UNCHANGED <<manager, listener, object, ears, app>>

\* Line 98.
ClearListener(m) ==
  /\ Passes(m, "unheard", "over")
  /\ listener' = NULL
  /\ UNCHANGED <<manager, object, ears, app>>

CallbackEnds(m) ==
  \/ DeleteManager(m) \/ ClearManager(m)
  \/ TestListener(m) \/ DeleteListener(m) \/ ClearListener(m)

-----------------------------------------------------------------------------
(* Time.                                                                   *)

\* No answer, block or wake-up is overdue.
InTime(m) ==
  /\ session[m] = "quit" => clock[m] < Answer
  /\ block[m] = "queued" => clock[m] < Dispatch
  /\ session[m] \in Ending => clock[m] < CallbackWait + Late

Tick ==
  /\ Alive
  /\ \A m \in Manager : InTime(m)
  /\ clock' = [m \in Manager |->
       IF session[m] \in {"quit"} \cup Ending THEN clock[m] + 1 ELSE clock[m]]
  /\ appClock' = IF app = "relogin" /\ appClock < ReloginWait THEN appClock + 1 ELSE appClock
  /\ UNCHANGED <<heap, connection, session, block, app, hasty>>

Finish == DropListener \/ ForgetListener \/ NewListener \/ Connect

Next ==
  \/ Logout \/ Relogin \/ CallDeleted \/ Unstuck \/ Finish \/ Tick
  \/ \E state \in App : Stuck(state)
  \/ \E m \in Manager : \/ Login(m) \/ Wake(m)
                        \/ UserQuit(m) \/ Ended(m) \/ EndsUnheard(m)
                        \/ RunBlock(m) \/ CallbackEnds(m)

Spec == Init /\ [][Next]_vars

\* Every thread runs, and time passes.
FairSpec ==
  /\ Spec
  /\ WF_vars(Tick) /\ WF_vars(Unstuck) /\ WF_vars(Finish)
  /\ WF_vars(\E m \in Manager : Wake(m))
  /\ \A m \in Manager : /\ WF_vars(UserQuit(m)) /\ WF_vars(EndsUnheard(m) /\ session[m] = "quit")
                        /\ WF_vars(RunBlock(m)) /\ WF_vars(CallbackEnds(m))

-----------------------------------------------------------------------------
(* Properties.                                                             *)

\* The manager connected without a listener, and nobody will delete it.
Deaf(m) == object[m] = "alive" /\ connection[m] # "none" /\ callback[m] = NULL

\* There is one manager: none is forgotten with its connection open, but one that
\* a hasty login left without a listener, and the interface points to one that is
\* deleted for no longer than from line 93 to 94 (93-98, 307-316).
OneManager ==
  \A m \in Manager :
    /\ object[m] = "alive" => m = manager \/ (Deaf(m) /\ m \in hasty)
    /\ m = manager => object[m] = "alive" \/ session[m] = "freed"

\* A manager is deleted by its own callback, never by the late one of the
\* manager before it, and only when its connection is closed (88, 93).
OwnEnd ==
  \A m \in Manager : object[m] = "deleted" => session[m] \in Past93 /\ connection[m] = "closed"

\* A manager that was not made in haste has its listener as long as its session
\* lasts, whatever the logins before it left behind: the callback of the manager
\* before it does not delete it, nor clear the global between lines 314 and 316
\* (94-98, 309-316).
OwnListener ==
  \A m \in Manager \ hasty : object[m] = "alive" /\ connection[m] # "none" =>
    callback[m] = m /\ listener = m /\ ears[m] = "alive"

\* The block that closes the connection finds a manager (88).
NoNullCall == app # "null"

\* The refinement mapping.
S == INSTANCE Slot WITH
  slot <- IF manager # NULL /\ Deaf(manager) THEN NULL ELSE manager,
  open <- \E m \in Manager : m = manager /\ ~ Deaf(m) /\ connection[m] # "closed",
  used <- {m \in Manager : object[m] # "unborn"},
  early <- \E m \in hasty : m = manager /\ ~ Deaf(m),
  going <- \E m \in Manager : session[m] \in Leaving

\* The interface implements Slot: a manager is taken when there is none, and let go
\* when its connection is closed; only one that was taken before the callback of
\* the last had ended may be lost (79-100, 299-321).
ImplementsSlot == S!Spec

\* A user who logs in again gets a new manager, however the old session ends,
\* unless the program dies of a manager that is deleted under it (299-321).
LoggedInAgain ==
  app \in {"relogin", "stuck_relogin"} /\ (\E m \in Manager : object[m] = "unborn")
    ~> app \in {"idle", "dead", "torn"}

-----------------------------------------------------------------------------
(* The inductive invariant.                                                *)

\* How far manager m has come: its object, its connection, the callback that
\* ends its session and the block that closes its connection go together.
Life(m) ==
  /\ connection[m] = "none" => session[m] = "on" /\ callback[m] = NULL
  /\ object[m] = "unborn" => connection[m] = "none" /\ ears[m] = "unborn" /\ m \notin hasty
  /\ object[m] = "alive" /\ connection[m] = "none" => m = manager /\ app \in Creating \cup {"torn"}
  /\ object[m] = "deleted" => connection[m] # "none" /\ callback[m] # NULL
  /\ callback[m] \in {m, NULL}
  /\ connection[m] # "none" /\ callback[m] # NULL =>
       /\ object[m] = "deleted" <=> session[m] \in Past93
       /\ block[m] = "none" <=> session[m] \in {"on", "quit"}
       /\ block[m] = "done" <=> connection[m] = "closed"
  /\ callback[m] = NULL =>
       /\ session[m] \in {"on", "quit", "over"} /\ block[m] = "none" /\ connection[m] # "closed"
       /\ m # manager /\ object[m] = "alive" => session[m] = "over"
  /\ session[m] \in InCallback \cup {"freed"} => m = manager
  /\ m = manager \/ object[m] = "unborn" => session[m] \notin Leaving

\* No deadline of manager m has passed.
Deadlines(m) ==
  /\ session[m] = "quit" => clock[m] <= Answer
  /\ block[m] = "queued" => session[m] \in InCallback /\ clock[m] <= Dispatch
  /\ session[m] \in Ending => clock[m] <= CallbackWait + Late

\* While the application sleeps in loginIntercomServer, the old manager is on its way
\* out, and the sleep is not longer than the way.
OnTheWayOut(m) ==
  /\ m = manager => session[m] # "on"
  /\ session[m] = "quit" => appClock <= clock[m]
  /\ session[m] \in Ending => appClock <= Answer + clock[m]

\* What the application's thread is in the middle of.
Busy ==
  /\ app \in Creating =>
       manager # NULL /\ object[manager] = "alive" /\ connection[manager] = "none"
  /\ app \in {"stuck", "stuck_relogin"} =>
       \A m \in Manager : m = manager => session[m] \in {"locked", "freed"}
  /\ app = "relogin" => \A m \in Manager : OnTheWayOut(m)

\* A manager that was not made in haste is there when no callback is left that could
\* take its listener away; there are two such callbacks only after a hasty login.
Haste ==
  /\ manager # NULL /\ manager \notin hasty => \A m \in Manager : session[m] \notin Leaving
  /\ \A m, n \in Manager : session[m] \in Leaving /\ session[n] \in Leaving => m = n \/ hasty # {}

\* Without haste no listener is forgotten, and a deleted one stays in the global only
\* from line 97 to 98 and from 310 to 311.
Listeners ==
  /\ \A m \in Manager : ears[m] = "alive" /\ m \notin hasty => listener = m
  /\ listener # NULL => ears[listener] # "unborn"
  /\ app = "dropped" \/ (\E m \in Manager : session[m] = "unheard") =>
       listener = NULL \/ listener \in hasty \/ ears[listener] = "deleted"
  /\ listener # NULL /\ ears[listener] = "deleted" =>
       hasty # {} \/ app = "dropped" \/ \E m \in Manager : session[m] = "unheard"
  /\ app = "empty" => listener = NULL
  /\ app = "listening" => listener \in {manager, NULL}
  /\ app = "listening" /\ manager \notin hasty => listener = manager /\ ears[manager] = "alive"
  /\ app = "torn" => hasty # {}

\* What the sleeps of lines 91 and 303 are for.
FacadeInv ==
  /\ FacadeTypeOK
  /\ OneManager /\ OwnListener /\ NoNullCall
  /\ Busy /\ Haste /\ Listeners
  /\ \A m \in Manager : Life(m) /\ Deadlines(m)
=============================================================================
