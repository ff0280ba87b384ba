---------------------------- MODULE ManagerLogin ----------------------------
(***************************************************************************)
(* Logging in and out of LiveChatManManager, and its logging in again by   *)
(* itself.  A login restarts the client's connection and, the first time,  *)
(* the manager's request thread; a lost connection puts a task into        *)
(* m_requestQueue, with which the request thread logs in again.  The       *)
(* receive thread of the client calls OnLogin and OnLogout, which may stop *)
(* the request thread, while whoever restarts the connection waits for the *)
(* receive thread.                                                         *)
(***************************************************************************)
EXTENDS Naturals, FiniteSets

CONSTANTS RequestThreads,  \* the request threads there may be at a time
          NoThread,
          Scenarios        \* what is to be told apart, one of which each behaviour begins with

\* early: may the connection fail before Login has returned?  silent: may it be lost before
\* the version check was answered?  resets: what Logout is called with.  The rest are bounds:
\* calls of Login, Logout and Relogin, and connections that the server closes.
ASSUME LoginAssumption ==
    /\ NoThread \notin RequestThreads \union {"app", "recv"}
    /\ RequestThreads \intersect {"app", "recv"} = {}
    /\ Scenarios \subseteq [early : BOOLEAN, silent : BOOLEAN, resets : SUBSET BOOLEAN,
                            login : Nat, logout : Nat, relogin : Nat, loss : Nat]

VARIABLES scenario, isLogin, isAutoLogin, isResetParam,
          account,       \* whether m_userId and the rest are set
          relogins,      \* REQUEST_TASK_AutoRelogin tasks in the queue
          timers,        \* REQUEST_TASK_ReleasePhotoDownloader tasks, each of which goes on for
                         \* ever: 0, 1 or, for more, 2
          requestThread, \* m_requestThread
          threadStart,   \* m_requestThreadStart
          pc,            \* where the application, the receive and the request threads are
          recv,          \* what the receive thread is about
          started,       \* CTaskManager::m_bStart
          shut,          \* whether the connection was shut down by Stop
          startLock,     \* m_startLock of the transport
          calls,         \* what the application and the server did
          crossed        \* whether two logins have restarted the connection at once, in a
                         \* steady scenario

flags == <<isLogin, isAutoLogin, isResetParam, account>>
queue == <<relogins, timers>>
request == <<requestThread, threadStart>>
client == <<recv, started, shut, startLock>>
loginVars == <<flags, queue, request, pc, client, calls>>

Procs == {"app", "recv"} \union RequestThreads

\* A login that has restarted the connection and not returned yet.
Returning == {"started", "threads", "threads join", "create", "auto"}
\* A login that is about to restart it, or has.
Restarting == {"connect", "stop", "stop join", "start"} \union Returning
Crossing == \E p, q \in Procs : p # q /\ pc[p] \in Restarting /\ pc[q] \in Restarting
Noticed == scenario.early \/ \A p \in Procs : pc[p] \notin Returning

LoginInit ==
    /\ scenario \in Scenarios
    /\ isLogin = FALSE /\ isAutoLogin = FALSE /\ isResetParam = FALSE /\ account = FALSE
    /\ relogins = 0 /\ timers = 0
    /\ requestThread = NoThread /\ threadStart = FALSE
    /\ pc = [p \in Procs |-> IF p \in RequestThreads THEN "ended" ELSE "idle"]
    /\ recv = "none" /\ started = FALSE /\ shut = FALSE /\ startLock = NoThread
    /\ calls = [login |-> 0, logout |-> 0, relogin |-> 0, loss |-> 0] /\ crossed = FALSE

At(p, from, to) == pc[p] = from /\ pc' = [pc EXCEPT ![p] = to]
Counted(what) == calls[what] < scenario[what] /\ calls' = [calls EXCEPT ![what] = @ + 1]

-----------------------------------------------------------------------------
(* Calls of the application                                                *)

CallLogin == /\ At("app", "idle", "login") /\ Counted("login")
             /\ UNCHANGED <<flags, queue, request, client>>

\* Logout, up to the client's.
CallLogout ==
    /\ At("app", "idle", "bye") /\ Counted("logout")
    /\ \E reset \in scenario.resets : isResetParam' = reset
    /\ isAutoLogin' = FALSE
    /\ UNCHANGED <<isLogin, account, queue, request, client>>

CallRelogin == /\ At("app", "idle", "again") /\ Counted("relogin")
               /\ UNCHANGED <<flags, queue, request, client>>

-----------------------------------------------------------------------------
(* Login, by the application or by AutoRelogin of a request thread         *)

LoginCheck(p) ==
    /\ pc[p] = "login"
    /\ pc' = [pc EXCEPT ![p] = IF isLogin THEN "idle"
                               ELSE IF ~isAutoLogin /\ isResetParam THEN "reset" ELSE "connect"]
    /\ UNCHANGED <<flags, queue, request, client, calls>>

\* StopRequestThread: a thread that is to wait for itself is told so and goes on.
StopThread(p, from, join, next) ==
    /\ pc[p] = from
    /\ IF requestThread = NoThread THEN pc' = [pc EXCEPT ![p] = next] /\ UNCHANGED threadStart
                               ELSE pc' = [pc EXCEPT ![p] = join] /\ threadStart' = FALSE
    /\ UNCHANGED <<flags, queue, requestThread, client, calls>>

JoinThread(p, join, next) ==
    /\ pc[p] = join
    /\ requestThread \in {NoThread, p} \/ (requestThread \in Procs /\ pc[requestThread] = "ended")
    /\ requestThread' = NoThread
    /\ pc' = [pc EXCEPT ![p] = next]
    /\ UNCHANGED <<flags, queue, threadStart, client, calls>>

\* ResetParamWithNotAutoLogin, of a login or of the receive thread's callbacks.
Reset(p) ==
    \/ StopThread(p, "reset", "reset join", "clear")
    \/ JoinThread(p, "reset join", "clear")
    \/ /\ At(p, "clear", IF p = "recv" THEN "idle" ELSE "connect")
       /\ relogins' = 0 /\ timers' = 0 /\ account' = FALSE
       /\ UNCHANGED <<isLogin, isAutoLogin, isResetParam, request, client, calls>>

\* CLiveChatClient::Login.  AutoRelogin hands on m_userId by reference.
Connect(p) ==
    /\ pc[p] = "connect"
    /\ pc' = [pc EXCEPT ![p] = IF p # "app" /\ ~account THEN "idle" ELSE IF started THEN "stop" ELSE "start"]
    /\ UNCHANGED <<flags, queue, request, client, calls>>

\* CTransportDataHandler::Stop of a login, a logout or a Relogin.
Stops == {<<"stop", "stop join", "start">>, <<"bye", "bye join", "idle">>, <<"again", "again join", "ask">>}
Stop(p) ==
    /\ startLock = NoThread
    /\ \E s \in Stops : At(p, s[1], s[2])
    /\ startLock' = p /\ shut' = TRUE
    /\ UNCHANGED <<flags, queue, request, recv, started, calls>>
StopJoin(p) ==
    /\ recv \in {"none", "done"} /\ pc["recv"] = "idle"
    /\ \E s \in Stops : At(p, s[2], s[3])
    /\ recv' = "none" /\ started' = FALSE /\ shut' = FALSE /\ startLock' = NoThread
    /\ UNCHANGED <<flags, queue, request, calls>>

Start(p) ==
    /\ startLock = NoThread /\ At(p, "start", "started")
    /\ started' = TRUE
    /\ recv' = IF started THEN recv ELSE "connecting"
    /\ UNCHANGED <<flags, queue, request, shut, startLock, calls>>

\* The rest of Login: the first time the request thread is started.
Started(p) ==
    /\ pc[p] = "started" /\ pc' = [pc EXCEPT ![p] = IF isAutoLogin THEN "idle" ELSE "threads"]
    /\ UNCHANGED <<flags, queue, request, client, calls>>
StartRequestThread(p) ==
    \/ StopThread(p, "threads", "threads join", "create")
    \/ JoinThread(p, "threads join", "create")
    \/ /\ pc[p] = "create"
       /\ \E r \in RequestThreads \ {p} :
            /\ pc[r] = "ended" /\ requestThread' = r /\ threadStart' = TRUE
            /\ pc' = [pc EXCEPT ![p] = "auto", ![r] = "idle"]
       /\ UNCHANGED <<flags, queue, client, calls>>

\* Slip: the account is not noted.
SetParamsBare(p) ==
    /\ At(p, "auto", "idle")
    /\ isAutoLogin' = TRUE
    /\ UNCHANGED <<isLogin, isResetParam, account, queue, request, client, calls>>

SetParams(p) ==
    /\ At(p, "auto", "idle")
    /\ isAutoLogin' = TRUE /\ account' = TRUE
    /\ UNCHANGED <<isLogin, isResetParam, queue, request, client, calls>>

\* Relogin asks for a login of its own, besides the one that OnLogout asks for.
AskRelogin ==
    /\ At("app", "ask", "idle")
    /\ relogins' = relogins + 1
    /\ UNCHANGED <<flags, timers, request, client, calls>>

-----------------------------------------------------------------------------
(* The request threads                                                     *)

ThreadEnds(r) ==
    /\ ~threadStart /\ At(r, "idle", "ended")
    /\ UNCHANGED <<flags, queue, request, client, calls>>

AutoRelogin(r) ==
    /\ threadStart /\ relogins > 0 /\ relogins' = relogins - 1
    /\ pc[r] = "idle" /\ pc' = [pc EXCEPT ![r] = IF account THEN "login" ELSE "idle"]
    /\ UNCHANGED <<flags, timers, request, client, calls>>

-----------------------------------------------------------------------------
(* The receive thread                                                      *)

Receives == pc["recv"] = "idle"

\* ConnectProc.  One that was shut down may still have connected, and then nobody is told.
Connected ==
    /\ Receives /\ recv = "connecting" /\ recv' \in {IF shut THEN "done" ELSE "version", "failed"}
    /\ UNCHANGED <<flags, queue, request, pc, started, shut, startLock, calls>>

\* The version check was answered; or the connection is lost before, which its task keeps
\* to itself.
VersionChecked ==
    /\ Receives /\ recv = "version"
    /\ \/ ~shut /\ recv' = "login"
       \/ (shut \/ scenario.silent) /\ recv' = "done"
    /\ UNCHANGED <<flags, queue, request, pc, started, shut, startLock, calls>>

\* The manager is told of a failed login or a lost one: IsAutoRelogin says what follows.
Again ==
    IF isAutoLogin THEN relogins' = relogins + 1 /\ UNCHANGED pc
                   ELSE /\ pc' = [pc EXCEPT !["recv"] = IF isResetParam THEN "reset" ELSE "idle"]
                        /\ UNCHANGED relogins

\* OnLogin with LCC_ERR_CONNECTFAIL.
LoginFailed ==
    /\ Receives /\ recv \in {"failed", "login"} /\ Noticed
    /\ recv = "login" => shut \/ calls.loss < scenario.loss
    /\ calls' = IF recv = "login" /\ ~shut THEN [calls EXCEPT !.loss = @ + 1] ELSE calls
    /\ recv' = "done"
    /\ Again
    /\ UNCHANGED <<flags, timers, request, started, shut, startLock>>

\* OnLogin with another error, of the version check or the login.
LoginRefused ==
    /\ Receives /\ recv \in {"version", "login"} /\ ~shut /\ Noticed
    /\ recv' = "rejected"
    /\ isAutoLogin' = FALSE
    /\ pc' = [pc EXCEPT !["recv"] = IF isResetParam THEN "reset" ELSE "idle"]
    /\ UNCHANGED <<isLogin, isResetParam, account, queue, request, started, shut, startLock, calls>>

\* OnLogin: each success starts the tasks that release downloaders.
LoggedIn ==
    /\ Receives /\ recv = "login" /\ ~shut
    /\ recv' = "session"
    /\ isLogin' = TRUE /\ timers' = IF timers = 0 THEN 1 ELSE 2
    /\ UNCHANGED <<isAutoLogin, isResetParam, account, relogins, request, pc, started, shut, startLock, calls>>

\* Slip: a loss that is not followed by a login goes unnoticed.
LoggedOutKept ==
    /\ Receives /\ recv \in {"session", "rejected"} /\ (shut \/ (calls.loss < scenario.loss /\ Noticed))
    /\ calls' = IF shut THEN calls ELSE [calls EXCEPT !.loss = @ + 1]
    /\ recv' = "done"
    /\ IF isLogin THEN Again ELSE UNCHANGED <<relogins, pc>>
    /\ isLogin' = (isLogin /\ ~isAutoLogin)
    /\ UNCHANGED <<isAutoLogin, isResetParam, account, timers, request, started, shut, startLock>>

\* Slip: the task of the next login is forgotten.
LoggedOutOnly ==
    /\ Receives /\ recv \in {"session", "rejected"} /\ (shut \/ (calls.loss < scenario.loss /\ Noticed))
    /\ calls' = IF shut THEN calls ELSE [calls EXCEPT !.loss = @ + 1]
    /\ recv' = "done"
    /\ isLogin' = FALSE
    /\ UNCHANGED <<relogins, pc>>
    /\ UNCHANGED <<isAutoLogin, isResetParam, account, timers, request, started, shut, startLock>>

\* OnLogout.
LoggedOut ==
    /\ Receives /\ recv \in {"session", "rejected"} /\ (shut \/ (calls.loss < scenario.loss /\ Noticed))
    /\ calls' = IF shut THEN calls ELSE [calls EXCEPT !.loss = @ + 1]
    /\ recv' = "done"
    /\ IF isLogin THEN Again ELSE UNCHANGED <<relogins, pc>>
    /\ isLogin' = FALSE
    /\ UNCHANGED <<isAutoLogin, isResetParam, account, timers, request, started, shut, startLock>>

LoginStep(p) == LoginCheck(p) \/ Reset(p) \/ Connect(p) \/ Stop(p) \/ StopJoin(p) \/ Start(p)
                  \/ Started(p) \/ StartRequestThread(p) \/ SetParams(p)
RecvStep == Connected \/ VersionChecked \/ LoginFailed \/ LoginRefused \/ LoggedIn \/ LoggedOut

ManagerStep ==
    \/ CallLogin \/ CallLogout \/ CallRelogin \/ AskRelogin
    \/ \E p \in Procs : LoginStep(p)
    \/ \E r \in RequestThreads : ThreadEnds(r) \/ AutoRelogin(r)
    \/ RecvStep

\* Nobody logs out, no connection fails while Login still runs (which sets m_isAutoLogin only
\* at its end), and none is lost during the version check (which nobody is told of).
SteadyLogin == scenario.logout = 0 /\ ~scenario.early /\ ~scenario.silent

LoginNext == ManagerStep /\ crossed' = (crossed \/ (SteadyLogin /\ Crossing')) /\ UNCHANGED scenario

\* The threads go on; the client's connection attempts and what it sent are answered or fail,
\* and a connection that is shut is noticed.  (Asked for where something is to follow from it.)
LoginFairness ==
    /\ \A p \in Procs : SF_loginVars(SteadyLogin /\ LoginStep(p))
    /\ \A r \in RequestThreads : /\ WF_loginVars(SteadyLogin /\ ThreadEnds(r))
                                /\ SF_loginVars(SteadyLogin /\ AutoRelogin(r))
    /\ WF_loginVars(SteadyLogin /\ AskRelogin)
    /\ WF_loginVars(SteadyLogin /\ Connected) /\ WF_loginVars(SteadyLogin /\ VersionChecked)
    /\ WF_loginVars(SteadyLogin /\ (LoginFailed \/ LoggedIn)) /\ WF_loginVars(SteadyLogin /\ shut /\ LoggedOut)

LoginSpec == LoginInit /\ [][LoginNext]_<<loginVars, crossed, scenario>> /\ LoginFairness

-----------------------------------------------------------------------------
(* What is to hold                                                         *)

LoginTypeOK ==
    /\ scenario \in Scenarios
    /\ {isLogin, isAutoLogin, isResetParam, account, threadStart, started, shut} \subseteq BOOLEAN
    /\ relogins \in Nat /\ timers \in 0 .. 2
    /\ requestThread \in RequestThreads \union {NoThread} /\ startLock \in Procs \union {NoThread}
    /\ DOMAIN pc = Procs /\ pc["recv"] \in {"idle", "reset", "reset join", "clear"}
    /\ recv \in {"none", "connecting", "failed", "version", "login", "rejected", "session", "done"}
    /\ recv \notin {"none", "done"} => started

\* The manager takes itself for logged in only while the receive thread lives that will tell
\* it otherwise (OnLogin and OnLogout against the logins, logouts and restarts of other
\* threads).
SessionAlive == isLogin => recv = "session"

\* Well typed, and logged in only with a live connection, in every state of the manager.
LoginInv == LoginTypeOK /\ SessionAlive

\* In a steady scenario, while the manager is to log in again by itself and no two logins have
\* crossed, it is logged in, a login is under way or a task for one is queued.  (InsertReloginTask,
\* from OnLogin and OnLogout.  Of two logins that cross, one may take the connection of the other
\* for its own, as CTaskManager::Start does, and note m_isAutoLogin when that has been refused and
\* lost.)
Pending ==
    SteadyLogin /\ isAutoLogin /\ ~crossed =>
        \/ isLogin \/ relogins > 0 \/ recv \notin {"none", "done"}
        \/ \E p \in Procs : pc[p] \notin {"idle", "ended"}

\* There a manager that has lost its connection connects again or gives it up.  (AutoRelogin.)
Reconnects ==
    SteadyLogin => ((isAutoLogin /\ recv = "done") ~> (recv = "connecting" \/ ~isAutoLogin \/ crossed))
=============================================================================
