-------------------------- MODULE LiveChatTransport --------------------------
(***************************************************************************)
(* The connection of the live chat client (common-c-library/livechat):     *)
(* CLiveChatClient over CTaskManager over CTransportDataHandler.  Five     *)
(* threads meet in it: the one that logs in and out, a user that sends     *)
(* requests, the receive thread, which connects, reads and calls back, the *)
(* send thread, and the heartbeat thread.  A request ("task") goes from    *)
(* m_sendTaskList through the send thread's hands into m_requestTaskMap,   *)
(* and is called back and deleted with its answer or when the connection   *)
(* ends.  A task is its seq; the packet of a task is the task.             *)
(***************************************************************************)
EXTENDS Naturals, Sequences, FiniteSets, SequencesExt

CONSTANT Setups   \* what is to be told apart, one of which each behaviour begins with

\* ips: the addresses of the server.  The rest are bounds: logins, requests of the user and
\* heartbeats.
ASSUME TransportAssumption == Setups \subseteq [ips : Nat \ {0}, conns : Nat, sends : Nat, beats : Nat]

VARIABLES setup,
          app,       \* where the login thread is
          bStart,    \* CTransportDataHandler::m_bStart
          mgrStart,  \* CTaskManager::m_bStart
          sock,      \* the socket of the connection
          peer,      \* whether the server keeps the connection
          recv,      \* where the receive thread is
          send,      \* where the send thread is
          beat,      \* where the heartbeat thread is; beatRun is m_isHearbeatThreadRun
          beatRun,
          user,      \* the request that the user is about to queue, 0 for none
          loggedIn,  \* the listener was told that login succeeded
          kinds,     \* the kind of each task made, by its seq
          sendList,  \* m_sendTaskList
          listHeld,  \* the receive thread holds m_sendTaskListLock in DisconnectCallback
          taskMap,   \* m_requestTaskMap
          inflight,  \* tasks that the server may answer
          freed,     \* tasks that were deleted
          lost,      \* tasks whose packing or sending failed, that nobody holds
          counts     \* what happened so far of what the setup bounds

lists == <<sendList, taskMap, inflight, freed, lost>>
start == <<bStart, mgrStart>>
beating == <<beat, beatRun>>
vars == <<app, start, sock, peer, recv, send, beating, user, loggedIn, kinds, lists, listHeld, counts>>

\* The request that a finished one leads to (OnTaskDone), and those that wait for no answer.
Follow == [ver |-> "login", login |-> "devid", devid |-> "devtype"]
NoAnswer == {"beat", "devid", "devtype"}

Idle == [at |-> "none"]
Count(what) == counts[what] < setup[what] /\ counts' = [counts EXCEPT ![what] = @ + 1]

Init ==
    /\ setup \in Setups
    /\ app = "out" /\ bStart = FALSE /\ mgrStart = FALSE /\ sock = "none" /\ peer = FALSE
    /\ recv = Idle /\ send = Idle /\ beat = "none" /\ beatRun = FALSE
    /\ user = 0 /\ loggedIn = FALSE /\ kinds = <<>>
    /\ sendList = <<>> /\ listHeld = FALSE /\ taskMap = {} /\ inflight = {} /\ freed = {} /\ lost = {}
    /\ counts = [conns |-> 0, sends |-> 0, beats |-> 0]

-----------------------------------------------------------------------------
\* Slip: the flag that the send thread looks at stays set.
DisconnectProcStarted ==
    /\ UNCHANGED bStart
    /\ sock' = CASE sock = "connecting" -> "closed" [] sock = "open" -> "shut" [] OTHER -> sock

\* DisconnectProc: a socket that is connecting is closed, any other shut down, which does
\* nothing to one that has not begun to connect.
DisconnectProc ==
    /\ bStart' = FALSE
    /\ sock' = CASE sock = "connecting" -> "closed" [] sock = "open" -> "shut" [] OTHER -> sock

\* A new task of a kind, in the send list if the handler is started and leaked otherwise.
Queued(kind) ==
    /\ kinds' = Append(kinds, kind)
    /\ sendList' = IF bStart THEN Append(sendList, Len(kinds) + 1) ELSE sendList
    /\ UNCHANGED <<taskMap, inflight, freed, lost>>

-----------------------------------------------------------------------------
(* Login, Logout, ConnectServer: CTaskManager and CTransportDataHandler    *)

\* ConnectServer stops a manager that is started, and starts it.
Login ==
    /\ app \in {"out", "in"} /\ Count("conns")
    /\ app' = IF mgrStart THEN "stop for login" ELSE "create"
    /\ UNCHANGED <<start, sock, peer, recv, send, beating, user, loggedIn, kinds, lists, listHeld>>

Logout ==
    /\ app = "in" /\ app' = "stop"
    /\ UNCHANGED <<start, sock, peer, recv, send, beating, user, loggedIn, kinds, lists, listHeld, counts>>

\* StopProc: disconnect ...
Stop ==
    /\ app \in {"stop", "stop for login"}
    /\ DisconnectProc
    /\ app' = IF app = "stop" THEN "join" ELSE "join for login"
    /\ UNCHANGED <<mgrStart, peer, recv, send, beating, user, loggedIn, kinds, lists, listHeld, counts>>

\* ... wait for the receive thread, and release the socket.
Joined ==
    /\ app \in {"join", "join for login"} /\ recv.at \in {"none", "end"}
    /\ recv' = Idle /\ sock' = "none" /\ mgrStart' = FALSE
    /\ loggedIn' = IF app = "join" THEN FALSE ELSE loggedIn
    /\ app' = IF app = "join" THEN "out" ELSE "create"
    /\ UNCHANGED <<bStart, peer, send, beating, user, kinds, lists, listHeld, counts>>

\* Start: the receive thread is created ...
Create ==
    /\ app = "create"
    /\ recv' = [at |-> "loop", left |-> setup.ips]
    /\ app' = "starting"
    /\ UNCHANGED <<start, sock, peer, send, beating, user, loggedIn, kinds, lists, listHeld, counts>>

\* ... and m_bStart set with the result.
Started ==
    /\ app = "starting" /\ app' = "in"
    /\ bStart' = TRUE /\ mgrStart' = TRUE
    /\ UNCHANGED <<sock, peer, recv, send, beating, user, loggedIn, kinds, lists, listHeld, counts>>

AppStep == Stop \/ Joined \/ Create \/ Started

-----------------------------------------------------------------------------
(* The user: a request, when logged in.  SendTaskData looks at m_bStart,   *)
(* then takes the lock of the list.                                        *)

Request ==
    /\ user = 0 /\ loggedIn /\ mgrStart /\ Count("sends")
    /\ kinds' = Append(kinds, "app")
    /\ user' = IF bStart THEN Len(kinds) + 1 ELSE 0
    /\ UNCHANGED <<app, start, sock, peer, recv, send, beating, loggedIn, lists, listHeld>>

SendTaskData ==
    /\ user # 0 /\ ~listHeld
    /\ sendList' = Append(sendList, user) /\ user' = 0
    /\ UNCHANGED <<app, start, sock, peer, recv, send, beating, loggedIn, kinds, taskMap, inflight, freed, lost, listHeld, counts>>

-----------------------------------------------------------------------------
(* The receive thread: ConnectProc, OnConnect, RecvProc, OnRecv,           *)
(* DisconnectCallback.                                                     *)

\* An address is tried while there is one and the handler is started; else OnConnect(false).
NextAddress ==
    /\ recv.at = "loop"
    /\ IF recv.left > 0 /\ bStart
       THEN recv' = [at |-> "new", left |-> recv.left - 1] /\ sock' = "new"
       ELSE recv' = [at |-> "end", left |-> recv.left] /\ UNCHANGED sock
    /\ UNCHANGED <<app, start, peer, send, beating, user, loggedIn, kinds, lists, listHeld, counts>>

Connecting ==
    /\ recv.at = "new" /\ recv' = [recv EXCEPT !.at = "connect"]
    /\ sock' = "connecting"
    /\ UNCHANGED <<app, start, peer, send, beating, user, loggedIn, kinds, lists, listHeld, counts>>

\* connect() returns: the blocked call may still succeed after the descriptor was closed.
Connected ==
    /\ recv.at = "connect"
    /\ \/ /\ recv' = [at |-> "connected"] /\ peer' = TRUE
          /\ sock' = IF sock = "connecting" THEN "open" ELSE sock
          /\ inflight' = {}
       \/ recv' = [at |-> "loop", left |-> recv.left] /\ sock' = "none" /\ UNCHANGED <<peer, inflight>>
    /\ UNCHANGED <<app, start, send, beating, user, loggedIn, kinds, sendList, taskMap, freed, lost, listHeld, counts>>

\* OnConnect(true): the version check is queued, and the heartbeat thread started.
OnConnect ==
    /\ recv.at = "connected" /\ recv' = [at |-> "check"]
    /\ Queued("ver")
    /\ beatRun' = TRUE /\ beat' = IF beat = "none" THEN "sleep" ELSE beat
    /\ UNCHANGED <<app, start, sock, peer, send, user, loggedIn, listHeld, counts>>

\* With the handler still started the send thread starts; otherwise the thread just ends.
StartSending ==
    /\ recv.at = "check"
    /\ IF bStart THEN recv' = [at |-> "recv"] /\ send' = [at |-> "loop"]
       ELSE recv' = [at |-> "end"] /\ UNCHANGED send
    /\ UNCHANGED <<app, start, sock, peer, beating, user, loggedIn, kinds, lists, listHeld, counts>>

\* An answer comes.
Answer ==
    /\ recv.at = "recv" /\ peer /\ sock = "open"
    /\ \E i \in inflight : inflight' = inflight \ {i} /\ recv' = [at |-> "find", task |-> i]
    /\ UNCHANGED <<app, start, sock, peer, send, beating, user, loggedIn, kinds, sendList, taskMap, freed, lost, listHeld, counts>>

\* OnRecv looks for the task three times, as the send thread may not have put it into the
\* map yet, and drops the answer if it is not found.  A task found is handled, leads to the
\* next one, and is deleted.
OnRecv ==
    /\ recv.at = "find" /\ recv' = [at |-> "recv"]
    /\ LET i == recv.task IN
        IF i \notin taskMap THEN UNCHANGED <<taskMap, freed, kinds, sendList, loggedIn>>
        ELSE \E ok \in BOOLEAN :
             /\ taskMap' = taskMap \ {i} /\ freed' = freed \cup {i}
             /\ loggedIn' = IF kinds[i] = "login" THEN ok ELSE loggedIn
             /\ IF kinds[i] = "login" \/ (kinds[i] = "ver" /\ ok)
                THEN /\ kinds' = Append(kinds, Follow[kinds[i]])
                     /\ sendList' = IF bStart THEN Append(sendList, Len(kinds) + 1) ELSE sendList
                ELSE UNCHANGED <<kinds, sendList>>
    /\ UNCHANGED <<app, start, sock, peer, send, beating, user, inflight, lost, listHeld, counts>>

\* Recv fails, or a packet cannot be unpacked: the connection is given up.
RecvEnds ==
    /\ recv.at = "recv"
    /\ recv' = [at |-> "disconnect"]
    /\ UNCHANGED <<app, start, sock, peer, send, beating, user, loggedIn, kinds, lists, listHeld, counts>>

RecvDisconnect ==
    /\ recv.at = "disconnect" /\ recv' = [at |-> "join send"]
    /\ DisconnectProc
    /\ UNCHANGED <<app, mgrStart, peer, send, beating, user, loggedIn, kinds, lists, listHeld, counts>>

\* It waits for the send thread, and takes the lock of the list.
SendJoined ==
    /\ recv.at = "join send" /\ send.at = "end"
    /\ send' = Idle /\ recv' = [at |-> "callback"] /\ listHeld' = TRUE
    /\ UNCHANGED <<app, start, sock, peer, beating, user, loggedIn, kinds, lists, counts>>

\* Slip: the heartbeat thread is not told to stop.
OnDisconnectBeating ==
    /\ recv.at = "callback" /\ recv' = [at |-> "join beat"]
    /\ freed' = freed \cup taskMap \cup ToSet(sendList)
    /\ taskMap' = {}
    /\ UNCHANGED <<app, start, sock, peer, send, beating, user, loggedIn, kinds, sendList, inflight, lost, listHeld, counts>>

\* Slip: the tasks that were not sent are not called back.
OnDisconnectUnsent ==
    /\ recv.at = "callback" /\ recv' = [at |-> "join beat"]
    /\ freed' = freed \cup taskMap
    /\ taskMap' = {}
    /\ beatRun' = FALSE
    /\ UNCHANGED <<app, start, sock, peer, send, beat, user, loggedIn, kinds, sendList, inflight, lost, listHeld, counts>>

\* OnDisconnect of the task manager: what was not sent joins what was not answered, and all
\* are called back and deleted; the heartbeat thread is told to stop.
OnDisconnect ==
    /\ recv.at = "callback" /\ recv' = [at |-> "join beat"]
    /\ freed' = freed \cup taskMap \cup ToSet(sendList)
    /\ taskMap' = {}
    /\ beatRun' = FALSE
    /\ UNCHANGED <<app, start, sock, peer, send, beat, user, loggedIn, kinds, sendList, inflight, lost, listHeld, counts>>

\* It waits for the heartbeat thread, and OnLogout is called; the list is cleared and unlocked.
BeatJoined ==
    /\ recv.at = "join beat" /\ beat \in {"none", "end"}
    /\ beat' = "none" /\ loggedIn' = FALSE
    /\ sendList' = <<>> /\ listHeld' = FALSE
    /\ recv' = [at |-> "end", called |-> TRUE]
    /\ UNCHANGED <<app, start, sock, peer, send, beatRun, user, kinds, taskMap, inflight, freed, lost, counts>>

RecvStep ==
    \/ NextAddress \/ Connecting \/ Connected \/ OnConnect \/ StartSending \/ OnRecv
    \/ RecvDisconnect \/ SendJoined \/ OnDisconnect \/ BeatJoined

-----------------------------------------------------------------------------
(* The send thread: SendProc and OnSend.                                   *)

PopTask ==
    /\ send.at = "loop"
    /\ IF ~bStart THEN send' = [at |-> "end"] /\ UNCHANGED sendList
       ELSE IF sendList = <<>> THEN UNCHANGED <<send, sendList>>
       ELSE send' = [at |-> "pack", task |-> Head(sendList)] /\ sendList' = Tail(sendList)
    /\ UNCHANGED <<app, start, sock, peer, recv, beating, user, loggedIn, kinds, taskMap, inflight, freed, lost, listHeld, counts>>

\* Packet fails for a body that the buffer does not hold, and nothing is done about it.
Pack ==
    /\ send.at = "pack"
    /\ \/ send' = [send EXCEPT !.at = "send"] /\ UNCHANGED lost
       \/ kinds[send.task] = "app" /\ send' = [at |-> "loop"] /\ lost' = lost \cup {send.task}
    /\ UNCHANGED <<app, start, sock, peer, recv, beating, user, loggedIn, kinds, sendList, taskMap, inflight, freed, listHeld, counts>>

\* send() succeeds, and the server may answer from now on; or it fails.
SendPacket ==
    /\ send.at = "send"
    /\ \/ /\ sock = "open" /\ send' = [send EXCEPT !.at = "sent"]
          /\ inflight' = IF kinds[send.task] \in NoAnswer THEN inflight ELSE inflight \cup {send.task}
       \/ (sock # "open" \/ ~peer) /\ send' = [send EXCEPT !.at = "failed"] /\ UNCHANGED inflight
    /\ UNCHANGED <<app, start, sock, peer, recv, beating, user, loggedIn, kinds, sendList, taskMap, freed, lost, listHeld, counts>>

\* Slip: every task is deleted when it was sent, and those that wait are in the map as well.
OnSendFreed ==
    /\ send.at = "sent" /\ send' = [at |-> "loop"]
    /\ freed' = freed \cup {send.task}
    /\ taskMap' = IF kinds[send.task] \in NoAnswer THEN taskMap ELSE taskMap \cup {send.task}
    /\ UNCHANGED <<app, start, sock, peer, recv, beating, user, loggedIn, kinds, sendList, inflight, lost, listHeld, counts>>

\* OnSend(true): a task that waits for an answer goes into the map, any other is deleted.
OnSend ==
    /\ send.at = "sent" /\ send' = [at |-> "loop"]
    /\ IF kinds[send.task] \in NoAnswer
       THEN freed' = freed \cup {send.task} /\ UNCHANGED taskMap
       ELSE taskMap' = taskMap \cup {send.task} /\ UNCHANGED freed
    /\ UNCHANGED <<app, start, sock, peer, recv, beating, user, loggedIn, kinds, sendList, inflight, lost, listHeld, counts>>

\* OnSend(false) does nothing, and the connection is given up.
SendFailed ==
    /\ send.at = "failed" /\ send' = [at |-> "loop"]
    /\ lost' = lost \cup {send.task}
    /\ DisconnectProc
    /\ UNCHANGED <<app, mgrStart, peer, recv, beating, user, loggedIn, kinds, sendList, taskMap, inflight, freed, listHeld, counts>>

SendStep == PopTask \/ Pack \/ SendPacket \/ OnSend \/ SendFailed

-----------------------------------------------------------------------------
(* The heartbeat thread, and the server.                                   *)

\* The next heartbeat is made, or the thread sees that it has to end.
Beat ==
    /\ beat = "sleep"
    /\ \/ /\ Count("beats")
          /\ kinds' = Append(kinds, "beat")
          /\ beat' = IF bStart THEN "push" ELSE "sleep"
       \/ /\ ~beatRun /\ beat' = "end" /\ UNCHANGED <<counts, kinds>>
    /\ UNCHANGED <<app, start, sock, peer, recv, send, beatRun, user, loggedIn, lists, listHeld>>

IsLastBeat(i) == kinds[i] = "beat" /\ \A j \in DOMAIN kinds : kinds[j] = "beat" => j <= i

\* SendTaskData in the heartbeat thread, behind the lock of the list.
PushBeat ==
    /\ beat = "push" /\ ~listHeld
    /\ LET i == CHOOSE i \in DOMAIN kinds : IsLastBeat(i)
       IN sendList' = Append(sendList, i)
    /\ beat' = "sleep"
    /\ UNCHANGED <<app, start, sock, peer, recv, send, beatRun, user, loggedIn, kinds, taskMap, inflight, freed, lost, listHeld, counts>>

BeatStep == Beat \/ PushBeat

ServerCloses ==
    /\ peer /\ peer' = FALSE
    /\ UNCHANGED <<app, start, sock, recv, send, beating, user, loggedIn, kinds, lists, listHeld, counts>>

Step ==
    \/ Login \/ Logout \/ AppStep
    \/ Request \/ SendTaskData
    \/ RecvStep \/ Answer \/ RecvEnds
    \/ SendStep \/ BeatStep \/ ServerCloses

Next == Step /\ UNCHANGED setup

\* Every thread goes on; a connection that was shut or that the server has closed is noticed.
Steady == setup.beats = 0
Fairness ==
    /\ WF_vars(Steady /\ AppStep) /\ WF_vars(Steady /\ SendTaskData)
    /\ WF_vars(Steady /\ RecvStep) /\ WF_vars(Steady /\ SendStep)
    /\ WF_vars(Steady /\ RecvEnds /\ (sock # "open" \/ ~peer))
    /\ WF_vars(Steady /\ PushBeat) /\ WF_vars(Steady /\ Beat /\ ~beatRun)

Spec == Init /\ [][Next]_<<vars, setup>> /\ Fairness

-----------------------------------------------------------------------------
InHands == IF send.at \in {"pack", "send", "sent", "failed"} THEN {send.task} ELSE {}

Kinds == {"ver", "login", "devid", "devtype", "app", "beat"}
Receiving ==
    [at : {"none", "connected", "check", "recv", "disconnect", "join send", "callback", "join beat"}]
    \cup [at : {"loop", "new", "connect", "end"}, left : Nat] \cup [at : {"find"}, task : Nat]
    \cup [at : {"end"}, called : {TRUE}] \cup [at : {"end"}]
Sending == [at : {"none", "loop", "end"}] \cup [at : {"pack", "send", "sent", "failed"}, task : Nat]

\* Every variable keeps its type, and a thread is where its flags allow: sending needs a
\* receive thread that will join it.
TypeOK ==
    /\ setup \in Setups
    /\ app \in {"out", "in", "stop", "stop for login", "join", "join for login", "create", "starting"}
    /\ sock \in {"none", "new", "connecting", "open", "closed", "shut"}
    /\ bStart \in BOOLEAN /\ mgrStart \in BOOLEAN /\ peer \in BOOLEAN /\ loggedIn \in BOOLEAN
    /\ beat \in {"none", "sleep", "push", "end"} /\ beatRun \in BOOLEAN /\ listHeld \in BOOLEAN
    /\ recv \in Receiving /\ send \in Sending /\ user \in Nat
    /\ kinds \in Seq(Kinds) /\ sendList \in Seq(Nat)
    /\ ToSet(sendList) \cup taskMap \cup inflight \cup freed \cup lost \cup InHands \subseteq DOMAIN kinds
    /\ send.at # "none" => recv.at \in {"recv", "find", "disconnect", "join send"}

\* No task is used after it was deleted, or deleted twice: a task that a list, a thread or
\* the map holds is held there only, and is not deleted, and one that was lost is held by
\* nobody.  (While the callback runs, the list that it clears at the end still names tasks
\* that are deleted.)
HeldOnce ==
    /\ IsInjective(sendList)
    /\ taskMap \cap (freed \cup ToSet(sendList) \cup InHands) = {}
    /\ (InHands \cup lost) \cap (freed \cup ToSet(sendList)) = {} /\ lost \cap taskMap = {}
    /\ recv.at # "join beat" => ToSet(sendList) \cap freed = {}

\* Well typed, and every task has one owner, in every state of the connection.
TransportInv == TypeOK /\ HeldOnce

\* When OnLogout is called every task that was queued before has been called back or was
\* lost when it was packed or sent: none is left in a list, in the map or with a thread.
Swept ==
    recv.at = "join beat" => taskMap = {} /\ InHands = {} /\ ToSet(sendList) \subseteq freed

\* Why: a request of the user or a heartbeat that is made and not queued yet is held by nobody;
\* what is in the send thread's hands was not lost; the callback holds the lock of the list;
\* and only with no receive thread is one created.
Unheld(i) == i \notin ToSet(sendList) \cup taskMap \cup freed \cup lost \cup InHands
NotYet ==
    /\ user # 0 => user \in DOMAIN kinds /\ kinds[user] = "app" /\ Unheld(user)
    /\ beat = "push" => \E i \in DOMAIN kinds : IsLastBeat(i) /\ Unheld(i)
ThreadsMeet ==
    /\ InHands \cap lost = {}
    /\ listHeld <=> recv.at \in {"callback", "join beat"}
    /\ app \in {"out", "create"} => recv.at = "none" /\ ~mgrStart
    /\ app = "in" => mgrStart
TransportIInv == TransportInv /\ Swept /\ NotYet /\ ThreadsMeet

\* The disconnect callback, once begun, ends, as long as no heartbeat is queued meanwhile.
DisconnectEnds == Steady => ((recv.at = "callback") ~> (recv.at \in {"end", "none"}))

\* Logging out, and the stop that comes before a new login, end.
StopEnds == Steady => ((app \in {"stop", "stop for login"}) ~> (app \in {"out", "in"}))

\* When the server has gone the client learns of it: it is not logged in for ever.
LossNoticed == Steady => ((loggedIn /\ ~peer) ~> (~loggedIn \/ peer))
=============================================================================
