----------------------------- MODULE CouponSend -----------------------------
(***************************************************************************)
(* Sending messages with trial coupons in LiveChatManManager.  A message   *)
(* is sent at once to a user one chats with; for another user it waits in  *)
(* the user's list while a coupon is looked for (http), used (http, then   *)
(* the chat server) or the balance is asked for (http).  While the manager *)
(* is not logged in, or has not the history yet, messages wait as well.    *)
(*                                                                         *)
(* Four threads take part: the application's, the manager's request        *)
(* thread, which works off m_requestQueue, the receive thread of the chat  *)
(* client, and the threads of http requests, which call the manager back   *)
(* one at a time, under the mutex that starting a request needs as well.   *)
(*                                                                         *)
(* The application logs out to log in again (Logout(false)): what a        *)
(* Logout(true) clears besides, and how the threads log in and out, is in  *)
(* ManagerLogin.                                                           *)
(***************************************************************************)
EXTENDS Naturals, Sequences, FiniteSets, SequencesExt

CONSTANTS Users, Messages,
          To,      \* the user that each message is for
          None,
          Setups   \* what is to be told apart, one of which each behaviour begins with

\* early: may an answer come before its request was noted?  failures: may requests fail to
\* start, and lists to arrive?  written: the messages that are written, of which photos are
\* uploaded by http first.  The rest are bounds: losses of the connection, checks of a coupon that
\* the application asks for, and outs: logouts, and logins that fail.
ASSUME CouponAssumption ==
    /\ To \in [Messages -> Users] /\ None \notin Messages \union Users
    /\ Setups \subseteq [early : BOOLEAN, failures : BOOLEAN, written : SUBSET Messages,
                         photos : SUBSET Messages, drops : Nat, externs : Nat, outs : Nat]

VARIABLES setup,
          linked,      \* whether the client is connected
          online,      \* m_isLogin
          history,     \* m_isGetHistory
          autoLogin,   \* m_isAutoLogin
          turned,      \* messages that SendMsgWithCoupon neither sent nor queued
          chatType,    \* m_chatType of each user
          inviteId,    \* the users with a m_inviteId
          sendList,    \* m_sendMsgList of each user
          status,      \* m_statusType of each message
          sendingMap,  \* messages that wait for the server's answer
          requestMap,  \* LCPhotoManager::m_requestMap: photos whose upload waits for an answer
          wire,        \* messages given to the client and not answered
          uploads,     \* uploads not answered
          http,        \* the number of requests of each kind under way for each user
          asking,      \* the number of requests for histories under way
          tickets,     \* the uses of a ticket that the chat server has not answered
          talk,        \* the number of requests of the talk list under way
          tasks,       \* m_requestQueue
          app, req, cb,  \* what the application's, the request and the http threads do
          hand,        \* the message that each of them has sent and not noted yet
          counts       \* the losses of the connection, the application's checks and the outs

net == <<linked, wire, uploads, tickets, talk>>
gate == <<online, history, autoLogin, turned>>
user == <<chatType, inviteId>>
https == <<http, asking>>
notes == <<sendingMap, requestMap>>
threads == <<app, req, cb, hand>>
vars == <<net, gate, user, https, notes, threads, counts, sendList, status, tasks>>

Threads == {"app", "request", "http"}
Kinds == {"check", "extern", "use", "count"}
InChat == {"chat", "man invite"}
Final == {"Fail", "Finish"}
Idle == [at |-> "idle"]

\* Whether the coupon is to be checked before a message goes to this user.
IsCheckCoupon(u) == chatType[u] \notin InChat

\* SendMessageListProc holds the lock of the user's list from its first message to its last.
Locked(u) == req.at = "send" /\ req.user = u

\* The http callbacks hold the mutex that StartRequest needs.
MutexFree == cb = Idle

Init ==
    /\ setup \in Setups
    /\ linked = FALSE /\ online = FALSE /\ history = FALSE /\ autoLogin = TRUE /\ turned = {}
    /\ chatType = [u \in Users |-> "other"] /\ inviteId = {}
    /\ sendList = [u \in Users |-> <<>>] /\ status = [m \in Messages |-> "Unprocess"]
    /\ sendingMap = {} /\ requestMap = {} /\ wire = {} /\ uploads = {}
    /\ http = [k \in Kinds |-> [u \in Users |-> 0]] /\ asking = 0
    /\ tickets = [u \in Users |-> 0] /\ talk = 0 /\ tasks = <<>>
    /\ app = Idle /\ req = Idle /\ cb = Idle /\ hand = [t \in Threads |-> None]
    /\ counts = [drops |-> 0, externs |-> 0, outs |-> 0]

-----------------------------------------------------------------------------
(* What several threads do                                                 *)

Count(what) == counts[what] < setup[what] /\ counts' = [counts EXCEPT ![what] = @ + 1]
InsertRequestTask(task) == tasks' = Append(tasks, task)
Of(do, u) == [do |-> do, user |-> u]

StartHttp(k, u) == http' = [http EXCEPT ![k][u] = @ + 1]
EndHttp(k, u) == http[k][u] > 0 /\ http' = [http EXCEPT ![k][u] = @ - 1]

\* CLiveChatClient::SendTextMessage or SendPhoto, whose result decides.
ClientSend(t, m) ==
    /\ IF linked THEN /\ wire' = wire \union {m} /\ hand' = [hand EXCEPT ![t] = m]
                      /\ UNCHANGED status
                 ELSE /\ status' = [status EXCEPT ![m] = "Fail"]
                      /\ UNCHANGED <<wire, hand>>
    /\ UNCHANGED uploads

\* The upload of a photo is started.
StartUpload(t, m) ==
    /\ MutexFree
    /\ \/ uploads' = uploads \union {m} /\ hand' = [hand EXCEPT ![t] = m] /\ UNCHANGED status
       \/ setup.failures /\ status' = [status EXCEPT ![m] = "Fail"] /\ UNCHANGED <<uploads, hand>>
    /\ UNCHANGED wire

SendMessageItem(t, m) == IF m \in setup.photos THEN StartUpload(t, m) ELSE ClientSend(t, m)

\* AddSendingItem, or AddRequestItem for an upload, after the fact.
Note(t) ==
    /\ hand[t] # None
    /\ IF t # "http" /\ hand[t] \in setup.photos
       THEN requestMap' = requestMap \union {hand[t]} /\ UNCHANGED sendingMap
       ELSE sendingMap' = sendingMap \union {hand[t]} /\ UNCHANGED requestMap
    /\ hand' = [hand EXCEPT ![t] = None]
    /\ cb' = IF t = "http" THEN Idle ELSE cb
    /\ UNCHANGED <<net, gate, user, https, app, req, counts, sendList, status, tasks>>

-----------------------------------------------------------------------------
(* The application                                                         *)

\* SendTextMessage, up to the decision, which SendMsgWithCoupon makes without a lock.
SendTextMessage(m) ==
    /\ app = Idle /\ hand["app"] = None /\ m \in setup.written /\ status[m] = "Unprocess"
    /\ autoLogin
    /\ status' = [status EXCEPT ![m] = "Processing"]
    /\ app' = [at |-> IF ~(online /\ history) THEN "later"
                      ELSE IF IsCheckCoupon(To[m]) THEN "check" ELSE "now", m |-> m]
    /\ UNCHANGED <<net, gate, user, https, notes, req, cb, hand, counts, sendList, tasks>>

\* A message that is not to be sent now waits, if m_isAutoLogin is still set.
SendLater ==
    /\ app.at = "later"
    /\ \/ autoLogin /\ app' = [app EXCEPT !.at = "wait"] /\ UNCHANGED turned
       \/ ~autoLogin /\ app' = Idle /\ turned' = turned \union {app.m}
    /\ UNCHANGED <<net, online, history, autoLogin, user, https, notes, req, cb, hand, counts, sendList,
                   status, tasks>>

SendNow ==
    /\ app.at = "now" /\ app' = Idle
    /\ SendMessageItem("app", app.m)
    /\ UNCHANGED <<linked, tickets, talk, gate, user, https, notes, req, cb, counts, sendList, tasks>>

InsertSendMsgList ==
    /\ app.at \in {"wait", "check"} /\ ~Locked(To[app.m])
    /\ sendList' = [sendList EXCEPT ![To[app.m]] = Append(@, app.m)]
    /\ app' = IF app.at = "check" THEN [at |-> "ask", m |-> app.m] ELSE Idle
    /\ UNCHANGED <<net, gate, user, https, notes, req, cb, hand, counts, status, tasks>>

\* CheckCouponProc, whose result SendMsgWithCoupon does not look at.
CheckCouponProc ==
    /\ app.at = "ask" /\ app' = Idle /\ MutexFree
    /\ StartHttp("check", To[app.m]) \/ (setup.failures /\ UNCHANGED http)
    /\ UNCHANGED <<net, gate, user, asking, notes, req, cb, hand, counts, sendList, status, tasks>>

\* CheckCoupon of the application, which notes the request in m_checkCouponOptMap afterwards.
CheckCoupon(u) ==
    /\ app = Idle /\ hand["app"] = None /\ Count("externs") /\ MutexFree
    /\ StartHttp("extern", u)
    /\ app' = [at |-> "opt", user |-> u]
    /\ UNCHANGED <<net, gate, user, asking, notes, req, cb, hand, sendList, status, tasks>>

NoteOpt ==
    /\ app.at = "opt" /\ app' = Idle
    /\ UNCHANGED <<net, gate, user, https, notes, req, cb, hand, counts, sendList, status, tasks>>

\* Logout(false) of the application, which waits for the receive thread.
Logout ==
    /\ app = Idle /\ hand["app"] = None /\ autoLogin /\ Count("outs")
    /\ autoLogin' = FALSE /\ linked' = FALSE /\ app' = [at |-> "logout"]
    /\ UNCHANGED <<wire, uploads, tickets, talk, online, history, turned, user, https, notes, req, cb, hand,
                   sendList, status, tasks>>

LogoutDone ==
    /\ app.at = "logout" /\ ~online /\ app' = Idle
    /\ UNCHANGED <<net, gate, user, https, notes, req, cb, hand, counts, sendList, status, tasks>>

\* Login, by the application or by an AutoRelogin that was queued before: the request thread
\* is made anew when its task is done.
Login ==
    /\ ~autoLogin /\ ~online /\ app.at # "logout" /\ req = Idle /\ hand["request"] = None
    /\ autoLogin' = TRUE
    /\ UNCHANGED <<net, online, history, turned, user, https, notes, threads, counts, sendList, status, tasks>>

AppStep == SendNow \/ SendLater \/ InsertSendMsgList \/ CheckCouponProc \/ NoteOpt \/ LogoutDone

-----------------------------------------------------------------------------
(* The request thread                                                      *)

\* The thread pops a task.  The loop over users works on the lists of that moment.
PopRequestTask ==
    /\ req = Idle /\ hand["request"] = None /\ tasks # <<>>
    /\ LET task == Head(tasks) IN
       req' = CASE task.do = "history" ->
                     [at |-> "history", users |-> {u \in Users : chatType[u] \in InChat}]
                [] task.do = "to send" ->
                     [at |-> "to send", users |-> {u \in Users : sendList[u] # <<>>}]
                [] task.do = "send" ->
                     [at |-> "send", user |-> task.user, left |-> sendList[task.user]]
                [] OTHER -> [at |-> task.do, user |-> task.user]
    /\ tasks' = Tail(tasks)
    /\ UNCHANGED <<net, gate, user, https, notes, app, cb, hand, counts, sendList, status>>

\* GetUsersHistoryMessage asks for those with an invite id; with nobody in chat there is no
\* history to get.
GetUsersHistoryMessage ==
    /\ req.at = "history" /\ req' = Idle
    /\ \/ req.users = {} /\ history' = TRUE /\ UNCHANGED asking
       \/ /\ req.users \intersect inviteId # {} /\ MutexFree
          /\ asking' = asking + 1 /\ UNCHANGED history
       \/ /\ req.users # {} /\ (req.users \intersect inviteId = {} \/ setup.failures)
          /\ UNCHANGED <<asking, history>>
    /\ UNCHANGED <<net, online, autoLogin, turned, user, http, notes, app, cb, hand, counts, sendList, status, tasks>>

\* REQUEST_TASK_CheckCouponWithToSendUser, for one user: whoever needs the check is sent to
\* without, and whoever does not is checked.
CheckToSendUser ==
    /\ req.at = "to send"
    /\ \E u \in req.users :
        /\ req' = [at |-> "to send", users |-> req.users \ {u}]
        /\ \/ IsCheckCoupon(u) /\ InsertRequestTask(Of("send", u)) /\ UNCHANGED http
           \/ ~IsCheckCoupon(u) /\ MutexFree /\ StartHttp("check", u) /\ UNCHANGED tasks
           \/ ~IsCheckCoupon(u) /\ setup.failures /\ InsertRequestTask(Of("send", u)) /\ UNCHANGED http
    /\ UNCHANGED <<net, gate, user, asking, notes, app, cb, hand, counts, sendList, status>>

ToSendDone ==
    /\ req.at = "to send" /\ req.users = {} /\ req' = Idle
    /\ UNCHANGED <<net, gate, user, https, notes, app, cb, hand, counts, sendList, status, tasks>>

\* SendMessageListProc, a message at a time, with the list locked.
SendNext ==
    /\ req.at = "send" /\ req.left # <<>> /\ hand["request"] = None
    /\ SendMessageItem("request", Head(req.left))
    /\ req' = [req EXCEPT !.left = Tail(@)]
    /\ UNCHANGED <<linked, tickets, talk, gate, user, https, notes, app, cb, counts, sendList, tasks>>

\* Slip: the list is not cleared.
ListSentKept ==
    /\ req.at = "send" /\ req.left = <<>> /\ hand["request"] = None
    /\ req' = Idle
    /\ UNCHANGED <<net, gate, user, https, notes, app, cb, hand, counts, status, sendList, tasks>>

ListSent ==
    /\ req.at = "send" /\ req.left = <<>> /\ hand["request"] = None
    /\ sendList' = [sendList EXCEPT ![req.user] = <<>>]
    /\ req' = Idle
    /\ UNCHANGED <<net, gate, user, https, notes, app, cb, hand, counts, status, tasks>>

UseTryTicketProc ==
    /\ req.at = "use" /\ req' = Idle
    /\ \/ MutexFree /\ StartHttp("use", req.user) /\ UNCHANGED tasks
       \/ setup.failures /\ InsertRequestTask(Of("count", req.user)) /\ UNCHANGED http
    /\ UNCHANGED <<net, gate, user, asking, notes, app, cb, hand, counts, sendList, status>>

\* GetCountProc: the request is noted in m_inviteMsgMap after it was started.
GetCountProc ==
    /\ req.at = "count"
    /\ \/ MutexFree /\ StartHttp("count", req.user) /\ req' = [at |-> "note count", user |-> req.user]
       \/ setup.failures /\ req' = [at |-> "fail", user |-> req.user] /\ UNCHANGED http
    /\ UNCHANGED <<net, gate, user, asking, notes, app, cb, hand, counts, sendList, status, tasks>>

NoteCount ==
    /\ req.at = "note count" /\ req' = Idle
    /\ UNCHANGED <<net, gate, user, https, notes, app, cb, hand, counts, sendList, status, tasks>>

\* SendMessageListFailProc.
FailList(u) ==
    /\ ~Locked(u)
    /\ status' = [m \in Messages |-> IF m \in ToSet(sendList[u]) THEN "Fail" ELSE status[m]]
    /\ sendList' = [sendList EXCEPT ![u] = <<>>]

FailByRequest ==
    /\ req.at = "fail" /\ FailList(req.user) /\ req' = Idle
    /\ UNCHANGED <<net, gate, user, https, notes, app, cb, hand, counts, tasks>>

RequestStep == GetUsersHistoryMessage \/ CheckToSendUser \/ ToSendDone \/ SendNext \/ ListSent
                  \/ UseTryTicketProc \/ GetCountProc \/ NoteCount \/ FailByRequest \/ PopRequestTask

-----------------------------------------------------------------------------
(* The threads of http requests                                            *)

\* OnCheckCoupon of a check that the manager asked for.
OnCheckCoupon(u) ==
    /\ MutexFree /\ EndHttp("check", u)
    /\ \E do \in {"use", "count"} : InsertRequestTask(Of(do, u))
    /\ UNCHANGED <<net, gate, user, asking, notes, threads, counts, sendList, status>>

\* Slip: who asked makes no difference.
OnExternCheckInternal(u) ==
    /\ MutexFree /\ EndHttp("extern", u)
    /\ \E do \in {"use", "count"} : InsertRequestTask(Of(do, u))
    /\ UNCHANGED <<net, gate, user, asking, notes, threads, counts, sendList, status>>

\* OnCheckCoupon of one that the application asked for: without the note it is taken for the
\* manager's own.
OnExternCheck(u) ==
    LET noted == http["extern"][u] > 1 \/ ~(app.at = "opt" /\ app.user = u) IN
    /\ MutexFree /\ EndHttp("extern", u)
    /\ \/ noted /\ UNCHANGED tasks
       \/ setup.early /\ ~noted /\ \E do \in {"use", "count"} : InsertRequestTask(Of(do, u))
    /\ UNCHANGED <<net, gate, user, asking, notes, threads, counts, sendList, status>>

\* Slip: a failure is not passed on.
OnUseCouponGivesUp(u) ==
    /\ MutexFree /\ EndHttp("use", u)
    /\ \/ linked /\ tickets' = [tickets EXCEPT ![u] = @ + 1] /\ UNCHANGED tasks
       \/ UNCHANGED <<tickets, tasks>>
    /\ UNCHANGED <<linked, wire, uploads, talk, gate, user, asking, notes, threads, counts, sendList, status>>

\* OnUseCoupon: the chat server is told, if it can be.
OnUseCoupon(u) ==
    /\ MutexFree /\ EndHttp("use", u)
    /\ \/ linked /\ tickets' = [tickets EXCEPT ![u] = @ + 1] /\ UNCHANGED tasks
       \/ InsertRequestTask(Of("count", u)) /\ UNCHANGED tickets
    /\ UNCHANGED <<linked, wire, uploads, talk, gate, user, asking, notes, threads, counts, sendList, status>>

\* OnGetCount: the note tells whose messages are to be sent or failed.
OnGetCount(u) ==
    LET noted == http["count"][u] > 1 \/ ~(req.at = "note count" /\ req.user = u) IN
    /\ MutexFree /\ EndHttp("count", u)
    /\ \/ noted /\ InsertRequestTask(Of("send", u)) /\ UNCHANGED cb
       \/ noted /\ cb' = [at |-> "fail", user |-> u] /\ UNCHANGED tasks
       \/ setup.early /\ ~noted /\ UNCHANGED <<cb, tasks>>
    /\ UNCHANGED <<net, gate, user, asking, notes, app, req, hand, counts, sendList, status>>

\* Slip: the failed messages stay in the list.
FailByHttpKept ==
    /\ cb.at = "fail" /\ ~Locked(cb.user) /\ cb' = Idle
    /\ status' = [m \in Messages |-> IF m \in ToSet(sendList[cb.user]) THEN "Fail" ELSE status[m]]
    /\ UNCHANGED <<net, gate, user, https, notes, app, req, hand, counts, sendList, tasks>>

FailByHttp ==
    /\ cb.at = "fail" /\ FailList(cb.user) /\ cb' = Idle
    /\ UNCHANGED <<net, gate, user, https, notes, app, req, hand, counts, tasks>>

\* OnQueryChatRecordMutiple: a failure opens the gate too, but sends nobody's messages.
OnQueryChatRecordMutiple ==
    /\ MutexFree /\ asking > 0 /\ asking' = asking - 1
    /\ history' = TRUE
    /\ InsertRequestTask([do |-> "to send"]) \/ UNCHANGED tasks
    /\ UNCHANGED <<net, online, autoLogin, turned, user, http, notes, threads, counts, sendList, status>>

\* OnSendPhoto of the upload: the photo is sent, if the note is found.
OnUpload(m) ==
    /\ MutexFree /\ m \in uploads
    /\ setup.early \/ m \notin {hand["app"], hand["request"]}
    /\ uploads' = uploads \ {m}
    /\ \/ /\ m \in requestMap /\ linked
          /\ wire' = wire \union {m} /\ hand' = [hand EXCEPT !["http"] = m] /\ cb' = [at |-> "upload"]
          /\ UNCHANGED status
       \/ /\ m \in requestMap /\ status' = [status EXCEPT ![m] = "Fail"] /\ UNCHANGED <<wire, hand, cb>>
       \/ m \notin requestMap /\ UNCHANGED <<wire, hand, cb, status>>
    /\ UNCHANGED <<linked, tickets, talk, gate, user, https, notes, app, req, counts, sendList, tasks>>

-----------------------------------------------------------------------------
(* The receive thread and the server                                       *)

\* OnSendTextMessage or OnSendPhoto: once the connection is lost every answer is a failure.
OnSendAnswer(m) ==
    /\ m \in wire /\ (setup.early \/ \A t \in Threads : hand[t] # m)
    /\ wire' = wire \ {m} /\ sendingMap' = sendingMap \ {m}
    /\ \/ m \in sendingMap /\ \E s \in Final : (linked \/ s = "Fail") /\ status' = [status EXCEPT ![m] = s]
       \/ m \notin sendingMap /\ UNCHANGED status
    /\ UNCHANGED <<linked, uploads, tickets, talk, gate, user, https, requestMap, threads, counts, sendList,
                   tasks>>

OnUseTryTicket(u) ==
    /\ tickets[u] > 0 /\ tickets' = [tickets EXCEPT ![u] = @ - 1]
    /\ \/ /\ linked /\ InsertRequestTask(Of("send", u))
          /\ chatType' = [chatType EXCEPT ![u] = IF @ = "other" THEN "man invite" ELSE @]
       \/ InsertRequestTask(Of("count", u)) /\ UNCHANGED chatType
    /\ UNCHANGED <<linked, wire, uploads, talk, gate, inviteId, https, notes, threads, counts, sendList, status>>

\* OnGetTalkList: who is in chat and who is invited, and the history is asked for.
OnGetTalkList ==
    /\ talk > 0 /\ talk' = talk - 1
    /\ \/ /\ linked
          /\ \E chats, invited \in SUBSET Users :
              /\ chatType' = [u \in Users |-> CASE u \in invited -> "other"
                                               [] u \in chats \ invited -> "chat"
                                               [] OTHER -> chatType[u]]
              /\ inviteId' = inviteId \union chats \union invited
          /\ InsertRequestTask([do |-> "history"])
       \/ (setup.failures \/ ~linked) /\ UNCHANGED <<user, tasks>>
    /\ UNCHANGED <<linked, wire, uploads, tickets, gate, https, notes, threads, counts, sendList, status>>

\* OnRecvTryTalkBegin, OnRecvTryTalkEnd, OnRecvTalkEvent.
OnTalkEvent(u) ==
    /\ linked
    /\ \E type \in {"chat", "other"} : type # chatType[u] /\ chatType' = [chatType EXCEPT ![u] = type]
    /\ UNCHANGED <<net, gate, inviteId, https, notes, threads, counts, sendList, status, tasks>>

\* The connection is lost: the client first fails what was under way ...
LinkLost ==
    /\ linked /\ linked' = FALSE /\ Count("drops")
    /\ UNCHANGED <<wire, uploads, tickets, talk, gate, user, https, notes, threads, sendList,
                   status, tasks>>

\* ... and then reports it, always as LCC_ERR_CONNECTFAIL: OnLogout, and what is reset when
\* the manager is to log in again.
OnLogout ==
    /\ ~linked /\ online /\ wire = {} /\ talk = 0 /\ \A u \in Users : tickets[u] = 0
    /\ online' = FALSE
    /\ \/ autoLogin /\ history' = FALSE /\ requestMap' = {}
       \/ ~autoLogin /\ UNCHANGED <<history, requestMap>>
    /\ UNCHANGED <<net, autoLogin, turned, user, https, sendingMap, threads, counts, sendList, status, tasks>>

\* OnLogin, with the request of the talk list.
OnLogin ==
    /\ ~online /\ ~linked /\ autoLogin
    /\ online' = TRUE /\ linked' = TRUE /\ talk' = talk + 1
    /\ UNCHANGED <<wire, uploads, tickets, history, autoLogin, turned, user, https, notes, threads, counts,
                   sendList, status, tasks>>

\* OnLogin with LCC_ERR_CONNECTFAIL, or with another error, after which IsAutoRelogin says no.
OnLoginFail ==
    /\ ~online /\ ~linked /\ autoLogin /\ Count("outs")
    /\ \/ history' = FALSE /\ requestMap' = {} /\ UNCHANGED autoLogin
       \/ autoLogin' = FALSE /\ UNCHANGED <<history, requestMap>>
    /\ UNCHANGED <<net, online, turned, user, https, sendingMap, threads, sendList, status, tasks>>

HttpStep(u) == OnCheckCoupon(u) \/ OnExternCheck(u) \/ OnUseCoupon(u) \/ OnGetCount(u)

Step ==
    \/ \E m \in Messages : SendTextMessage(m) \/ OnUpload(m) \/ OnSendAnswer(m)
    \/ \E u \in Users : CheckCoupon(u) \/ HttpStep(u) \/ OnUseTryTicket(u) \/ OnTalkEvent(u)
    \/ \E t \in Threads : Note(t)
    \/ AppStep \/ RequestStep \/ FailByHttp \/ OnQueryChatRecordMutiple
    \/ OnGetTalkList \/ LinkLost \/ OnLogout \/ OnLogin \/ OnLoginFail \/ Logout \/ Login

Next == Step /\ UNCHANGED setup

\* Threads go on and get the mutex in turn; every request is answered, by failure if need be;
\* a lost connection is reported and made again.  All messages are texts: the request thread
\* uploads a photo, which needs the mutex, with the lock of the user's list that an http
\* thread may want with the mutex.
Steady == ~setup.early /\ ~setup.failures /\ setup.photos = {}
Fairness ==
    /\ WF_vars(Steady /\ FailByHttp) /\ SF_vars(Steady /\ AppStep) /\ SF_vars(Steady /\ RequestStep)
    /\ \A t \in Threads : WF_vars(Steady /\ Note(t))
    /\ \A m \in Messages : WF_vars(Steady /\ OnSendAnswer(m))
    /\ \A u \in Users : SF_vars(Steady /\ HttpStep(u)) /\ WF_vars(Steady /\ OnUseTryTicket(u))
    /\ SF_vars(Steady /\ OnQueryChatRecordMutiple) /\ WF_vars(Steady /\ OnGetTalkList)
    /\ WF_vars(Steady /\ OnLogout) /\ WF_vars(Steady /\ OnLogin)

Spec == Init /\ [][Next]_<<vars, setup>> /\ Fairness

-----------------------------------------------------------------------------
(* What is to hold                                                         *)

\* Where the application's, the request and the http threads can be, and what can be queued.
Apps ==
    {Idle, [at |-> "logout"]} \union [at : {"later", "wait", "check", "now", "ask"}, m : Messages]
                              \union [at : {"opt"}, user : Users]
Reqs ==
    {Idle} \union [at : {"history", "to send"}, users : SUBSET Users]
           \union [at : {"send"}, user : Users, left : Seq(Messages)]
           \union [at : {"use", "count", "note count", "fail"}, user : Users]
Cbs == {Idle, [at |-> "upload"]} \union [at : {"fail"}, user : Users]
Tasks == [do : {"history", "to send"}] \union [do : {"send", "use", "count"}, user : Users]

TypeOK ==
    /\ linked \in BOOLEAN /\ online \in BOOLEAN /\ history \in BOOLEAN /\ autoLogin \in BOOLEAN
    /\ turned \subseteq Messages
    /\ chatType \in [Users -> {"other"} \union InChat] /\ inviteId \subseteq Users
    /\ sendList \in [Users -> Seq(Messages)] /\ tasks \in Seq(Tasks)
    /\ \A u \in Users : IsInjective(sendList[u]) /\ \A m \in ToSet(sendList[u]) : To[m] = u
    /\ status \in [Messages -> {"Unprocess", "Processing"} \union Final]
    /\ sendingMap \subseteq Messages /\ requestMap \subseteq setup.photos /\ wire \subseteq Messages
    /\ uploads \subseteq setup.photos /\ http \in [Kinds -> [Users -> Nat]] /\ tickets \in [Users -> Nat]
    /\ asking \in Nat /\ talk \in Nat /\ hand \in [Threads -> Messages \union {None}]
    /\ setup \in Setups /\ DOMAIN counts = {"drops", "externs", "outs"}
    /\ \A what \in DOMAIN counts : counts[what] \in 0..setup[what]
    /\ app \in Apps /\ req \in Reqs /\ cb \in Cbs
    /\ cb.at = "upload" <=> hand["http"] # None

\* Who has a message: the application's thread, the user's list (what is left of it while it
\* is sent), a thread that has sent it but not noted it, or one of the maps.
Begun(m) == app.at \in {"later", "wait", "check", "now"} /\ app.m = m
Listed(m) == m \in ToSet(IF Locked(To[m]) THEN req.left ELSE sendList[To[m]])
Carried(m) == \E t \in Threads : hand[t] = m
Noted(m) == m \in sendingMap \union (requestMap \intersect uploads)
Holders(m) ==
    {h \in {"app", "list", "thread", "map"} :
        CASE h = "app" -> Begun(m)
          [] h = "list" -> Listed(m)
          [] h = "thread" -> Carried(m)
          [] h = "map" -> Noted(m)}

\* An early answer makes the manager forget a message; so does SendMsgWithCoupon when it is not
\* to log in again; and a lost connection or a failed login a photo (ResetParamWithAutoLogin
\* empties m_requestMap).
Undisturbed == counts.drops = 0 /\ counts.outs = 0
Kept(m) == ~setup.early /\ m \notin turned /\ (m \notin setup.photos \/ Undisturbed)

\* A message that is being processed is in one place, and one that is not in none: it is sent
\* once, and nobody forgets it (LCUserItem::m_sendMsgList and the maps of LCTextManager and
\* LCPhotoManager, which four threads fill and empty), but for what Kept says.
Owned ==
    \A m \in Messages :
        /\ Holders(m) # {} => status[m] = "Processing"
        /\ status[m] = "Processing" /\ Kept(m) => Holders(m) # {}
        /\ \A g, h \in Holders(m) : g = h

\* Well typed, and every message has one owner, in every state of the flow.
MessagesInv == TypeOK /\ Owned

\* What the application was told of a message stays true: no message that was reported failed
\* is sent after all (SendMessageListFailProc against SendMessageListProc).
FinalStays == [][\A m \in Messages : status[m] \in Final => status'[m] = status[m]]_vars

\* While nothing was written no coupon is used, however often the application checks for
\* coupons (OnCheckCoupon), as long as no answer is early.
Unasked ==
    ~setup.early /\ (\A m \in Messages : status[m] = "Unprocess") =>
        \A u \in Users : http["use"][u] = 0 /\ tickets[u] = 0 /\ Of("use", u) \notin ToSet(tasks)

\* Why: a list that is being sent loses one message after the other and nothing else; a thread
\* carries one message at a time, and no two the same; a photo is noted after it has left the
\* list, and while its upload is not answered; a connection is lost, or given up, before it is made again.
OneByOne == req.at = "send" => IsInjective(req.left) /\ ToSet(req.left) \subseteq ToSet(sendList[req.user])
OneAtATime ==
    /\ app # Idle => hand["app"] = None
    /\ \A s, t \in Threads : hand[s] = hand[t] => s = t \/ hand[s] = None
NotedLast ==
    /\ \A t \in {"app", "request"} : ~setup.early /\ hand[t] \in setup.photos => hand[t] \in uploads
    /\ sendingMap \intersect requestMap \intersect uploads = {}
    /\ \A m \in requestMap : /\ status[m] # "Unprocess" /\ ~Begun(m) /\ ~Listed(m)
                              /\ m \notin {hand["app"], hand["request"]}
LostBefore == online /\ ~linked => ~Undisturbed

\* And: without a message, no coupon is checked for the manager.
NothingAsked ==
    ~setup.early /\ (\A m \in Messages : status[m] = "Unprocess") =>
        /\ \A u \in Users : http["check"][u] = 0
        /\ app.at \in {"idle", "opt", "logout"} /\ req.at # "use" /\ (req.at = "to send" => req.users = {})

CouponIInv == MessagesInv /\ Unasked /\ OneByOne /\ OneAtATime /\ NotedLast /\ LostBefore /\ NothingAsked

\* While all messages are texts, one for which the coupon is checked is sent or fails in the
\* end (SendMsgWithCoupon and what follows from OnCheckCoupon on).
FlowEnds ==
    \A m \in Messages : Steady => ((app.at = "ask" /\ app.m = m) ~> status[m] \in Final)
=============================================================================
